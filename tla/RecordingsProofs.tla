-------------------------- MODULE RecordingsProofs --------------------------
(***************************************************************************)
(* What downloads of a recording promise for any number of requests, any   *)
(* length of the file and any size of the channels: types, and that a      *)
(* download the browser takes for whole is the file, unless a full channel *)
(* dropped some of it and the browser was not told its length.             *)
(***************************************************************************)
EXTENDS Recordings, TLAPS

----------------------------------------------------------------------------
(* Sequences of replies.  Before is the order in which one serve task sends *)
(* its replies: chunks in their order, then the final frame, which is the   *)
(* empty one or at any point the one that carries an error.                 *)

Before(x, y) == x # Error /\ (y = Error \/ x < y)
Rising(q)    == \A i, j \in DOMAIN q : i < j => Before(q[i], q[j])
Leads(p, q)  == \A i \in DOMAIN p, j \in DOMAIN q : Before(p[i], q[j])

\* The n-th chunk of the body is the file's n-th or a later one, and where the
\* body skips some its last chunk is as many ahead.
Steady(q) == \A i \in DOMAIN q : i <= q[i] /\ q[i] + (Len(q) - i) <= q[Len(q)]

LEMMA Bounds ==
  /\ FileChunks \in Nat /\ MaxStreams \in Nat
  /\ ChanCap \in Nat \ {0} /\ FetchCap \in Nat \ {0} /\ FetchUpCap \in Nat \ {0}
  /\ NoFetch \notin Fetches /\ Error = 0 /\ Eof = FileChunks + 1
BY RecordingsAssumption DEF Error, Eof

LEMMA EmptyOrders ==
  /\ Rising(<<>>) /\ Steady(<<>>)
  /\ \A q : Leads(<<>>, q) /\ Leads(q, <<>>)
BY DEF Rising, Steady, Leads

LEMMA ElementFacts ==
  ASSUME NEW S, NEW q \in Seq(S), NEW i \in DOMAIN q
  PROVE  q[i] \in S /\ i \in 1 .. Len(q)
OBVIOUS

LEMMA WiderFacts ==
  ASSUME NEW S, NEW T, S \subseteq T, NEW q \in Seq(S)
  PROVE  q \in Seq(T)
<1>1. Len(q) \in Nat /\ q \in [1 .. Len(q) -> S]
  OBVIOUS
<1>2. q \in [1 .. Len(q) -> T]
  BY <1>1
<1> QED
  BY <1>1, <1>2

LEMMA TailFacts ==
  ASSUME NEW S, NEW q \in Seq(S), q # <<>>
  PROVE  /\ Tail(q) \in Seq(S) /\ Head(q) \in S /\ Head(q) = q[1] /\ 1 \in DOMAIN q
         /\ Len(Tail(q)) = Len(q) - 1
         /\ \A i \in DOMAIN Tail(q) : i \in Nat /\ i + 1 \in DOMAIN q /\ Tail(q)[i] = q[i + 1]
OBVIOUS

LEMMA AppendFacts ==
  ASSUME NEW S, NEW q \in Seq(S), NEW x \in S
  PROVE  /\ Append(q, x) \in Seq(S) /\ Len(Append(q, x)) = Len(q) + 1
         /\ DOMAIN Append(q, x) = DOMAIN q \cup {Len(q) + 1}
         /\ Append(q, x)[Len(q) + 1] = x
         /\ \A i \in DOMAIN q : i \in Nat /\ i < Len(q) + 1 /\ Append(q, x)[i] = q[i]
OBVIOUS

LEMMA PrefixFacts ==
  ASSUME NEW S, NEW q \in Seq(S), NEW n \in 0 .. Len(q)
  PROVE  /\ SubSeq(q, 1, n) \in Seq(S) /\ Len(SubSeq(q, 1, n)) = n
         /\ \A i \in DOMAIN SubSeq(q, 1, n) : i \in DOMAIN q /\ SubSeq(q, 1, n)[i] = q[i]
OBVIOUS

LEMMA TailOrders ==
  ASSUME NEW q \in Seq(Replies), q # <<>>
  PROVE  /\ Rising(q) => /\ Rising(Tail(q))
                         /\ \A j \in DOMAIN Tail(q) : Before(Head(q), Tail(q)[j])
         /\ \A p : Leads(p, q) => Leads(p, Tail(q)) /\ \A i \in DOMAIN p : Before(p[i], Head(q))
         /\ \A p : Leads(q, p) => Leads(Tail(q), p) /\ \A i \in DOMAIN p : Before(Head(q), p[i])
BY TailFacts DEF Rising, Leads

LEMMA AppendOrders ==
  ASSUME NEW q \in Seq(Replies), NEW x \in Replies
  PROVE  /\ Rising(q) /\ (\A i \in DOMAIN q : Before(q[i], x)) => Rising(Append(q, x))
         /\ \A p : Leads(p, q) /\ (\A i \in DOMAIN p : Before(p[i], x)) => Leads(p, Append(q, x))
         /\ \A p : Leads(q, p) /\ (\A i \in DOMAIN p : Before(x, p[i])) => Leads(Append(q, x), p)
<1> DEFINE r == Append(q, x)
<1>1. /\ DOMAIN r = DOMAIN q \cup {Len(q) + 1} /\ r[Len(q) + 1] = x
      /\ \A i \in DOMAIN q : i \in Nat /\ i < Len(q) + 1 /\ r[i] = q[i]
  BY AppendFacts
<1>2. Len(q) \in Nat
  OBVIOUS
<1> HIDE DEF r
<1>3. Rising(q) /\ (\A i \in DOMAIN q : Before(q[i], x)) => Rising(r)
  BY <1>1, <1>2 DEF Rising
<1>4. \A p : Leads(p, q) /\ (\A i \in DOMAIN p : Before(p[i], x)) => Leads(p, r)
  BY <1>1 DEF Leads
<1>5. \A p : Leads(q, p) /\ (\A i \in DOMAIN p : Before(x, p[i])) => Leads(r, p)
  BY <1>1 DEF Leads
<1> QED
  BY <1>3, <1>4, <1>5 DEF r

LEMMA PrefixOrders ==
  ASSUME NEW q \in Seq(Replies), NEW n \in 0 .. Len(q)
  PROVE  /\ Rising(q) => Rising(SubSeq(q, 1, n))
         /\ \A p : Leads(p, q) => Leads(p, SubSeq(q, 1, n))
BY PrefixFacts DEF Rising, Leads

LEMMA SteadyAppend ==
  ASSUME NEW q \in Seq(1 .. FileChunks), Steady(q), NEW x \in 1 .. FileChunks,
         \A i \in DOMAIN q : q[i] < x
  PROVE  Steady(Append(q, x))
<1> DEFINE r == Append(q, x)
           n == Len(q)
<1>1. /\ DOMAIN r = DOMAIN q \cup {n + 1} /\ r[n + 1] = x /\ Len(r) = n + 1
      /\ \A i \in DOMAIN q : r[i] = q[i]
  BY AppendFacts
<1>2. n \in Nat /\ DOMAIN q = 1 .. n /\ FileChunks \in Nat /\ \A i \in 1 .. n : q[i] \in Nat
  BY Bounds
<1> HIDE DEF r, n
<1>3. CASE n = 0
  BY <1>1, <1>2, <1>3 DEF Steady
<1>4. CASE n # 0
  <2>1. n \in 1 .. n /\ q[n] < x /\ n <= q[n] /\ x \in Nat
    BY <1>2, <1>4, Bounds DEF Steady, n
  <2>2. \A i \in DOMAIN q : i <= q[i] /\ q[i] + (n - i) <= q[n]
    BY DEF Steady, n
  <2>3. \A i \in 1 .. n : i <= r[i] /\ r[i] + (n + 1 - i) <= r[n + 1]
    <3> TAKE i \in 1 .. n
    <3>1. i \in DOMAIN q /\ i \in Nat /\ q[i] \in Nat /\ q[n] \in Nat /\ x \in Nat
      BY <1>2, <2>1
    <3>2. r[i] = q[i] /\ r[n + 1] = x
      BY <1>1, <3>1
    <3>3. i <= q[i] /\ q[i] + (n - i) <= q[n]
      BY <2>2, <3>1
    <3> QED
      BY <1>2, <2>1, <3>1, <3>2, <3>3
  <2>4. n + 1 <= r[n + 1] /\ r[n + 1] + (n + 1 - (n + 1)) <= r[n + 1]
    BY <1>1, <1>2, <2>1
  <2> QED
    BY <1>1, <1>2, <2>3, <2>4 DEF Steady
<1> QED
  BY <1>3, <1>4 DEF r

\* A steady body of the file's length is the file.
LEMMA SteadyIsWhole ==
  ASSUME NEW q \in Seq(1 .. FileChunks), Steady(q), Len(q) = FileChunks
  PROVE  q = [n \in 1 .. FileChunks |-> n]
<1>1. \A i \in 1 .. FileChunks : q[i] \in 1 .. FileChunks /\ i <= q[i] /\ q[i] <= i
  <2> TAKE i \in 1 .. FileChunks
  <2>1. i \in DOMAIN q /\ FileChunks \in DOMAIN q /\ q[i] \in 1 .. FileChunks
        /\ q[FileChunks] \in 1 .. FileChunks /\ FileChunks \in Nat
    BY Bounds
  <2>2. i <= q[i] /\ q[i] + (FileChunks - i) <= q[FileChunks]
    BY <2>1 DEF Steady
  <2> QED
    BY <2>1, <2>2
<1>2. \A i \in 1 .. FileChunks : q[i] = i
  BY <1>1, Bounds
<1> QED
  BY <1>2, Bounds

----------------------------------------------------------------------------
(* Types.                                                                   *)

HandlersOK == fetch \in [Fetches -> Fetch] /\ body \in [Fetches -> Seq(1 .. FileChunks)]
ChannelOK  ==
  /\ slot \in Fetches \cup {NoFetch} /\ chan \in [Fetches -> Seq(Replies)]
  /\ \A f \in Fetches : Len(chan[f]) <= ChanCap
\* A stream that is up has a number.
StreamsOK  ==
  /\ stream \in [n : 0 .. MaxStreams, up : BOOLEAN] /\ serving \in 0 .. MaxStreams
  /\ stream.up => stream.n \in Streams
AskedOK    == asked \in 0 .. FetchCap /\ serves \in Seq(1 .. Eof)
SentOK     == sent \in [Streams -> Seq(Replies)]
HistoryOK  == shared \subseteq Fetches /\ stranded \subseteq Fetches /\ holed \subseteq Fetches

RecordingsTypes == HandlersOK /\ ChannelOK /\ StreamsOK /\ AskedOK /\ SentOK /\ HistoryOK

LEMMA EndEffect ==
  ASSUME HandlersOK, NEW f \in Fetches, NEW r \in Outcomes, End(f, r)
  PROVE  /\ fetch' \in [Fetches -> Fetch]
         /\ fetch'[f].pc = "ending" /\ fetch'[f].c = fetch[f].c /\ fetch'[f].result = r
         /\ \A g \in Fetches \ {f} : fetch'[g] = fetch[g]
BY DEF HandlersOK, Fetch, End

LEMMA OpenEffect ==
  ASSUME HandlersOK, StreamsOK, NEW f \in Fetches, Open(f)
  PROVE  /\ fetch' \in [Fetches -> Fetch] /\ fetch[f].pc = "new"
         /\ \A g \in Fetches \ {f} : fetch'[g] = fetch[g]
         /\ UNCHANGED <<body, chan, stream, serving, asked, serves, sent, stranded, holed>>
         /\ \/ /\ fetch'[f].pc = "over" /\ fetch'[f].result = "refused"
               /\ UNCHANGED <<slot, shared>>
            \/ /\ fetch'[f].pc = "opened" /\ fetch'[f].result = fetch[f].result
               /\ fetch'[f].c = serving /\ serving \in Streams /\ slot' = f
               /\ shared' = IF Quiet THEN shared ELSE shared \cup {f}
<1>1. UNCHANGED <<body, chan, stream, serving, asked, serves, sent, stranded, holed>> /\ fetch[f].pc = "new"
  BY DEF Open, streams, replies
<1>2. CASE serving = 0
  <2>1. fetch' = [fetch EXCEPT ![f].pc = "over", ![f].result = "refused"] /\ UNCHANGED <<slot, shared>>
    BY <1>2 DEF Open
  <2> QED
    BY <1>1, <2>1 DEF HandlersOK, Fetch, Outcomes
<1>3. CASE serving # 0
  <2>1. /\ fetch' = [fetch EXCEPT ![f].pc = "opened", ![f].c = serving] /\ slot' = f
        /\ shared' = IF Quiet THEN shared ELSE shared \cup {f}
    BY <1>3 DEF Open
  <2>2. serving \in Streams /\ serving \in 0 .. MaxStreams
    BY <1>3, Bounds DEF StreamsOK, Streams
  <2>3. /\ fetch' \in [Fetches -> Fetch] /\ \A g \in Fetches \ {f} : fetch'[g] = fetch[g]
        /\ fetch'[f].pc = "opened" /\ fetch'[f].result = fetch[f].result /\ fetch'[f].c = serving
    BY <2>1, <2>2 DEF HandlersOK, Fetch
  <2> QED
    BY <1>1, <2>1, <2>2, <2>3
<1> QED
  BY <1>2, <1>3

LEMMA AskEffect ==
  ASSUME HandlersOK, NEW f \in Fetches, Ask(f)
  PROVE  /\ fetch[f].pc = "opened"
         /\ fetch' \in [Fetches -> Fetch] /\ \A g \in Fetches \ {f} : fetch'[g] = fetch[g]
         /\ fetch'[f].pc \in {"streaming", "ending"} /\ fetch'[f].c = fetch[f].c
         /\ fetch'[f].result \in {fetch[f].result, "refused"}
         /\ \/ asked' = asked
            \/ asked' = asked + 1 /\ Live(fetch[f].c) /\ asked < FetchCap
         /\ stranded' \in {stranded, stranded \cup {f}}
         /\ UNCHANGED <<body, slot, chan, stream, serving, serves, sent, shared, holed>>
<1> PICK ok \in BOOLEAN :
      /\ Live(fetch[f].c) => ok = (asked < FetchCap)
      /\ asked' = IF Live(fetch[f].c) /\ ok THEN asked + 1 ELSE asked
      /\ stranded' = IF ok /\ ~Live(fetch[f].c) THEN stranded \cup {f} ELSE stranded
      /\ fetch' = [fetch EXCEPT ![f].pc = IF ok THEN "streaming" ELSE "ending",
                                ![f].result = IF ok THEN @ ELSE "refused"]
  BY DEF Ask
<1>1. /\ fetch[f].pc = "opened"
      /\ UNCHANGED <<body, slot, chan, stream, serving, serves, sent, shared, holed>>
  BY DEF Ask, channel, streams
<1>2. CASE ok
  <2>1. fetch' = [fetch EXCEPT ![f] = [fetch[f] EXCEPT !.pc = "streaming"]]
    <3>1. fetch' = [fetch EXCEPT ![f].pc = "streaming", ![f].result = @]
      BY <1>2
    <3> QED
      BY <3>1 DEF HandlersOK, Fetch
  <2>2. /\ fetch' \in [Fetches -> Fetch] /\ \A g \in Fetches \ {f} : fetch'[g] = fetch[g]
        /\ fetch'[f].pc = "streaming" /\ fetch'[f].c = fetch[f].c
        /\ fetch'[f].result = fetch[f].result
    <3> DEFINE e == [fetch[f] EXCEPT !.pc = "streaming"]
    <3>1. e \in Fetch /\ e.pc = "streaming" /\ e.c = fetch[f].c /\ e.result = fetch[f].result
      BY DEF HandlersOK, Fetch
    <3>2. fetch' = [fetch EXCEPT ![f] = e]
      BY <2>1
    <3> HIDE DEF e
    <3> QED
      BY <3>1, <3>2 DEF HandlersOK
  <2> QED
    BY <1>1, <1>2, <2>2
<1>3. CASE ~ok
  <2>1. fetch' = [fetch EXCEPT ![f].pc = "ending", ![f].result = "refused"]
    BY <1>3
  <2>2. /\ fetch' \in [Fetches -> Fetch] /\ \A g \in Fetches \ {f} : fetch'[g] = fetch[g]
        /\ fetch'[f].pc = "ending" /\ fetch'[f].c = fetch[f].c /\ fetch'[f].result = "refused"
    <3> DEFINE e == [fetch[f] EXCEPT !.pc = "ending", !.result = "refused"]
    <3>1. e \in Fetch /\ e.pc = "ending" /\ e.c = fetch[f].c /\ e.result = "refused"
      BY DEF HandlersOK, Fetch, Outcomes
    <3>2. fetch' = [fetch EXCEPT ![f] = e]
      BY <2>1 DEF HandlersOK
    <3> HIDE DEF e
    <3> QED
      BY <3>1, <3>2 DEF HandlersOK
  <2> QED
    BY <1>1, <1>3, <2>2
<1> QED
  BY <1>2, <1>3

LEMMA PollEffect ==
  ASSUME HandlersOK, ChannelOK, NEW f \in Fetches, Poll(f)
  PROVE  /\ fetch[f].pc = "streaming" /\ chan[f] # <<>>
         /\ chan' = [chan EXCEPT ![f] = Tail(chan[f])]
         /\ UNCHANGED <<slot, stream, serving, asked, serves, sent, shared, stranded, holed>>
         /\ fetch' \in [Fetches -> Fetch] /\ \A g \in Fetches \ {f} : fetch'[g] = fetch[g]
         /\ fetch'[f].c = fetch[f].c
         /\ \/ /\ fetch'[f].pc = "ending" /\ UNCHANGED body
               /\ fetch'[f].result = "whole" =>
                    Head(chan[f]) = Eof /\ (f \in Plain => Len(body[f]) = FileChunks)
            \/ /\ UNCHANGED fetch /\ Head(chan[f]) \in 1 .. FileChunks
               /\ body' = [body EXCEPT ![f] = Append(body[f], Head(chan[f]))]
<1>1. /\ fetch[f].pc = "streaming" /\ chan[f] # <<>>
      /\ chan' = [chan EXCEPT ![f] = Tail(chan[f])]
      /\ UNCHANGED <<slot, stream, serving, asked, serves, sent, shared, stranded, holed>>
  BY DEF Poll, streams, replies, recordingsHist
<1>2. CASE Head(chan[f]) = Eof
  <2>1. Ended(f) \in Outcomes /\ (Ended(f) = "whole" /\ f \in Plain => Len(body[f]) = FileChunks)
    BY DEF Ended, Outcomes
  <2>2. End(f, Ended(f)) /\ UNCHANGED body
    BY <1>2, Bounds DEF Poll
  <2> QED
    BY <1>1, <1>2, <2>1, <2>2, EndEffect
<1>3. CASE Head(chan[f]) = Error
  <2>1. End(f, "broken") /\ UNCHANGED body /\ "broken" \in Outcomes
    BY <1>3, Bounds DEF Poll, Outcomes
  <2> QED
    BY <1>1, <2>1, EndEffect
<1>4. CASE Head(chan[f]) # Eof /\ Head(chan[f]) # Error
  <2>1. UNCHANGED fetch /\ body' = [body EXCEPT ![f] = Append(body[f], Head(chan[f]))]
    BY <1>4 DEF Poll
  <2>2. chan[f] \in Seq(Replies)
    BY DEF ChannelOK
  <2>3. Head(chan[f]) \in Replies
    BY <1>1, <2>2
  <2>4. Head(chan[f]) \in 1 .. FileChunks
    BY <1>4, <2>3, Bounds DEF Replies
  <2> QED
    BY <1>1, <2>1, <2>4 DEF HandlersOK
<1> QED
  BY <1>2, <1>3, <1>4

LEMMA DropEffect ==
  ASSUME HandlersOK, NEW f \in Fetches, DropGuard(f)
  PROVE  /\ fetch[f].pc = "ending"
         /\ fetch' \in [Fetches -> Fetch] /\ \A g \in Fetches \ {f} : fetch'[g] = fetch[g]
         /\ fetch'[f].pc = "over" /\ fetch'[f].c = fetch[f].c /\ fetch'[f].result = fetch[f].result
         /\ slot' = NoFetch /\ chan' = [chan EXCEPT ![f] = <<>>]
         /\ UNCHANGED <<body, stream, serving, asked, serves, sent, shared, stranded, holed>>
<1>1. /\ fetch[f].pc = "ending" /\ fetch' = [fetch EXCEPT ![f].pc = "over"]
      /\ slot' = NoFetch /\ chan' = [chan EXCEPT ![f] = <<>>]
      /\ UNCHANGED <<body, stream, serving, asked, serves, sent, shared, stranded, holed>>
  BY DEF DropGuard, streams, replies, recordingsHist
<1> QED
  BY <1>1 DEF HandlersOK, Fetch

\* A task sends its next reply, and goes on or is through.
LEMMA ServeEffect ==
  ASSUME AskedOK, SentOK, StreamsOK, stream.up, NEW i \in DOMAIN serves,
         SendChunk(i) \/ SendEof(i) \/ SendError(i)
  PROVE  /\ UNCHANGED <<fetch, body, slot, chan, stream, serving, asked, shared, stranded, holed>>
         /\ stream.n \in Streams
         /\ \E x \in Replies :
              /\ sent' = [sent EXCEPT ![stream.n] = Append(sent[stream.n], x)]
              /\ \/ x = serves[i] /\ x < Eof /\ serves' = [serves EXCEPT ![i] = x + 1]
                 \/ x \in {serves[i], Error} /\ serves' = RemoveAt(serves, i)
<1>1. serves[i] \in 1 .. Eof
  <2>1. serves \in Seq(1 .. Eof)
    BY DEF AskedOK
  <2> QED
    BY <2>1, ElementFacts
<1>2. serves[i] \in Replies /\ Error \in Replies /\ Eof \in Replies
  BY <1>1, Bounds DEF Replies
<1>3. stream.n \in Streams
  BY DEF StreamsOK
<1>4. CASE SendChunk(i)
  BY <1>2, <1>3, <1>4 DEF SendChunk, Send, handlers, channel, streams, recordingsHist
<1>5. CASE SendEof(i)
  BY <1>2, <1>3, <1>5 DEF SendEof, Send, handlers, channel, streams, recordingsHist
<1>6. CASE SendError(i)
  BY <1>2, <1>3, <1>6 DEF SendError, FinalFrame, Send, handlers, channel, streams, recordingsHist
<1> QED
  BY <1>4, <1>5, <1>6

LEMMA DeliverEffect ==
  ASSUME NEW c \in Streams, Deliver(c)
  PROVE  /\ UNCHANGED <<fetch, body, slot, stream, serving, asked, serves, shared>>
         /\ sent[c] # <<>> /\ sent' = [sent EXCEPT ![c] = Tail(sent[c])]
         /\ \/ UNCHANGED chan /\ slot = NoFetch /\ UNCHANGED holed
            \/ UNCHANGED chan /\ slot # NoFetch /\ holed' = holed \cup {slot}
            \/ /\ slot # NoFetch /\ HasRoom(slot) /\ UNCHANGED holed
               /\ chan' = [chan EXCEPT ![slot] = Append(chan[slot], Head(sent[c]))]
         /\ \/ UNCHANGED stranded
            \/ slot # NoFetch /\ stranded' = stranded \cup {slot}
BY DEF Deliver, handlers, streams

LEMMA DownEffect ==
  ASSUME StreamsOK, SentOK, StreamDown
  PROVE  /\ stream.up /\ stream' = [stream EXCEPT !.up = FALSE] /\ stream.n \in Streams
         /\ \E n \in 0 .. Len(sent[stream.n]) :
              sent' = [sent EXCEPT ![stream.n] = SubSeq(sent[stream.n], 1, n)]
         /\ asked' = 0 /\ serves' = <<>> /\ stranded' = stranded \cup Waiting
         /\ UNCHANGED <<fetch, body, slot, chan, serving, shared, holed>>
BY DEF StreamDown, StreamsOK, handlers, channel

LEMMA ReplaceFacts ==
  ASSUME NEW S, NEW q \in Seq(S), NEW i \in DOMAIN q, NEW y \in S
  PROVE  [q EXCEPT ![i] = y] \in Seq(S)
OBVIOUS

LEMMA JoinFacts ==
  ASSUME NEW S, NEW p \in Seq(S), NEW q \in Seq(S)
  PROVE  p \o q \in Seq(S) /\ Len(p \o q) = Len(p) + Len(q)
OBVIOUS

LEMMA RemoveFacts ==
  ASSUME NEW S, NEW q \in Seq(S), NEW i \in DOMAIN q
  PROVE  RemoveAt(q, i) \in Seq(S) /\ Len(RemoveAt(q, i)) = Len(q) - 1
<1>1. i \in 1 .. Len(q) /\ Len(q) \in Nat
  OBVIOUS
<1>2. SubSeq(q, 1, i - 1) \in Seq(S) /\ Len(SubSeq(q, 1, i - 1)) = i - 1
  BY <1>1
<1>3. SubSeq(q, i + 1, Len(q)) \in Seq(S) /\ Len(SubSeq(q, i + 1, Len(q))) = Len(q) - i
  BY <1>1
<1> DEFINE before == SubSeq(q, 1, i - 1)
           after  == SubSeq(q, i + 1, Len(q))
<1>4. RemoveAt(q, i) = before \o after
  BY DEF RemoveAt
<1>5. before \in Seq(S) /\ Len(before) = i - 1 /\ after \in Seq(S) /\ Len(after) = Len(q) - i
  BY <1>2, <1>3
<1> HIDE DEF before, after
<1>6. before \o after \in Seq(S) /\ Len(before \o after) = Len(before) + Len(after)
  BY <1>5, JoinFacts
<1> QED
  BY <1>1, <1>4, <1>5, <1>6

LEMMA InitRecordingsTypes == RecordingsInit => RecordingsTypes
<1> SUFFICES ASSUME RecordingsInit PROVE RecordingsTypes
  OBVIOUS
<1>1. 0 \in 0 .. MaxStreams /\ 0 \in 0 .. FetchCap /\ 0 <= ChanCap
  BY Bounds
<1>2. HandlersOK
  <2> DEFINE e == [pc |-> "new", c |-> 0, result |-> "none"]
  <2>1. e \in Fetch
    BY <1>1 DEF Fetch, Outcomes
  <2>2. fetch = [f \in Fetches |-> e] /\ body = [f \in Fetches |-> <<>>]
    BY DEF RecordingsInit
  <2> HIDE DEF e
  <2> QED
    BY <2>1, <2>2 DEF HandlersOK
<1>3. ChannelOK /\ StreamsOK
  BY <1>1 DEF RecordingsInit, ChannelOK, StreamsOK
<1>4. AskedOK /\ SentOK /\ HistoryOK
  BY <1>1 DEF RecordingsInit, AskedOK, SentOK, HistoryOK
<1> QED
  BY <1>2, <1>3, <1>4 DEF RecordingsTypes

LEMMA RestingRecordings ==
  /\ HandlersOK /\ UNCHANGED <<fetch, body>> => HandlersOK'
  /\ ChannelOK /\ UNCHANGED <<slot, chan>> => ChannelOK'
  /\ StreamsOK /\ UNCHANGED <<stream, serving>> => StreamsOK'
  /\ AskedOK /\ UNCHANGED <<asked, serves>> => AskedOK'
  /\ SentOK /\ UNCHANGED sent => SentOK'
  /\ HistoryOK /\ UNCHANGED <<shared, stranded, holed>> => HistoryOK'
BY DEF HandlersOK, ChannelOK, StreamsOK, AskedOK, SentOK, HistoryOK

LEMMA FetchTypes ==
  ASSUME RecordingsTypes, NEW f \in Fetches,
         Open(f) \/ Ask(f) \/ Poll(f) \/ PollClosed(f) \/ Hangup(f) \/ DropGuard(f)
  PROVE  RecordingsTypes'
<1> USE DEF RecordingsTypes
<1>1. CASE Open(f)
  BY <1>1, OpenEffect, RestingRecordings DEF HandlersOK, ChannelOK, HistoryOK
<1>2. CASE Ask(f)
  <2>1. HandlersOK' /\ HistoryOK'
    BY <1>2, AskEffect DEF HandlersOK, HistoryOK
  <2>2. AskedOK'
    BY <1>2, AskEffect, Bounds DEF AskedOK
  <2> QED
    BY <1>2, <2>1, <2>2, AskEffect, RestingRecordings
<1>3. CASE Poll(f)
  <2>1. chan[f] \in Seq(Replies) /\ chan[f] # <<>> /\ Len(chan[f]) <= ChanCap
    BY <1>3, PollEffect DEF ChannelOK
  <2>2. Tail(chan[f]) \in Seq(Replies) /\ Len(Tail(chan[f])) <= ChanCap
    <3>1. Len(Tail(chan[f])) = Len(chan[f]) - 1 /\ Len(chan[f]) \in Nat
      BY <2>1
    <3> QED
      BY <2>1, <3>1, Bounds
  <2>3. ChannelOK'
    BY <1>3, <2>2, PollEffect DEF ChannelOK
  <2>4. HandlersOK'
    <3>1. body[f] \in Seq(1 .. FileChunks)
      BY DEF HandlersOK
    <3>2. Head(chan[f]) \in 1 .. FileChunks =>
            Append(body[f], Head(chan[f])) \in Seq(1 .. FileChunks)
      BY <3>1
    <3> QED
      BY <1>3, <3>2, PollEffect DEF HandlersOK
  <2> QED
    BY <1>3, <2>3, <2>4, PollEffect, RestingRecordings
<1>4. CASE PollClosed(f) \/ Hangup(f)
  <2>1. /\ End(f, "broken") \/ End(f, "gone")
        /\ UNCHANGED <<body, slot, chan, stream, serving, asked, serves, sent, shared, stranded, holed>>
    BY <1>4 DEF PollClosed, Hangup, channel, streams, replies, recordingsHist
  <2>2. "broken" \in Outcomes /\ "gone" \in Outcomes
    BY DEF Outcomes
  <2>3. HandlersOK'
    BY <2>1, <2>2, EndEffect DEF HandlersOK
  <2> QED
    BY <2>1, <2>3, RestingRecordings
<1>5. CASE DropGuard(f)
  <2>1. HandlersOK'
    BY <1>5, DropEffect DEF HandlersOK
  <2>2. <<>> \in Seq(Replies) /\ Len(<<>>) <= ChanCap
    BY Bounds
  <2>3. ChannelOK'
    BY <1>5, <2>2, DropEffect DEF ChannelOK
  <2> QED
    BY <1>5, <2>1, <2>3, DropEffect, RestingRecordings
<1> QED
  BY <1>1, <1>2, <1>3, <1>4, <1>5

LEMMA StreamTypes ==
  ASSUME RecordingsTypes,
         Serve \/ ServeStep \/ (\E c \in Streams : Deliver(c)) \/ LoopEnds \/ StreamUp \/ StreamDown
  PROVE  RecordingsTypes'
<1> USE DEF RecordingsTypes
<1>1. CASE Serve
  <2>1. /\ asked > 0 /\ asked' = asked - 1 /\ serves' = Append(serves, 1)
        /\ UNCHANGED <<fetch, body, slot, chan, stream, serving, sent, shared, stranded, holed>>
    BY <1>1 DEF Serve, handlers, channel, streams, recordingsHist
  <2>2. AskedOK'
    BY <2>1, Bounds DEF AskedOK
  <2> QED
    BY <2>1, <2>2, RestingRecordings
<1>2. CASE ServeStep
  <2> PICK i \in DOMAIN serves : SendChunk(i) \/ SendEof(i) \/ SendError(i)
    BY <1>2 DEF ServeStep
  <2>1. stream.up
    BY <1>2 DEF ServeStep
  <2> PICK x \in Replies :
        /\ sent' = [sent EXCEPT ![stream.n] = Append(sent[stream.n], x)]
        /\ \/ x = serves[i] /\ x < Eof /\ serves' = [serves EXCEPT ![i] = x + 1]
           \/ x \in {serves[i], Error} /\ serves' = RemoveAt(serves, i)
    BY <2>1, ServeEffect
  <2>2. /\ UNCHANGED <<fetch, body, slot, chan, stream, serving, asked, shared, stranded, holed>>
        /\ stream.n \in Streams
    BY <2>1, ServeEffect
  <2>3. SentOK'
    <3>1. sent[stream.n] \in Seq(Replies)
      BY <2>2 DEF SentOK
    <3>2. Append(sent[stream.n], x) \in Seq(Replies)
      BY <3>1
    <3> QED
      BY <3>2 DEF SentOK
  <2>4. serves' \in Seq(1 .. Eof)
    <3>1. serves \in Seq(1 .. Eof) /\ serves[i] \in 1 .. Eof
      BY ElementFacts DEF AskedOK
    <3>2. CASE x = serves[i] /\ x < Eof /\ serves' = [serves EXCEPT ![i] = x + 1]
      <4>1. x + 1 \in 1 .. Eof
        BY <3>1, <3>2, Bounds
      <4> QED
        BY <3>1, <3>2, <4>1, ReplaceFacts
    <3>3. CASE serves' = RemoveAt(serves, i)
      BY <3>1, <3>3, RemoveFacts
    <3> QED
      BY <3>2, <3>3
  <2> QED
    BY <2>2, <2>3, <2>4, RestingRecordings DEF AskedOK
<1>3. ASSUME NEW c \in Streams, Deliver(c) PROVE RecordingsTypes'
  <2>1. sent[c] \in Seq(Replies) /\ sent[c] # <<>>
    BY <1>3, DeliverEffect DEF SentOK
  <2>2. Tail(sent[c]) \in Seq(Replies) /\ Head(sent[c]) \in Replies
    BY <2>1, TailFacts
  <2>3. SentOK'
    BY <1>3, <2>2, DeliverEffect DEF SentOK
  <2>4. ChannelOK'
    <3>1. CASE UNCHANGED chan
      BY <1>3, <3>1, DeliverEffect DEF ChannelOK
    <3>2. CASE /\ slot # NoFetch /\ HasRoom(slot)
               /\ chan' = [chan EXCEPT ![slot] = Append(chan[slot], Head(sent[c]))]
      <4>1. slot \in Fetches /\ chan[slot] \in Seq(Replies) /\ Len(chan[slot]) < ChanCap
        BY <3>2 DEF ChannelOK, HasRoom
      <4>2. /\ Append(chan[slot], Head(sent[c])) \in Seq(Replies)
            /\ Len(Append(chan[slot], Head(sent[c]))) = Len(chan[slot]) + 1
            /\ Len(chan[slot]) \in Nat
        BY <2>2, <4>1
      <4>3. Len(chan[slot]) + 1 <= ChanCap
        BY <4>1, <4>2, Bounds
      <4>4. UNCHANGED slot
        BY <1>3, DeliverEffect
      <4> QED
        BY <3>2, <4>1, <4>2, <4>3, <4>4 DEF ChannelOK
    <3> QED
      BY <1>3, <3>1, <3>2, DeliverEffect
  <2>5. HistoryOK'
    <3>1. /\ UNCHANGED shared
          /\ stranded' = stranded \/ (slot # NoFetch /\ stranded' = stranded \cup {slot})
          /\ holed' = holed \/ (slot # NoFetch /\ holed' = holed \cup {slot})
      BY <1>3, DeliverEffect
    <3> QED
      BY <3>1 DEF HistoryOK, ChannelOK
  <2> QED
    BY <1>3, <2>3, <2>4, <2>5, DeliverEffect, RestingRecordings
<1>4. CASE LoopEnds
  <2>1. serving' = 0 /\ UNCHANGED <<fetch, body, slot, chan, stream, asked, serves, sent, shared, stranded, holed>>
    BY <1>4 DEF LoopEnds, handlers, channel, replies, recordingsHist
  <2>2. StreamsOK'
    BY <2>1, Bounds DEF StreamsOK
  <2> QED
    BY <2>1, <2>2, RestingRecordings
<1>5. CASE StreamUp
  <2>1. /\ stream.n < MaxStreams /\ stream' = [n |-> stream.n + 1, up |-> TRUE]
        /\ serving' = stream.n + 1
        /\ UNCHANGED <<fetch, body, slot, chan, asked, serves, sent, shared, stranded, holed>>
    BY <1>5 DEF StreamUp, handlers, channel, replies, recordingsHist
  <2>2. StreamsOK'
    BY <2>1, Bounds DEF StreamsOK, Streams
  <2> QED
    BY <2>1, <2>2, RestingRecordings
<1>6. CASE StreamDown
  <2>1. StreamsOK'
    BY <1>6, DownEffect DEF StreamsOK
  <2>2. AskedOK' /\ HistoryOK'
    BY <1>6, DownEffect, Bounds DEF AskedOK, HistoryOK, Waiting
  <2>3. SentOK'
    <3> PICK n \in 0 .. Len(sent[stream.n]) :
               sent' = [sent EXCEPT ![stream.n] = SubSeq(sent[stream.n], 1, n)]
      BY <1>6, DownEffect
    <3>1. sent[stream.n] \in Seq(Replies)
      BY <1>6, DownEffect DEF SentOK
    <3>2. SubSeq(sent[stream.n], 1, n) \in Seq(Replies)
      BY <3>1, PrefixFacts
    <3> QED
      BY <3>2 DEF SentOK
  <2> QED
    BY <1>6, <2>1, <2>2, <2>3, DownEffect, RestingRecordings
<1> QED
  BY <1>1, <1>2, <1>3, <1>4, <1>5, <1>6

LEMMA NextRecordingsTypes ==
  RecordingsTypes /\ [RecordingsNext]_recordingsVars => RecordingsTypes'
<1> SUFFICES ASSUME RecordingsTypes, [RecordingsNext]_recordingsVars PROVE RecordingsTypes'
  OBVIOUS
<1>1. CASE UNCHANGED recordingsVars
  <2>1. /\ UNCHANGED <<fetch, body, slot, chan, stream, serving, asked, serves, sent>>
        /\ UNCHANGED <<shared, stranded, holed>>
    BY <1>1 DEF recordingsVars, handlers, channel, streams, replies, recordingsHist
  <2> QED
    BY <2>1, RestingRecordings DEF RecordingsTypes
<1> QED
  BY <1>1, FetchTypes, StreamTypes DEF RecordingsNext

\* The type invariant of Recordings: no channel holds more than it can, whatever
\* overlaps.
THEOREM RecordingsTypeCorrect == RecordingsSpec => []RecordingsTypeOK
<1>1. RecordingsTypes => RecordingsTypeOK
  BY DEF RecordingsTypes, HandlersOK, ChannelOK, StreamsOK, AskedOK, SentOK, HistoryOK,
         RecordingsTypeOK
<1> QED
  BY <1>1, InitRecordingsTypes, NextRecordingsTypes, PTL DEF RecordingsSpec

----------------------------------------------------------------------------
(* A download nobody else's frames are mixed into.                          *)

Nothing(f) == body[f] = <<>> /\ chan[f] = <<>>
Idle(c)    == asked = 0 /\ serves = <<>> /\ sent[c] = <<>>

\* What an unshared download has received: chunks of the file in their order,
\* some left out, and what comes next in the channel.
ReceivedBy(f) ==
  /\ Steady(body[f]) /\ Rising(chan[f]) /\ Leads(body[f], chan[f])
  /\ fetch[f].pc = "new" => Nothing(f)
  /\ fetch[f].result = "whole" =>
       fetch[f].pc \in {"ending", "over"} /\ (f \in Plain => Len(body[f]) = FileChunks)

Received == \A f \in Fetches \ shared : ReceivedBy(f)

Holder == slot # NoFetch => fetch[slot].pc \in {"opened", "streaming", "ending"}

\* While an unshared download holds the slot, all there is on the way from the
\* agent, on the one stream c, is its own: a request, or a task, or what the task
\* has sent, all of it later than what the panel has.
AloneOn(f, c) ==
  /\ c \in Streams
  /\ \A g \in Fetches \ {f} : fetch[g].pc \in {"new", "over"}
  /\ \A d \in Streams \ {c} : sent[d] = <<>>
  /\ Rising(sent[c]) /\ Leads(body[f], sent[c]) /\ Leads(chan[f], sent[c])
  /\ fetch[f].pc = "opened" => Nothing(f) /\ Idle(c)
  /\ asked > 0 => Live(c) /\ asked = 1 /\ serves = <<>> /\ sent[c] = <<>> /\ Nothing(f)
  /\ serves # <<>> =>
       /\ Live(c) /\ asked = 0 /\ Len(serves) = 1
       /\ Leads(body[f], serves) /\ Leads(chan[f], serves) /\ Leads(sent[c], serves)

Alone == \A f \in Fetches \ shared, c \in 0 .. MaxStreams :
           slot = f /\ fetch[f].c = c => AloneOn(f, c)

Pure == Received /\ Holder /\ Alone

LEMMA BodyReplies ==
  ASSUME NEW q \in Seq(1 .. FileChunks)
  PROVE  q \in Seq(Replies)
<1>1. 1 .. FileChunks \subseteq Replies
  BY Bounds DEF Replies
<1> QED
  BY <1>1, WiderFacts

LEMMA SequencesOK ==
  ASSUME RecordingsTypes, NEW f \in Fetches
  PROVE  /\ body[f] \in Seq(1 .. FileChunks) /\ body[f] \in Seq(Replies) /\ chan[f] \in Seq(Replies)
         /\ \A c \in Streams : sent[c] \in Seq(Replies)
         /\ serves \in Seq(1 .. Eof) /\ asked \in Nat
         /\ fetch[f].c \in 0 .. MaxStreams
BY BodyReplies, Bounds
   DEF RecordingsTypes, HandlersOK, ChannelOK, SentOK, AskedOK, Fetch

LEMMA InitPure == RecordingsInit => Pure
<1> SUFFICES ASSUME RecordingsInit PROVE Pure
  OBVIOUS
<1>1. \A f \in Fetches : Nothing(f) /\ fetch[f].pc = "new" /\ fetch[f].result = "none"
  BY DEF RecordingsInit, Nothing
<1>2. Received
  BY <1>1, EmptyOrders DEF Received, ReceivedBy, Nothing
<1>3. Holder /\ Alone
  BY Bounds DEF RecordingsInit, Holder, Alone
<1> QED
  BY <1>2, <1>3 DEF Pure

\* A handler's step keeps what the others have received.
LEMMA OthersReceived ==
  ASSUME Received, NEW f \in Fetches, shared \subseteq shared',
         \A g \in Fetches \ {f} :
           fetch'[g] = fetch[g] /\ body'[g] = body[g] /\ chan'[g] = chan[g],
         f \notin shared /\ ReceivedBy(f) => ReceivedBy(f)'
  PROVE  Received'
<1> SUFFICES ASSUME NEW g \in Fetches \ shared' PROVE ReceivedBy(g)'
  BY DEF Received
<1>1. g \notin shared /\ ReceivedBy(g)
  BY DEF Received
<1>2. CASE g = f
  BY <1>1, <1>2
<1>3. CASE g # f
  BY <1>1, <1>3 DEF ReceivedBy, Nothing
<1> QED
  BY <1>2, <1>3

LEMMA PollReceived ==
  ASSUME RecordingsTypes, NEW f \in Fetches, Poll(f), ReceivedBy(f)
  PROVE  ReceivedBy(f)'
<1> DEFINE x == Head(chan[f])
<1>0. /\ HandlersOK /\ ChannelOK /\ body \in [Fetches -> Seq(1 .. FileChunks)]
      /\ chan \in [Fetches -> Seq(Replies)]
  BY DEF RecordingsTypes, HandlersOK, ChannelOK
<1>1. /\ fetch[f].pc = "streaming" /\ chan[f] # <<>> /\ chan'[f] = Tail(chan[f])
      /\ \/ /\ fetch'[f].pc = "ending" /\ UNCHANGED body
            /\ fetch'[f].result = "whole" /\ f \in Plain => Len(body[f]) = FileChunks
         \/ /\ UNCHANGED fetch /\ x \in 1 .. FileChunks /\ body'[f] = Append(body[f], x)
  BY <1>0, PollEffect
<1>2. body[f] \in Seq(1 .. FileChunks) /\ body[f] \in Seq(Replies) /\ chan[f] \in Seq(Replies)
  BY SequencesOK
<1>3. /\ Rising(Tail(chan[f])) /\ Leads(body[f], Tail(chan[f]))
      /\ \A j \in DOMAIN Tail(chan[f]) : Before(x, Tail(chan[f])[j])
      /\ \A i \in DOMAIN body[f] : Before(body[f][i], x)
  BY <1>1, <1>2, TailOrders DEF ReceivedBy
<1> HIDE DEF x
<1>4. CASE /\ fetch'[f].pc = "ending" /\ UNCHANGED body
           /\ fetch'[f].result = "whole" /\ f \in Plain => Len(body[f]) = FileChunks
  BY <1>1, <1>3, <1>4 DEF ReceivedBy
<1>5. CASE UNCHANGED fetch /\ x \in 1 .. FileChunks /\ body'[f] = Append(body[f], x)
  <2>1. \A i \in DOMAIN body[f] : body[f][i] < x
    BY <1>3, <1>5, Bounds DEF Before
  <2>2. Steady(body'[f])
    BY <1>2, <1>5, <2>1, SteadyAppend DEF ReceivedBy
  <2>3. x \in Replies
    BY <1>5, Bounds DEF Replies
  <2>4. Leads(Append(body[f], x), Tail(chan[f]))
    BY <1>2, <1>3, <2>3, AppendOrders
  <2> QED
    BY <1>1, <1>3, <1>5, <2>2, <2>4 DEF ReceivedBy
<1> QED
  BY <1>1, <1>4, <1>5

LEMMA FetchReceived ==
  ASSUME RecordingsTypes, Received, NEW f \in Fetches,
         Open(f) \/ Ask(f) \/ Poll(f) \/ PollClosed(f) \/ Hangup(f) \/ DropGuard(f)
  PROVE  Received'
<1>0. /\ HandlersOK /\ ChannelOK /\ StreamsOK /\ body \in [Fetches -> Seq(1 .. FileChunks)]
      /\ chan \in [Fetches -> Seq(Replies)]
  BY DEF RecordingsTypes, HandlersOK, ChannelOK
<1>1. CASE Open(f)
  <2>1. /\ \A g \in Fetches \ {f} : fetch'[g] = fetch[g] /\ body'[g] = body[g] /\ chan'[g] = chan[g]
        /\ shared \subseteq shared' /\ UNCHANGED <<body, chan>>
        /\ fetch[f].pc = "new" /\ fetch'[f].pc \in {"over", "opened"}
        /\ fetch'[f].result \in {fetch[f].result, "refused"}
    BY <1>0, <1>1, OpenEffect
  <2>2. ReceivedBy(f) => ReceivedBy(f)'
    BY <2>1 DEF ReceivedBy
  <2> QED
    BY <2>1, <2>2, OthersReceived
<1>2. CASE Ask(f)
  <2>1. /\ \A g \in Fetches \ {f} : fetch'[g] = fetch[g] /\ body'[g] = body[g] /\ chan'[g] = chan[g]
        /\ shared \subseteq shared' /\ UNCHANGED <<body, chan>>
        /\ fetch[f].pc = "opened" /\ fetch'[f].pc \in {"streaming", "ending"}
        /\ fetch'[f].result \in {fetch[f].result, "refused"}
    BY <1>0, <1>2, AskEffect
  <2>2. ReceivedBy(f) => ReceivedBy(f)'
    BY <2>1 DEF ReceivedBy
  <2> QED
    BY <2>1, <2>2, OthersReceived
<1>3. CASE Poll(f)
  <2>1. /\ \A g \in Fetches \ {f} : fetch'[g] = fetch[g] /\ body'[g] = body[g] /\ chan'[g] = chan[g]
        /\ shared \subseteq shared'
    BY <1>0, <1>3, PollEffect
  <2> QED
    BY <1>3, <2>1, PollReceived, OthersReceived
<1>4. CASE PollClosed(f) \/ Hangup(f)
  <2>1. /\ (End(f, "broken") \/ End(f, "gone")) /\ UNCHANGED <<body, chan, shared>>
        /\ "broken" \in Outcomes /\ "gone" \in Outcomes
    BY <1>4 DEF PollClosed, Hangup, channel, recordingsHist, Outcomes
  <2>2. /\ \A g \in Fetches \ {f} : fetch'[g] = fetch[g] /\ body'[g] = body[g] /\ chan'[g] = chan[g]
        /\ shared \subseteq shared' /\ UNCHANGED <<body, chan>>
        /\ fetch'[f].pc = "ending" /\ fetch'[f].result \in {"broken", "gone"}
    BY <1>0, <2>1, EndEffect, <1>4 DEF PollClosed, Hangup, channel, recordingsHist
  <2>3. ReceivedBy(f) => ReceivedBy(f)'
    BY <2>2 DEF ReceivedBy
  <2> QED
    BY <2>2, <2>3, OthersReceived
<1>5. CASE DropGuard(f)
  <2>1. /\ \A g \in Fetches \ {f} : fetch'[g] = fetch[g] /\ body'[g] = body[g] /\ chan'[g] = chan[g]
        /\ shared \subseteq shared' /\ UNCHANGED body /\ chan'[f] = <<>>
        /\ fetch[f].pc = "ending" /\ fetch'[f].pc = "over" /\ fetch'[f].result = fetch[f].result
    BY <1>0, <1>5, DropEffect
  <2>2. ReceivedBy(f) => ReceivedBy(f)'
    BY <2>1, EmptyOrders DEF ReceivedBy
  <2> QED
    BY <2>1, <2>2, OthersReceived
<1> QED
  BY <1>1, <1>2, <1>3, <1>4, <1>5

LEMMA StreamReceived ==
  ASSUME RecordingsTypes, Pure,
         Serve \/ ServeStep \/ (\E c \in Streams : Deliver(c)) \/ LoopEnds \/ StreamUp \/ StreamDown
  PROVE  Received'
<1>0. /\ AskedOK /\ SentOK /\ StreamsOK /\ slot \in Fetches \cup {NoFetch}
      /\ chan \in [Fetches -> Seq(Replies)] /\ Received /\ Holder /\ Alone
  BY DEF RecordingsTypes, ChannelOK, Pure
<1>1. CASE UNCHANGED <<fetch, body, chan, shared>>
  BY <1>0, <1>1 DEF Received, ReceivedBy, Nothing
<1>2. ASSUME NEW d \in Streams, Deliver(d) PROVE Received'
  <2>1. /\ UNCHANGED <<fetch, body, slot, shared>> /\ sent[d] # <<>>
        /\ \/ UNCHANGED chan
           \/ /\ slot # NoFetch
              /\ chan' = [chan EXCEPT ![slot] = Append(chan[slot], Head(sent[d]))]
    BY <1>2, DeliverEffect
  <2>2. CASE UNCHANGED chan
    BY <1>1, <2>1, <2>2
  <2>3. CASE /\ slot # NoFetch
             /\ chan' = [chan EXCEPT ![slot] = Append(chan[slot], Head(sent[d]))]
    <3> PICK f \in Fetches : f = slot
      BY <1>0, <2>3
    <3>1. ASSUME f \notin shared, ReceivedBy(f) PROVE ReceivedBy(f)'
      <4>1. PICK c \in 0 .. MaxStreams : fetch[f].c = c
        BY SequencesOK
      <4>2. AloneOn(f, c) /\ c \in Streams
        BY <1>0, <3>1, <4>1 DEF Alone, AloneOn
      <4>3. d = c
        BY <2>1, <4>2 DEF AloneOn
      <4> DEFINE x == Head(sent[c])
      <4>4. /\ sent[c] \in Seq(Replies) /\ sent[c] # <<>> /\ x \in Replies
            /\ body[f] \in Seq(Replies) /\ chan[f] \in Seq(Replies)
        BY <2>1, <4>2, <4>3, SequencesOK
      <4>5. /\ \A i \in DOMAIN body[f] : Before(body[f][i], x)
            /\ \A i \in DOMAIN chan[f] : Before(chan[f][i], x)
        BY <4>2, <4>4, TailOrders DEF AloneOn
      <4>6. chan'[f] = Append(chan[f], x)
        BY <1>0, <2>3, <4>3
      <4> HIDE DEF x
      <4>7. Rising(chan'[f]) /\ Leads(body[f], chan'[f])
        BY <3>1, <4>4, <4>5, <4>6, AppendOrders DEF ReceivedBy
      <4>8. fetch[f].pc # "new"
        BY <1>0, <2>3 DEF Holder
      <4> QED
        BY <2>1, <3>1, <4>7, <4>8 DEF ReceivedBy
    <3>2. \A g \in Fetches \ {f} : fetch'[g] = fetch[g] /\ body'[g] = body[g] /\ chan'[g] = chan[g]
      BY <1>0, <2>1, <2>3
    <3> QED
      BY <1>0, <2>1, <3>1, <3>2, OthersReceived
  <2> QED
    BY <2>1, <2>2, <2>3
<1>3. CASE ServeStep
  BY <1>0, <1>1, <1>3, ServeEffect DEF ServeStep
<1>4. CASE StreamDown
  BY <1>0, <1>1, <1>4, DownEffect
<1>5. CASE Serve \/ LoopEnds \/ StreamUp
  BY <1>1, <1>5 DEF Serve, LoopEnds, StreamUp, handlers, channel, recordingsHist
<1> QED
  BY <1>2, <1>3, <1>4, <1>5

LEMMA FetchHolder ==
  ASSUME RecordingsTypes, Holder, NEW f \in Fetches,
         Open(f) \/ Ask(f) \/ Poll(f) \/ PollClosed(f) \/ Hangup(f) \/ DropGuard(f)
  PROVE  Holder'
<1>0. HandlersOK /\ ChannelOK /\ StreamsOK /\ slot \in Fetches \cup {NoFetch}
  BY DEF RecordingsTypes, ChannelOK
<1>1. CASE Open(f)
  BY <1>0, <1>1, OpenEffect DEF Holder
<1>2. CASE Ask(f)
  BY <1>0, <1>2, AskEffect DEF Holder
<1>3. CASE Poll(f)
  BY <1>0, <1>3, PollEffect DEF Holder
<1>4. CASE PollClosed(f) \/ Hangup(f)
  <2>1. /\ (End(f, "broken") \/ End(f, "gone")) /\ UNCHANGED slot
        /\ "broken" \in Outcomes /\ "gone" \in Outcomes
    BY <1>4 DEF PollClosed, Hangup, channel, Outcomes
  <2>2. /\ \A g \in Fetches \ {f} : fetch'[g] = fetch[g]
        /\ fetch'[f].pc = "ending" /\ UNCHANGED slot
    BY <1>0, <2>1, EndEffect, <1>4 DEF PollClosed, Hangup, channel
  <2> QED
    BY <1>0, <2>2 DEF Holder
<1>5. CASE DropGuard(f)
  BY <1>0, <1>5, DropEffect DEF Holder
<1> QED
  BY <1>1, <1>2, <1>3, <1>4, <1>5

\* A download that has the slot for itself has asked for it on a stream.
LEMMA AloneIs ==
  ASSUME RecordingsTypes, Pure, NEW f \in Fetches, f \notin shared, slot = f
  PROVE  /\ AloneOn(f, fetch[f].c) /\ fetch[f].c \in Streams
         /\ fetch[f].pc \in {"opened", "streaming", "ending"} /\ ReceivedBy(f)
<1>1. fetch[f].c \in 0 .. MaxStreams /\ slot # NoFetch
  BY SequencesOK, Bounds
<1>2. AloneOn(f, fetch[f].c)
  BY <1>1 DEF Pure, Alone
<1> QED
  BY <1>1, <1>2 DEF Pure, AloneOn, Holder, Received

\* The steps of handlers.
LEMMA FetchAlone ==
  ASSUME RecordingsTypes, Pure, NEW g \in Fetches,
         Open(g) \/ Ask(g) \/ Poll(g) \/ PollClosed(g) \/ Hangup(g) \/ DropGuard(g)
  PROVE  Alone'
<1> SUFFICES ASSUME NEW f \in Fetches, f \notin shared', slot' = f,
                    NEW c \in 0 .. MaxStreams, fetch'[f].c = c
             PROVE  AloneOn(f, c)'
  BY DEF Alone
<1>0. /\ HandlersOK /\ ChannelOK /\ StreamsOK /\ f # NoFetch
      /\ body \in [Fetches -> Seq(1 .. FileChunks)] /\ chan \in [Fetches -> Seq(Replies)]
  BY Bounds DEF RecordingsTypes, HandlersOK, ChannelOK
<1>1. CASE Open(g) /\ slot' = g
  <2>1. /\ g = f /\ fetch[f].pc = "new" /\ c \in Streams /\ Quiet /\ f \notin shared
        /\ fetch'[f].pc = "opened"
        /\ \A h \in Fetches \ {f} : fetch'[h] = fetch[h]
        /\ UNCHANGED <<body, chan, asked, serves, sent>>
    <3>1. /\ \A h \in Fetches \ {g} : fetch'[h] = fetch[h]
          /\ fetch[g].pc = "new" /\ UNCHANGED <<body, chan, asked, serves, sent>>
          /\ \/ /\ fetch'[g].pc = "over" /\ UNCHANGED <<slot, shared>>
             \/ /\ fetch'[g].pc = "opened" /\ fetch'[g].c = serving /\ serving \in Streams
                /\ shared' = IF Quiet THEN shared ELSE shared \cup {g}
      BY <1>0, <1>1, OpenEffect
    <3>2. g = f
      BY <1>1
    <3>3. ~(UNCHANGED slot /\ fetch[g].pc = "new")
      BY <1>0, <3>2, slot' = f DEF Pure, Holder
    <3> QED
      BY <3>1, <3>2, <3>3
  <2>2. Nothing(f)
    BY <2>1 DEF Pure, Received, ReceivedBy
  <2>3. /\ \A h \in Fetches \ {f} : fetch[h].pc \in {"new", "over"}
        /\ asked = 0 /\ serves = <<>> /\ \A d \in Streams : sent[d] = <<>>
    BY <2>1 DEF Quiet
  <2> QED
    BY <2>1, <2>2, <2>3, EmptyOrders DEF AloneOn, Nothing, Idle
<1>2. ASSUME slot = f, f \notin shared, fetch[f].c = c, AloneOn(f, c),
             UNCHANGED <<stream, serves, sent>>,
             \A h \in Fetches \ {f} : fetch'[h].pc \in {"new", "over"},
             fetch'[f].pc # "opened",
             Leads(body'[f], sent[c]), Leads(chan'[f], sent[c]),
             asked' > 0 => Live(c) /\ asked' = 1 /\ serves = <<>> /\ sent[c] = <<>> /\ Nothing(f)',
             serves # <<>> => asked' = 0 /\ Leads(body'[f], serves) /\ Leads(chan'[f], serves)
      PROVE  AloneOn(f, c)'
  BY <1>2 DEF AloneOn, Live
<1>3. CASE slot = f /\ f \notin shared /\ UNCHANGED <<stream, serves, sent>>
           /\ fetch[f].c = c /\ fetch[g].pc \notin {"new", "over"}
  <2>1. /\ AloneOn(f, c) /\ c \in Streams /\ fetch[f].pc \in {"opened", "streaming", "ending"}
        /\ ReceivedBy(f) /\ g = f
        /\ \A h \in Fetches \ {f} : fetch[h].pc \in {"new", "over"}
    BY <1>3, AloneIs DEF AloneOn
  <2>2. CASE Ask(g)
    <3>1. /\ fetch[f].pc = "opened" /\ \A h \in Fetches \ {f} : fetch'[h] = fetch[h]
          /\ fetch'[f].pc \in {"streaming", "ending"} /\ UNCHANGED <<body, chan>>
          /\ asked' = asked \/ (asked' = asked + 1 /\ Live(fetch[f].c))
      BY <1>0, <2>1, <2>2, AskEffect
    <3>2. Nothing(f) /\ Idle(c)
      BY <2>1, <3>1 DEF AloneOn
    <3>3. asked' > 0 => Live(c) /\ asked' = 1
      BY <1>3, <3>1, <3>2 DEF Idle
    <3> QED
      BY <1>2, <1>3, <2>1, <3>1, <3>2, <3>3, EmptyOrders DEF Nothing, Idle
  <2>3. CASE Poll(g)
    <3> DEFINE x == Head(chan[f])
    <3>1. /\ fetch[f].pc = "streaming" /\ chan[f] # <<>> /\ chan'[f] = Tail(chan[f])
          /\ \A h \in Fetches \ {f} : fetch'[h] = fetch[h]
          /\ fetch'[f].pc \in {"streaming", "ending"} /\ UNCHANGED asked
          /\ \/ UNCHANGED body
             \/ x \in 1 .. FileChunks /\ body'[f] = Append(body[f], x)
      BY <1>0, <2>1, <2>3, PollEffect
    <3>2. /\ body[f] \in Seq(Replies) /\ chan[f] \in Seq(Replies) /\ asked \in Nat
      BY SequencesOK
    <3>3. asked = 0
      BY <2>1, <3>1, <3>2 DEF AloneOn, Nothing
    <3>4. /\ \A p : Leads(chan[f], p) => Leads(Tail(chan[f]), p)
          /\ \A p : Leads(chan[f], p) => \A i \in DOMAIN p : Before(x, p[i])
      BY <3>1, <3>2, TailOrders
    <3>5. x \in 1 .. FileChunks => x \in Replies
      BY Bounds DEF Replies
    <3> HIDE DEF x
    <3>6. \A p : Leads(chan[f], p) /\ Leads(body[f], p) => Leads(chan'[f], p) /\ Leads(body'[f], p)
      BY <3>1, <3>2, <3>4, <3>5, AppendOrders
    <3>7. Leads(body'[f], sent[c]) /\ Leads(chan'[f], sent[c])
      BY <2>1, <3>6 DEF AloneOn
    <3>8. serves # <<>> => Leads(body'[f], serves) /\ Leads(chan'[f], serves)
      BY <2>1, <3>6 DEF AloneOn
    <3> QED
      BY <1>2, <1>3, <2>1, <3>1, <3>3, <3>7, <3>8
  <2>4. CASE PollClosed(g) \/ Hangup(g)
    <3>1. /\ (End(f, "broken") \/ End(f, "gone")) /\ UNCHANGED <<body, chan, asked>>
          /\ "broken" \in Outcomes /\ "gone" \in Outcomes
      BY <2>1, <2>4 DEF PollClosed, Hangup, channel, replies, Outcomes
    <3>2. /\ \A h \in Fetches \ {f} : fetch'[h] = fetch[h]
          /\ fetch'[f].pc = "ending"
      BY <1>0, <3>1, EndEffect
    <3>3. UNCHANGED <<body, chan, asked>>
      BY <2>4 DEF PollClosed, Hangup, channel, replies
    <3>4. asked' > 0 => Live(c) /\ asked' = 1 /\ serves = <<>> /\ sent[c] = <<>> /\ Nothing(f)'
      BY <2>1, <3>3 DEF AloneOn, Nothing
    <3>5. serves # <<>> => asked' = 0 /\ Leads(body'[f], serves) /\ Leads(chan'[f], serves)
      BY <2>1, <3>3 DEF AloneOn
    <3>6. Leads(body'[f], sent[c]) /\ Leads(chan'[f], sent[c])
      BY <2>1, <3>3 DEF AloneOn
    <3> QED
      BY <1>2, <1>3, <2>1, <3>2, <3>4, <3>5, <3>6
  <2> QED
    BY <1>0, <1>3, <2>1, <2>2, <2>3, <2>4, DropEffect DEF Open
<1>4. CASE Open(g) /\ slot' # g
  <2>1. /\ UNCHANGED <<body, chan, stream, asked, serves, sent, slot, shared>>
        /\ fetch[g].pc = "new" /\ fetch'[g].pc = "over"
        /\ \A h \in Fetches \ {g} : fetch'[h] = fetch[h]
    BY <1>0, <1>4, OpenEffect
  <2>2. fetch[f].pc # "new" /\ f # g /\ fetch[f].c = c
    BY <1>0, <2>1 DEF Pure, Holder
  <2>3. AloneOn(f, c)
    BY <2>1, <2>2 DEF Pure, Alone
  <2> QED
    BY <2>1, <2>2, <2>3 DEF AloneOn, Live, Nothing, Idle
<1>5. CASE DropGuard(g)
  BY <1>0, <1>5, DropEffect
<1>6. CASE Ask(g)
  BY <1>0, <1>3, <1>6, AskEffect
<1>7. CASE Poll(g)
  <2>1. UNCHANGED <<stream, serves, sent, slot, shared>> /\ fetch'[g].c = fetch[g].c
    BY <1>0, <1>7, PollEffect
  <2>2. fetch[f].c = c /\ fetch[g].pc = "streaming"
    BY <1>0, <1>7, PollEffect
  <2> QED
    BY <1>3, <2>1, <2>2
<1>8. CASE PollClosed(g) \/ Hangup(g)
  <2>1. /\ End(g, "broken") \/ End(g, "gone")
        /\ "broken" \in Outcomes /\ "gone" \in Outcomes /\ fetch[g].pc = "streaming"
    BY <1>8 DEF PollClosed, Hangup, Outcomes
  <2>2. UNCHANGED <<stream, serves, sent, slot, shared>>
    BY <1>8 DEF PollClosed, Hangup, channel, streams, replies, recordingsHist
  <2>3. fetch[f].c = c
    BY <1>0, <2>1, EndEffect
  <2> QED
    BY <1>3, <2>1, <2>2, <2>3
<1> QED
  BY <1>1, <1>4, <1>5, <1>6, <1>7, <1>8

\* The steps of the agent, the panel's inbound loops and the streams.
LEMMA StreamAlone ==
  ASSUME RecordingsTypes, Pure,
         Serve \/ ServeStep \/ (\E d \in Streams : Deliver(d)) \/ LoopEnds \/ StreamUp \/ StreamDown
  PROVE  Alone'
<1>0. /\ AskedOK /\ SentOK /\ StreamsOK
      /\ slot \in Fetches \cup {NoFetch} /\ chan \in [Fetches -> Seq(Replies)]
      /\ sent \in [Streams -> Seq(Replies)]
  BY DEF RecordingsTypes, ChannelOK, SentOK
<1>1. UNCHANGED <<fetch, body, slot, shared>>
  <2>1. CASE ServeStep
    BY <1>0, <2>1, ServeEffect DEF ServeStep
  <2>2. CASE StreamDown
    BY <1>0, <2>2, DownEffect
  <2>3. ASSUME NEW d \in Streams, Deliver(d) PROVE UNCHANGED <<fetch, body, slot, shared>>
    BY <2>3, DeliverEffect
  <2>4. CASE Serve \/ LoopEnds \/ StreamUp
    BY <2>4 DEF Serve, LoopEnds, StreamUp, handlers, channel, recordingsHist
  <2> QED
    BY <2>1, <2>2, <2>3, <2>4
<1> SUFFICES ASSUME NEW f \in Fetches, f \notin shared, slot = f,
                    NEW c \in 0 .. MaxStreams, fetch[f].c = c
             PROVE  AloneOn(f, c)'
  BY <1>1 DEF Alone
<1>2. /\ AloneOn(f, c) /\ c \in Streams /\ ReceivedBy(f)
      /\ \A g \in Fetches \ {f} : fetch[g].pc \in {"new", "over"}
  BY AloneIs DEF AloneOn
<1>3. /\ body[f] \in Seq(Replies) /\ chan[f] \in Seq(Replies) /\ sent[c] \in Seq(Replies)
      /\ serves \in Seq(1 .. Eof) /\ asked \in Nat
  BY <1>2, SequencesOK
<1>4. CASE Serve
  <2>1. /\ asked > 0 /\ asked' = asked - 1 /\ serves' = Append(serves, 1)
        /\ UNCHANGED <<chan, stream, sent>>
    BY <1>4 DEF Serve, channel, streams
  <2>2. Live(c) /\ asked = 1 /\ serves = <<>> /\ sent[c] = <<>> /\ Nothing(f)
    BY <1>2, <2>1 DEF AloneOn
  <2>3. asked' = 0 /\ Len(serves') = 1
    BY <2>1, <2>2
  <2>4. fetch[f].pc # "opened"
    BY <1>2, <2>1 DEF AloneOn, Idle
  <2> QED
    BY <1>1, <1>2, <2>1, <2>2, <2>3, <2>4, EmptyOrders DEF AloneOn, Nothing, Live
<1>5. CASE ServeStep
  <2> PICK i \in DOMAIN serves : SendChunk(i) \/ SendEof(i) \/ SendError(i)
    BY <1>5 DEF ServeStep
  <2>1. stream.up
    BY <1>5 DEF ServeStep
  <2> PICK x \in Replies :
        /\ sent' = [sent EXCEPT ![stream.n] = Append(sent[stream.n], x)]
        /\ \/ x = serves[i] /\ x < Eof /\ serves' = [serves EXCEPT ![i] = x + 1]
           \/ x \in {serves[i], Error} /\ serves' = RemoveAt(serves, i)
    BY <1>0, <2>1, ServeEffect
  <2>2. UNCHANGED <<chan, stream, asked>>
    BY <1>0, <2>1, ServeEffect
  <2>3. /\ Live(c) /\ asked = 0 /\ Len(serves) = 1 /\ serves # <<>>
        /\ Leads(body[f], serves) /\ Leads(chan[f], serves) /\ Leads(sent[c], serves)
    BY <1>2, <1>3 DEF AloneOn
  <2>4. /\ i = 1 /\ DOMAIN serves = {1} /\ serves[1] \in 1 .. Eof /\ stream.n = c
    <3>1. serves[i] \in 1 .. Eof /\ i \in 1 .. Len(serves)
      BY <1>3, ElementFacts
    <3>2. Len(serves) = 1 /\ DOMAIN serves = 1 .. Len(serves)
      BY <1>3, <2>3
    <3>3. i = 1 /\ DOMAIN serves = {1}
      BY <3>1, <3>2
    <3>4. stream.n = c
      BY <2>3 DEF Live
    <3> QED
      BY <3>1, <3>3, <3>4
  <2>5. sent'[c] = Append(sent[c], x) /\ \A d \in Streams \ {c} : sent'[d] = sent[d]
    BY <1>0, <1>2, <2>4
  <2>6. x \in {serves[1], Error}
    BY <2>4
  <2>7. /\ \A k \in DOMAIN body[f] : Before(body[f][k], x)
        /\ \A k \in DOMAIN chan[f] : Before(chan[f][k], x)
        /\ \A k \in DOMAIN sent[c] : Before(sent[c][k], x)
    BY <2>3, <2>4, <2>6 DEF Leads, Before
  <2>8. Rising(sent'[c]) /\ Leads(body[f], sent'[c]) /\ Leads(chan[f], sent'[c])
    BY <1>2, <1>3, <2>5, <2>7, AppendOrders DEF AloneOn
  <2>9. fetch[f].pc # "opened"
    BY <1>2, <2>3 DEF AloneOn, Idle
  <2>10. serves' # <<>> =>
           /\ Len(serves') = 1
           /\ Leads(body[f], serves') /\ Leads(chan[f], serves') /\ Leads(sent'[c], serves')
    <3>1. CASE x = serves[i] /\ x < Eof /\ serves' = [serves EXCEPT ![i] = x + 1]
      <4>1. DOMAIN serves' = {1} /\ serves'[1] = x + 1 /\ Len(serves') = 1
        BY <1>3, <2>3, <2>4, <3>1
      <4>2. x \in Int /\ x # Error /\ x + 1 \in 1 .. Eof
        BY <2>4, <3>1, Bounds
      <4>3. \A k \in Int : Before(k, x) => Before(k, x + 1)
        BY <4>2, Bounds DEF Before
      <4>4. Before(x, x + 1)
        BY <4>2, Bounds DEF Before
      <4>5. \A q \in Seq(Replies) : \A k \in DOMAIN q : q[k] \in Int
        BY Bounds DEF Replies
      <4>6. /\ \A k \in DOMAIN body[f] : Before(body[f][k], x + 1)
            /\ \A k \in DOMAIN chan[f] : Before(chan[f][k], x + 1)
            /\ \A k \in DOMAIN sent[c] : Before(sent[c][k], x + 1)
        BY <1>3, <2>7, <4>3, <4>5
      <4>7. Leads(body[f], serves') /\ Leads(chan[f], serves')
        BY <4>1, <4>6 DEF Leads
      <4>8. \A k \in DOMAIN sent'[c] : Before(sent'[c][k], x + 1)
        BY <1>3, <2>5, <4>4, <4>6, AppendFacts
      <4>9. Leads(sent'[c], serves')
        BY <4>1, <4>8 DEF Leads
      <4> QED
        BY <4>1, <4>7, <4>9
    <3>2. CASE serves' = RemoveAt(serves, i)
      <4>1. serves' \in Seq(1 .. Eof) /\ Len(serves') = 0
        BY <1>3, <2>3, <3>2, RemoveFacts
      <4>2. serves' = <<>>
        BY <4>1
      <4> QED
        BY <4>2
    <3> QED
      BY <3>1, <3>2
  <2>11. /\ Live(c)' /\ asked' = 0 /\ \A d \in Streams \ {c} : sent'[d] = <<>>
    BY <1>2, <2>2, <2>3, <2>5 DEF Live, AloneOn
  <2> QED
    BY <1>1, <1>2, <2>2, <2>8, <2>9, <2>10, <2>11 DEF AloneOn
<1>6. ASSUME NEW d \in Streams, Deliver(d) PROVE AloneOn(f, c)'
  <2> DEFINE x == Head(sent[c])
  <2>1. /\ sent[d] # <<>> /\ sent' = [sent EXCEPT ![d] = Tail(sent[d])]
        /\ UNCHANGED <<stream, asked, serves>>
        /\ chan'[f] = chan[f] \/ chan'[f] = Append(chan[f], Head(sent[d]))
    BY <1>0, <1>6, DeliverEffect
  <2>2. d = c
    BY <1>2, <2>1 DEF AloneOn
  <2>3. /\ sent[c] # <<>> /\ x \in Replies /\ sent'[c] = Tail(sent[c])
        /\ \A e \in Streams \ {c} : sent'[e] = sent[e]
        /\ chan'[f] = chan[f] \/ chan'[f] = Append(chan[f], x)
    BY <1>0, <1>2, <1>3, <2>1, <2>2, TailFacts
  <2>4. asked = 0 /\ fetch[f].pc # "opened"
    BY <1>2, <1>3, <2>3 DEF AloneOn, Idle
  <2>5. /\ Rising(Tail(sent[c])) /\ \A j \in DOMAIN Tail(sent[c]) : Before(x, Tail(sent[c])[j])
        /\ Leads(body[f], Tail(sent[c])) /\ Leads(chan[f], Tail(sent[c]))
        /\ \A p : Leads(sent[c], p) => Leads(Tail(sent[c]), p) /\ \A k \in DOMAIN p : Before(x, p[k])
    BY <1>2, <1>3, <2>3, TailOrders DEF AloneOn
  <2> HIDE DEF x
  <2>6. \A p : Leads(chan[f], p) /\ (\A k \in DOMAIN p : Before(x, p[k])) => Leads(chan'[f], p)
    BY <1>3, <2>3, AppendOrders
  <2>7. Leads(chan'[f], sent'[c])
    BY <2>3, <2>5, <2>6
  <2>8. serves # <<>> =>
          /\ Live(c) /\ Len(serves) = 1
          /\ Leads(body[f], serves) /\ Leads(chan'[f], serves) /\ Leads(sent'[c], serves)
    BY <1>2, <2>3, <2>5, <2>6 DEF AloneOn
  <2> QED
    BY <1>1, <1>2, <2>1, <2>3, <2>4, <2>5, <2>7, <2>8 DEF AloneOn, Live
<1>7. CASE LoopEnds
  <2>1. UNCHANGED <<chan, stream, asked, serves, sent>>
    BY <1>7 DEF LoopEnds, channel, replies
  <2> QED
    BY <1>1, <1>2, <2>1 DEF AloneOn, Live, Nothing, Idle
<1>8. CASE StreamUp
  <2>1. UNCHANGED <<chan, asked, serves, sent>> /\ ~stream.up
    BY <1>8 DEF StreamUp, channel, replies
  <2>2. ~Live(c)
    BY <2>1 DEF Live
  <2> QED
    BY <1>1, <1>2, <2>1, <2>2 DEF AloneOn, Nothing, Idle
<1>9. CASE StreamDown
  <2> PICK n \in 0 .. Len(sent[stream.n]) :
             sent' = [sent EXCEPT ![stream.n] = SubSeq(sent[stream.n], 1, n)]
    BY <1>0, <1>9, DownEffect
  <2>1. stream.n \in Streams /\ asked' = 0 /\ serves' = <<>> /\ UNCHANGED chan
    BY <1>0, <1>9, DownEffect
  <2>2. sent[stream.n] \in Seq(Replies)
    BY <1>0, <2>1
  <2>3. Rising(sent'[c]) /\ Leads(body[f], sent'[c]) /\ Leads(chan[f], sent'[c])
    <3>1. CASE stream.n = c
      BY <1>0, <1>2, <2>2, <3>1, PrefixOrders DEF AloneOn
    <3>2. CASE stream.n # c
      BY <1>0, <1>2, <3>2 DEF AloneOn
    <3> QED
      BY <3>1, <3>2
  <2>4. \A q : q = <<>> /\ n \in 0 .. Len(q) => SubSeq(q, 1, n) = <<>>
    OBVIOUS
  <2>5. \A d \in Streams : sent[d] = <<>> => sent'[d] = <<>>
    BY <1>0, <2>4
  <2> QED
    BY <1>1, <1>2, <2>1, <2>3, <2>5 DEF AloneOn, Nothing, Idle
<1> QED
  BY <1>4, <1>5, <1>6, <1>7, <1>8, <1>9

LEMMA NextPure == RecordingsTypes /\ Pure /\ [RecordingsNext]_recordingsVars => Pure'
<1> SUFFICES ASSUME RecordingsTypes, Pure, [RecordingsNext]_recordingsVars PROVE Pure'
  OBVIOUS
<1>1. ASSUME NEW f \in Fetches,
             Open(f) \/ Ask(f) \/ Poll(f) \/ PollClosed(f) \/ Hangup(f) \/ DropGuard(f)
      PROVE  Pure'
  BY <1>1, FetchReceived, FetchHolder, FetchAlone DEF Pure
<1>2. CASE Serve \/ ServeStep \/ (\E c \in Streams : Deliver(c)) \/ LoopEnds \/ StreamUp \/ StreamDown
  <2>1. UNCHANGED <<fetch, slot>>
    <3>1. AskedOK /\ SentOK /\ StreamsOK
      BY DEF RecordingsTypes
    <3>2. CASE ServeStep
      BY <3>1, <3>2, ServeEffect DEF ServeStep
    <3>3. CASE StreamDown
      BY <3>1, <3>3, DownEffect
    <3>4. ASSUME NEW d \in Streams, Deliver(d) PROVE UNCHANGED <<fetch, slot>>
      BY <3>4, DeliverEffect
    <3>5. CASE Serve \/ LoopEnds \/ StreamUp
      BY <3>5 DEF Serve, LoopEnds, StreamUp, handlers, channel
    <3> QED
      BY <1>2, <3>2, <3>3, <3>4, <3>5
  <2>2. Holder'
    BY <2>1 DEF Pure, Holder
  <2> QED
    BY <1>2, <2>2, StreamReceived, StreamAlone DEF Pure
<1>3. CASE UNCHANGED recordingsVars
  <2>1. UNCHANGED <<fetch, body, slot, chan, stream, asked, serves, sent, shared>>
    BY <1>3 DEF recordingsVars, handlers, channel, streams, replies, recordingsHist
  <2>2. Received' /\ Holder'
    BY <2>1 DEF Pure, Received, ReceivedBy, Nothing, Holder
  <2>3. Alone'
    BY <2>1 DEF Pure, Alone, AloneOn, Live, Nothing, Idle
  <2> QED
    BY <2>2, <2>3 DEF Pure
<1> QED
  BY <1>1, <1>2, <1>3 DEF RecordingsNext

----------------------------------------------------------------------------
(* A download of which nothing was dropped.                                 *)

\* The frames behind n chunks: the next ones, in turn, up to the empty final
\* frame, which comes after the last chunk, or to the error.
Continues(q, n) == \A i \in DOMAIN q : q[i] \in {Error, n + i}

\* What is on the way to an unshared download of which no frame was dropped
\* follows what it has received without a gap.
DenseOn(f, c) ==
  LET received == Len(body[f]) + Len(chan[f])
  IN /\ Continues(sent[c], received)
     /\ Continues(serves, received + Len(sent[c]))

DenseBy(f) ==
  /\ fetch[f].result = "whole" => Len(body[f]) = FileChunks
  /\ fetch[f].pc \in {"opened", "streaming"} =>
       /\ Continues(chan[f], Len(body[f]))
       /\ slot = f => DenseOn(f, fetch[f].c)

Dense == \A f \in Fetches \ (shared \cup holed) : DenseBy(f)

LEMMA ContinuesFacts ==
  ASSUME NEW q \in Seq(Replies), NEW n \in Nat
  PROVE  /\ q = <<>> => Continues(q, n)
         /\ q # <<>> /\ Continues(q, n) => Head(q) \in {Error, n + 1} /\ Continues(Tail(q), n + 1)
         /\ \A x \in Replies :
              Continues(q, n) /\ x \in {Error, n + Len(q) + 1} => Continues(Append(q, x), n)
         /\ \A m \in 0 .. Len(q) : Continues(q, n) => Continues(SubSeq(q, 1, m), n)
<1>1. q = <<>> => Continues(q, n)
  BY DEF Continues
<1>2. ASSUME q # <<>>, Continues(q, n)
      PROVE  Head(q) \in {Error, n + 1} /\ Continues(Tail(q), n + 1)
  <2>1. /\ Head(q) = q[1] /\ 1 \in DOMAIN q
        /\ \A i \in DOMAIN Tail(q) : i \in Nat /\ i + 1 \in DOMAIN q /\ Tail(q)[i] = q[i + 1]
    BY <1>2, TailFacts
  <2>2. \A i \in DOMAIN Tail(q) : Tail(q)[i] \in {Error, (n + 1) + i}
    <3> TAKE i \in DOMAIN Tail(q)
    <3>1. i \in Nat /\ Tail(q)[i] \in {Error, n + (i + 1)}
      BY <1>2, <2>1 DEF Continues
    <3> QED
      BY <3>1
  <2> QED
    BY <1>2, <2>1, <2>2 DEF Continues
<1>3. ASSUME NEW x \in Replies, Continues(q, n), x \in {Error, n + Len(q) + 1}
      PROVE  Continues(Append(q, x), n)
  <2>1. /\ DOMAIN Append(q, x) = DOMAIN q \cup {Len(q) + 1} /\ Append(q, x)[Len(q) + 1] = x
        /\ \A i \in DOMAIN q : Append(q, x)[i] = q[i]
    BY AppendFacts
  <2>2. n + Len(q) + 1 = n + (Len(q) + 1)
    OBVIOUS
  <2> QED
    BY <1>3, <2>1, <2>2 DEF Continues
<1>4. ASSUME NEW m \in 0 .. Len(q), Continues(q, n) PROVE Continues(SubSeq(q, 1, m), n)
  BY <1>4, PrefixFacts DEF Continues
<1> QED
  BY <1>1, <1>2, <1>3, <1>4

LEMMA InitDense == RecordingsInit => Dense
BY DEF RecordingsInit, Dense, DenseBy, Continues

\* What the invariants say of an unshared download that holds the slot.
LEMMA DenseIs ==
  ASSUME RecordingsTypes, Pure, Dense, NEW f \in Fetches \ (shared \cup holed)
  PROVE  /\ DenseBy(f) /\ ReceivedBy(f) /\ f # NoFetch
         /\ Len(body[f]) \in Nat /\ Len(chan[f]) \in Nat
         /\ fetch[f].result = "whole" => fetch[f].pc \in {"ending", "over"}
         /\ slot = f => AloneOn(f, fetch[f].c) /\ fetch[f].c \in Streams
<1>1. ReceivedBy(f) /\ f # NoFetch
  BY Bounds DEF Pure, Received
<1>2. body[f] \in Seq(Replies) /\ chan[f] \in Seq(Replies)
  BY SequencesOK
<1> QED
  BY <1>1, <1>2, AloneIs DEF Dense, ReceivedBy

LEMMA FetchDense ==
  ASSUME RecordingsTypes, Pure, Dense, NEW g \in Fetches,
         Open(g) \/ Ask(g) \/ Poll(g) \/ PollClosed(g) \/ Hangup(g) \/ DropGuard(g)
  PROVE  Dense'
<1>0. /\ HandlersOK /\ ChannelOK /\ StreamsOK
      /\ body \in [Fetches -> Seq(1 .. FileChunks)] /\ chan \in [Fetches -> Seq(Replies)]
  BY DEF RecordingsTypes, HandlersOK, ChannelOK
<1>1. UNCHANGED <<holed, serves, sent>> /\ shared \subseteq shared'
  <2>1. CASE Open(g) \/ Ask(g)
    BY <1>0, <2>1, OpenEffect, AskEffect
  <2>2. CASE Poll(g) \/ PollClosed(g) \/ Hangup(g) \/ DropGuard(g)
    BY <2>2 DEF Poll, PollClosed, Hangup, DropGuard, replies, recordingsHist
  <2> QED
    BY <2>1, <2>2
<1> SUFFICES ASSUME NEW f \in Fetches \ (shared' \cup holed') PROVE DenseBy(f)'
  BY DEF Dense
<1>2. f \in Fetches \ (shared \cup holed)
  BY <1>1
<1>3. /\ DenseBy(f) /\ ReceivedBy(f) /\ f # NoFetch
      /\ Len(body[f]) \in Nat /\ Len(chan[f]) \in Nat
      /\ fetch[f].result = "whole" => fetch[f].pc \in {"ending", "over"}
  BY <1>2, DenseIs
<1>4. CASE fetch'[f] = fetch[f] /\ UNCHANGED <<body, chan>> /\ slot' \in {slot, g, NoFetch} /\ f # g
  BY <1>1, <1>3, <1>4 DEF DenseBy, DenseOn
<1>5. CASE Open(g)
  <2>1. /\ fetch[g].pc = "new" /\ \A h \in Fetches \ {g} : fetch'[h] = fetch[h]
        /\ UNCHANGED <<body, chan>> /\ slot' \in {slot, g}
        /\ \/ fetch'[g].pc = "over" /\ fetch'[g].result = "refused"
           \/ /\ fetch'[g].pc = "opened" /\ fetch'[g].result = fetch[g].result
              /\ fetch'[g].c \in Streams /\ shared' = IF Quiet THEN shared ELSE shared \cup {g}
    BY <1>0, <1>5, OpenEffect
  <2>2. CASE f = g /\ fetch'[g].pc = "opened"
    <3>1. Nothing(f) /\ fetch[f].result # "whole"
      BY <1>3, <2>1, <2>2 DEF ReceivedBy
    <3>2. Quiet
      BY <2>1, <2>2
    <3>3. serves = <<>> /\ \A d \in Streams : sent[d] = <<>>
      BY <3>2 DEF Quiet
    <3>4. fetch'[f].c \in Streams /\ fetch'[f].result = fetch[f].result
      BY <2>1, <2>2
    <3>5. /\ body'[f] = <<>> /\ chan'[f] = <<>> /\ serves' = <<>>
          /\ sent'[fetch'[f].c] = <<>>
      BY <1>1, <2>1, <3>1, <3>3, <3>4 DEF Nothing
    <3>6. \A n : Continues(<<>>, n)
      BY DEF Continues
    <3> QED
      BY <3>1, <3>4, <3>5, <3>6 DEF DenseBy, DenseOn
  <2>3. CASE f = g /\ fetch'[g].pc = "over" /\ fetch'[g].result = "refused"
    BY <2>3 DEF DenseBy
  <2> QED
    BY <1>4, <2>1, <2>2, <2>3
<1>6. CASE Ask(g)
  <2>1. /\ fetch[g].pc = "opened" /\ \A h \in Fetches \ {g} : fetch'[h] = fetch[h]
        /\ fetch'[g].pc \in {"streaming", "ending"} /\ fetch'[g].c = fetch[g].c
        /\ fetch'[g].result \in {fetch[g].result, "refused"}
        /\ UNCHANGED <<body, slot, chan>>
    BY <1>0, <1>6, AskEffect
  <2>2. CASE f = g
    BY <1>1, <1>3, <2>1, <2>2 DEF DenseBy, DenseOn
  <2> QED
    BY <1>4, <2>1, <2>2
<1>7. CASE Poll(g)
  <2>1. /\ fetch[g].pc = "streaming" /\ chan[g] # <<>> /\ UNCHANGED slot
        /\ chan' = [chan EXCEPT ![g] = Tail(chan[g])]
        /\ \A h \in Fetches \ {g} : fetch'[h] = fetch[h]
        /\ \/ /\ fetch'[g].pc = "ending" /\ UNCHANGED body
              /\ fetch'[g].result = "whole" => Head(chan[g]) = Eof
           \/ /\ UNCHANGED fetch /\ Head(chan[g]) \in 1 .. FileChunks
              /\ body' = [body EXCEPT ![g] = Append(body[g], Head(chan[g]))]
    BY <1>0, <1>7, PollEffect
  <2>2. CASE f # g
    <3>1. fetch'[f] = fetch[f] /\ body'[f] = body[f] /\ chan'[f] = chan[f]
      BY <1>0, <2>1, <2>2
    <3> QED
      BY <1>1, <1>3, <2>1, <3>1 DEF DenseBy, DenseOn
  <2>3. CASE f = g
    <3> DEFINE x == Head(chan[f])
    <3>n. PICK n \in Nat : n = Len(body[f])
      BY <1>3
    <3>1. chan[f] \in Seq(Replies) /\ n \in Nat /\ chan[f] # <<>> /\ body[f] \in Seq(1 .. FileChunks)
      BY <1>0, <1>3, <2>1, <2>3
    <3>2. Continues(chan[f], n)
      BY <1>3, <2>1, <2>3, <3>n DEF DenseBy
    <3>3. x \in {Error, n + 1} /\ Continues(Tail(chan[f]), n + 1)
          /\ Len(Tail(chan[f])) = Len(chan[f]) - 1
      BY <3>1, <3>2, ContinuesFacts, TailFacts
    <3> HIDE DEF x
    <3>4. CASE fetch'[f].pc = "ending" /\ UNCHANGED body
               /\ (fetch'[f].result = "whole" => x = Eof)
      BY <3>1, <3>3, <3>4, <3>n, Bounds DEF DenseBy
    <3>5. CASE UNCHANGED fetch /\ x \in 1 .. FileChunks /\ body' = [body EXCEPT ![f] = Append(body[f], x)]
      <4>1. Len(body'[f]) = n + 1
        <5>1. body'[f] = Append(body[f], x)
          BY <1>0, <3>5
        <5> QED
          BY <3>1, <3>5, <3>n, <5>1, AppendFacts
      <4>2. chan'[f] = Tail(chan[f]) /\ Len(chan[f]) \in Nat /\ fetch'[f] = fetch[f]
        BY <1>0, <1>3, <2>1, <2>3, <3>5
      <4>3. Len(body'[f]) + Len(chan'[f]) = n + Len(chan[f])
        BY <3>1, <3>3, <4>1, <4>2
      <4>4. Continues(chan'[f], Len(body'[f]))
        BY <3>3, <4>1, <4>2
      <4>5. slot' = f => DenseOn(f, fetch[f].c)'
        BY <1>1, <1>3, <2>1, <2>3, <3>n, <4>2, <4>3 DEF DenseBy, DenseOn
      <4>6. fetch[f].result # "whole"
        BY <1>3, <2>1, <2>3
      <4> QED
        BY <4>2, <4>4, <4>5, <4>6, <3>5 DEF DenseBy
    <3> QED
      BY <2>1, <2>3, <3>4, <3>5 DEF x
  <2> QED
    BY <2>2, <2>3
<1>8. CASE PollClosed(g) \/ Hangup(g)
  <2>1. /\ (End(g, "broken") \/ End(g, "gone")) /\ UNCHANGED <<body, chan, slot>>
        /\ "broken" \in Outcomes /\ "gone" \in Outcomes
    BY <1>8 DEF PollClosed, Hangup, channel, Outcomes
  <2>2. /\ \A h \in Fetches \ {g} : fetch'[h] = fetch[h]
        /\ fetch'[g].pc = "ending" /\ fetch'[g].result \in {"broken", "gone"}
    BY <1>0, <2>1, EndEffect
  <2>3. UNCHANGED <<body, chan, slot>>
    BY <1>8 DEF PollClosed, Hangup, channel
  <2>4. CASE f = g
    BY <2>2, <2>4 DEF DenseBy
  <2> QED
    BY <1>4, <2>2, <2>3, <2>4
<1>9. CASE DropGuard(g)
  <2>1. /\ \A h \in Fetches \ {g} : fetch'[h] = fetch[h]
        /\ fetch[g].pc = "ending" /\ fetch'[g].pc = "over" /\ fetch'[g].result = fetch[g].result
        /\ slot' = NoFetch /\ chan' = [chan EXCEPT ![g] = <<>>] /\ UNCHANGED body
    BY <1>0, <1>9, DropEffect
  <2>2. CASE f = g
    BY <1>3, <2>1, <2>2 DEF DenseBy
  <2>3. CASE f # g
    <3>1. fetch'[f] = fetch[f] /\ chan'[f] = chan[f] /\ slot' # f
      BY <1>0, <1>3, <2>1, <2>3
    <3> QED
      BY <1>3, <2>1, <3>1 DEF DenseBy
  <2> QED
    BY <2>2, <2>3
<1> QED
  BY <1>5, <1>6, <1>7, <1>8, <1>9

LEMMA StreamDense ==
  ASSUME RecordingsTypes, Pure, Dense,
         Serve \/ ServeStep \/ (\E d \in Streams : Deliver(d)) \/ LoopEnds \/ StreamUp \/ StreamDown
  PROVE  Dense'
<1>0. /\ AskedOK /\ SentOK /\ StreamsOK
      /\ slot \in Fetches \cup {NoFetch} /\ chan \in [Fetches -> Seq(Replies)]
      /\ sent \in [Streams -> Seq(Replies)] /\ serves \in Seq(1 .. Eof)
  BY DEF RecordingsTypes, ChannelOK, SentOK, AskedOK
<1>1. UNCHANGED <<fetch, body, slot, shared>> /\ holed \subseteq holed'
  <2>1. CASE ServeStep
    BY <1>0, <2>1, ServeEffect DEF ServeStep
  <2>2. CASE StreamDown
    BY <1>0, <2>2, DownEffect
  <2>3. ASSUME NEW d \in Streams, Deliver(d)
        PROVE  UNCHANGED <<fetch, body, slot, shared>> /\ holed \subseteq holed'
    BY <2>3, DeliverEffect
  <2>4. CASE Serve \/ LoopEnds \/ StreamUp
    BY <2>4 DEF Serve, LoopEnds, StreamUp, handlers, channel, recordingsHist
  <2> QED
    BY <2>1, <2>2, <2>3, <2>4
<1> SUFFICES ASSUME NEW f \in Fetches \ (shared' \cup holed') PROVE DenseBy(f)'
  BY DEF Dense
<1>2. f \in Fetches \ (shared \cup holed)
  BY <1>1
<1>3. /\ DenseBy(f) /\ f # NoFetch /\ Len(body[f]) \in Nat /\ Len(chan[f]) \in Nat
      /\ slot = f => AloneOn(f, fetch[f].c) /\ fetch[f].c \in Streams
  BY <1>2, DenseIs
<1>c. PICK c : c = fetch[f].c
  OBVIOUS
<1>n. PICK n \in Nat : n = Len(body[f]) + Len(chan[f])
  <2>1. \A i, j \in Nat : i + j \in Nat
    OBVIOUS
  <2>2. Len(body[f]) + Len(chan[f]) \in Nat
    BY <1>3, <2>1, Zenon
  <2> QED
    BY <2>2
\* It is enough that what follows the download's chunks still does.
<1>4. ASSUME UNCHANGED chan, slot = f /\ DenseOn(f, c) => DenseOn(f, c)'
      PROVE  DenseBy(f)'
  BY <1>1, <1>3, <1>4, <1>c DEF DenseBy
<1>5. chan[f] \in Seq(Replies) /\ n \in Nat /\ (slot = f => sent[c] \in Seq(Replies))
  BY <1>0, <1>3, <1>c
<1>6. CASE Serve
  <2>1. asked > 0 /\ serves' = Append(serves, 1) /\ UNCHANGED <<chan, sent>>
    BY <1>6 DEF Serve, channel
  <2>2. ASSUME slot = f PROVE DenseOn(f, c)'
    <3>1. serves = <<>> /\ sent[c] = <<>> /\ Nothing(f)
      BY <1>3, <1>c, <2>1, <2>2 DEF AloneOn
    <3>2. serves' = <<1>> /\ sent'[c] = <<>> /\ body'[f] = <<>> /\ chan'[f] = <<>>
      BY <1>1, <2>1, <3>1 DEF Nothing
    <3>3. Len(body'[f]) = 0 /\ Len(chan'[f]) = 0 /\ Len(sent'[c]) = 0
      BY <3>2
    <3>4. Continues(serves', 0)
      BY <3>2 DEF Continues
    <3>5. Continues(sent'[c], 0)
      BY <3>2 DEF Continues
    <3> QED
      BY <3>3, <3>4, <3>5 DEF DenseOn
  <2> QED
    BY <1>4, <2>1, <2>2
<1>7. CASE ServeStep
  <2> PICK i \in DOMAIN serves : SendChunk(i) \/ SendEof(i) \/ SendError(i)
    BY <1>7 DEF ServeStep
  <2>1. stream.up
    BY <1>7 DEF ServeStep
  <2> PICK x \in Replies :
        /\ sent' = [sent EXCEPT ![stream.n] = Append(sent[stream.n], x)]
        /\ \/ x = serves[i] /\ x < Eof /\ serves' = [serves EXCEPT ![i] = x + 1]
           \/ x \in {serves[i], Error} /\ serves' = RemoveAt(serves, i)
    BY <1>0, <2>1, ServeEffect
  <2>2. UNCHANGED chan
    BY <1>0, <2>1, ServeEffect
  <2>3. ASSUME slot = f, DenseOn(f, c) PROVE DenseOn(f, c)'
    <3>1. Live(c) /\ Len(serves) = 1 /\ c \in Streams
      <4>1. i \in 1 .. Len(serves)
        BY <1>0, ElementFacts
      <4> QED
        BY <1>3, <1>c, <2>3, <4>1 DEF AloneOn
    <3>2. i = 1 /\ DOMAIN serves = {1} /\ serves[1] \in 1 .. Eof /\ stream.n = c
      <4>1. serves[i] \in 1 .. Eof /\ i \in 1 .. Len(serves) /\ DOMAIN serves = 1 .. Len(serves)
        <5>1. serves \in Seq(1 .. Eof) /\ i \in DOMAIN serves
          BY <1>0
        <5>2. serves[i] \in 1 .. Eof
          BY <5>1, ElementFacts
        <5>3. i \in 1 .. Len(serves) /\ DOMAIN serves = 1 .. Len(serves)
          BY <5>1
        <5> QED
          BY <5>2, <5>3
      <4>2. i = 1 /\ DOMAIN serves = {1}
        BY <3>1, <4>1
      <4> QED
        BY <3>1, <4>1, <4>2 DEF Live
    <3>m. PICK m \in Nat : m = Len(sent[c])
      BY <1>5, <2>3
    <3>n. Continues(sent[c], n) /\ Continues(serves, n + m)
      BY <1>n, <2>3, <3>m DEF DenseOn
    <3>3. sent[c] \in Seq(Replies) /\ m \in Nat /\ serves[1] \in {Error, n + m + 1}
      BY <1>5, <2>3, <3>2, <3>n DEF Continues
    <3>4. serves[1] = n + m + 1 /\ x \in {Error, n + m + 1}
      BY <3>2, <3>3, Bounds
    <3>5. sent'[c] = Append(sent[c], x) /\ Len(sent'[c]) = m + 1
      <4>1. sent'[c] = Append(sent[c], x)
        BY <1>0, <3>1, <3>2
      <4> QED
        BY <3>3, <3>m, <4>1, AppendFacts
    <3>6. Continues(sent'[c], n)
      <4>1. x \in {Error, n + Len(sent[c]) + 1}
        BY <3>4, <3>m
      <4> QED
        BY <1>5, <3>3, <3>5, <3>n, <4>1, ContinuesFacts
    <3>7. Continues(serves', n + Len(sent'[c]))
      <4>1. CASE x = serves[i] /\ serves' = [serves EXCEPT ![i] = x + 1]
        <5>1. DOMAIN serves' = {1} /\ serves'[1] = x + 1
          BY <1>0, <3>2, <4>1
        <5>2. x + 1 = n + (m + 1) + 1
          BY <1>5, <3>2, <3>3, <3>4, <4>1
        <5> QED
          BY <3>5, <5>1, <5>2 DEF Continues
      <4>2. CASE serves' = RemoveAt(serves, i)
        <5>1. serves' \in Seq(1 .. Eof) /\ Len(serves') = 0
          <6>1. serves \in Seq(1 .. Eof) /\ i \in DOMAIN serves /\ Len(serves) = 1
            BY <1>0, <3>1
          <6> QED
            BY <4>2, <6>1, RemoveFacts
        <5>2. DOMAIN serves' = {}
          BY <5>1
        <5> QED
          BY <5>2 DEF Continues
      <4> QED
        BY <4>1, <4>2
    <3> QED
      BY <1>1, <1>n, <2>2, <3>6, <3>7 DEF DenseOn
  <2> QED
    BY <1>4, <2>2, <2>3
<1>8. ASSUME NEW d \in Streams, Deliver(d) PROVE DenseBy(f)'
  <2>1. /\ sent[d] # <<>> /\ sent' = [sent EXCEPT ![d] = Tail(sent[d])] /\ UNCHANGED serves
        /\ \/ UNCHANGED chan /\ slot # f
           \/ slot # NoFetch /\ chan' = [chan EXCEPT ![slot] = Append(chan[slot], Head(sent[d]))]
    BY <1>3, <1>8, DeliverEffect
  <2>2. CASE slot # f
    <3>1. chan'[f] = chan[f]
      BY <1>0, <2>1, <2>2
    <3> QED
      BY <1>1, <1>3, <2>2, <3>1 DEF DenseBy
  <2>3. CASE slot = f /\ fetch[f].pc \notin {"opened", "streaming"}
    BY <1>1, <1>3, <2>3 DEF DenseBy
  <2>4. CASE slot = f /\ fetch[f].pc \in {"opened", "streaming"}
    <3>1. d = c /\ c \in Streams
      BY <1>3, <1>c, <2>1, <2>4 DEF AloneOn
    <3> DEFINE x == Head(sent[c])
    <3>2. /\ sent[c] \in Seq(Replies) /\ sent[c] # <<>> /\ x \in Replies
          /\ sent'[c] = Tail(sent[c]) /\ chan'[f] = Append(chan[f], x)
          /\ Len(Tail(sent[c])) = Len(sent[c]) - 1 /\ Len(sent[c]) \in Nat
      BY <1>0, <2>1, <2>4, <3>1, TailFacts
    <3>3. Continues(chan[f], Len(body[f])) /\ DenseOn(f, c)
      BY <1>3, <1>c, <2>4 DEF DenseBy
    <3>4. Continues(sent[c], n) /\ Continues(serves, n + Len(sent[c]))
      BY <1>n, <3>3 DEF DenseOn
    <3>5. x \in {Error, n + 1} /\ Continues(Tail(sent[c]), n + 1)
      BY <1>5, <3>2, <3>4, ContinuesFacts
    <3> HIDE DEF x
    <3>6. Continues(chan'[f], Len(body[f])) /\ Len(chan'[f]) = Len(chan[f]) + 1
      <4>1. x \in {Error, Len(body[f]) + Len(chan[f]) + 1}
        BY <1>n, <3>5
      <4>2. chan[f] \in Seq(Replies) /\ Len(body[f]) \in Nat /\ x \in Replies
        BY <1>3, <1>5, <3>2
      <4>3. Continues(Append(chan[f], x), Len(body[f]))
        BY <3>3, <4>1, <4>2, ContinuesFacts
      <4>4. Len(Append(chan[f], x)) = Len(chan[f]) + 1
        BY <4>2, AppendFacts
      <4> QED
        BY <3>2, <4>3, <4>4
    <3>7. Len(body[f]) + Len(chan'[f]) = n + 1 /\ n + 1 + Len(sent'[c]) = n + Len(sent[c])
      <4>1. \A i, j, k \in Nat : i + (j + 1) = (i + j) + 1 /\ i + 1 + (k - 1) = i + k
        OBVIOUS
      <4>2. Len(sent'[c]) = Len(sent[c]) - 1 /\ Len(sent[c]) \in Nat
        BY <3>2
      <4>3. Len(body[f]) \in Nat /\ Len(chan[f]) \in Nat
        BY <1>3
      <4>4. Len(body[f]) + Len(chan'[f]) = n + 1
        <5>1. Len(body[f]) + (Len(chan[f]) + 1) = (Len(body[f]) + Len(chan[f])) + 1
          BY <4>1, <4>3, Zenon
        <5> QED
          BY <1>n, <3>6, <5>1, Zenon
      <4>5. n + 1 + Len(sent'[c]) = n + Len(sent[c])
        BY <4>1, <4>2
      <4> QED
        BY <4>4, <4>5
    <3>8. DenseOn(f, c)'
      BY <1>1, <2>1, <3>2, <3>4, <3>5, <3>7 DEF DenseOn
    <3> QED
      BY <1>1, <1>3, <1>c, <3>6, <3>8 DEF DenseBy
  <2> QED
    BY <2>2, <2>3, <2>4
<1>9. CASE LoopEnds \/ StreamUp
  <2>1. UNCHANGED <<chan, sent, serves>>
    BY <1>9 DEF LoopEnds, StreamUp, channel, replies
  <2> QED
    BY <1>1, <1>4, <2>1 DEF DenseOn
<1>10. CASE StreamDown
  <2> PICK m \in 0 .. Len(sent[stream.n]) :
             sent' = [sent EXCEPT ![stream.n] = SubSeq(sent[stream.n], 1, m)]
    BY <1>0, <1>10, DownEffect
  <2>1. stream.n \in Streams /\ serves' = <<>> /\ UNCHANGED chan
    BY <1>0, <1>10, DownEffect
  <2>2. ASSUME slot = f, DenseOn(f, c) PROVE DenseOn(f, c)'
    <3>1. Continues(sent[c], n)
      BY <1>n, <2>2 DEF DenseOn
    <3>2. c \in Streams
      BY <1>3, <1>c, <2>2
    <3>3. Continues(sent'[c], n)
      <4>1. CASE stream.n = c
        <5>1. sent'[c] = SubSeq(sent[c], 1, m) /\ m \in 0 .. Len(sent[c])
          BY <1>0, <3>2, <4>1
        <5> QED
          BY <1>5, <2>2, <3>1, <5>1, ContinuesFacts
      <4>2. CASE stream.n # c
        BY <1>0, <3>1, <3>2, <4>2
      <4> QED
        BY <4>1, <4>2
    <3> QED
      <4>1. DOMAIN serves' = {} /\ UNCHANGED <<body, chan>>
        BY <1>1, <2>1
      <4>2. \A k : Continues(serves', k)
        BY <4>1 DEF Continues
      <4> QED
        BY <1>n, <3>3, <4>1, <4>2 DEF DenseOn
  <2> QED
    BY <1>4, <2>1, <2>2
<1> QED
  BY <1>6, <1>7, <1>8, <1>9, <1>10

LEMMA NextDense == RecordingsTypes /\ Pure /\ Dense /\ [RecordingsNext]_recordingsVars => Dense'
<1> SUFFICES ASSUME RecordingsTypes, Pure, Dense, [RecordingsNext]_recordingsVars PROVE Dense'
  OBVIOUS
<1>1. CASE UNCHANGED recordingsVars
  <2>1. UNCHANGED <<fetch, body, slot, chan, serves, sent, shared, holed>>
    BY <1>1 DEF recordingsVars, handlers, channel, streams, replies, recordingsHist
  <2> QED
    BY <2>1 DEF Dense, DenseBy, DenseOn
<1> QED
  BY <1>1, FetchDense, StreamDense DEF RecordingsNext

LEMMA DenseIsWhole == RecordingsTypes /\ Pure /\ Dense => WholeIsTheFile
<1> SUFFICES ASSUME RecordingsTypes, Pure, Dense, NEW f \in Fetches \ shared,
                    fetch[f].result = "whole", f \in Plain \/ f \notin holed
             PROVE  IsTheFile(f)
  BY DEF WholeIsTheFile
<1>1. Steady(body[f]) /\ Len(body[f]) = FileChunks
  BY DEF Pure, Received, ReceivedBy, Dense, DenseBy
<1>2. body[f] \in Seq(1 .. FileChunks)
  BY SequencesOK
<1> QED
  BY <1>1, <1>2, SteadyIsWhole DEF IsTheFile

\* Of the promise "the client sees an incomplete download rather than a silent
\* success", what the code keeps: a stream that dies, a read that fails and a
\* request that supersedes it never leave a body that passes for the file, nor does
\* a full channel where the client is told the length, if nothing else was fetched
\* meanwhile.
THEOREM WholeDownloads == RecordingsSpec => []WholeIsTheFile
BY InitRecordingsTypes, NextRecordingsTypes, InitPure, NextPure, InitDense, NextDense,
   DenseIsWhole, PTL DEF RecordingsSpec
============================================================================
