----------------------------- MODULE Recordings -----------------------------
(***************************************************************************)
(* Downloads of one terminal session's recording: the HTTP handlers, the   *)
(* RecordingHub with its one slot per session, the agent's serve_fetch     *)
(* tasks, and the streams between them.  Frames name the session, not the  *)
(* request they answer.                                                    *)
(*                                                                         *)
(* The file is FileChunks chunks of one length.  The handler announces the *)
(* row's size as the Content-Length, and a browser that is told a length   *)
(* takes the download for whole when the body ends in order at that        *)
(* length.  The router's CompressionLayer compresses the answer to a       *)
(* client that accepts an encoding, which takes the header away: to that   *)
(* client any body that ends in order is whole.                            *)
(***************************************************************************)
EXTENDS Naturals, Sequences, FiniteSets, SequencesExt

CONSTANTS
  Fetches,     \* download requests
  Plain,       \* those whose client accepts no encoding, and is told the length
  NoFetch,
  FileChunks,  \* the recording's length in chunks
  ChanCap,     \* CHANNEL_BUFFER, scaled down
  FetchCap,    \* DOWNSTREAM_BUFFER, scaled down
  FetchUpCap,  \* the stream's upstream channel, scaled down
  MaxStreams   \* bound: streams the agent opens

ASSUME RecordingsAssumption ==
  /\ NoFetch \notin Fetches /\ Plain \subseteq Fetches
  /\ {FileChunks, MaxStreams} \subseteq Nat
  /\ {ChanCap, FetchCap, FetchUpCap} \subseteq Nat \ {0}

VARIABLES
  fetch,    \* the handler of a request, and what its browser makes of the answer
  body,     \* chunks the browser has received
  slot,     \* RecordingHub.inner of the session: whose sender it holds
  chan,     \* frames in the channel of a fetch
  stream,   \* number of the agent's latest stream, and whether it is up
  serving,  \* SessionHub: the registered stream, 0 for none
  asked,    \* RecordingFetch frames queued to the latest stream
  serves,   \* serve_fetch tasks of the latest stream: each one's next chunk
  sent,     \* frames a stream carries to the panel
  shared,   \* history: fetches opened while frames of another were on their way
  stranded, \* history: fetches whose answer went down with a stream or a full channel
  holed     \* history: fetches of which a full channel dropped a frame

handlers       == <<fetch, body>>
channel        == <<slot, chan>>
streams        == <<stream, serving>>
replies        == <<asked, serves, sent>>
recordingsHist == <<shared, stranded, holed>>
recordingsVars == <<handlers, channel, streams, replies, recordingsHist>>

Streams  == 1 .. MaxStreams
Eof      == FileChunks + 1  \* the empty final frame after the last chunk
Error    == 0               \* the final frame that carries an error
Replies  == Error .. Eof
Outcomes == {"none", "refused", "whole", "broken", "gone"}
Fetch    == [pc : {"new", "opened", "streaming", "ending", "over"},
             c : 0 .. MaxStreams, result : Outcomes]
Live(c)  == stream.up /\ stream.n = c
Waiting  == {f \in Fetches : fetch[f].pc \in {"opened", "streaming"}}

RecordingsInit ==
  /\ fetch = [f \in Fetches |-> [pc |-> "new", c |-> 0, result |-> "none"]]
  /\ body = [f \in Fetches |-> <<>>]
  /\ slot = NoFetch /\ chan = [f \in Fetches |-> <<>>]
  /\ stream = [n |-> 0, up |-> FALSE] /\ serving = 0
  /\ asked = 0 /\ serves = <<>> /\ sent = [c \in Streams |-> <<>>]
  /\ shared = {} /\ stranded = {} /\ holed = {}

----------------------------------------------------------------------------
(* download_recording and the body stream.                                 *)

\* No other request is open, and nothing of an earlier one is on its way.
Quiet ==
  /\ \A g \in Fetches : fetch[g].pc \in {"new", "over"}
  /\ asked = 0 /\ serves = <<>> /\ \A c \in Streams : sent[c] = <<>>

\* The row is found and names a recording.  The agent is looked up, and the slot
\* taken from whoever has it.
Open(f) ==
  /\ fetch[f].pc = "new"
  /\ IF serving = 0
     THEN /\ fetch' = [fetch EXCEPT ![f].pc = "over", ![f].result = "refused"]
          /\ UNCHANGED <<slot, shared>>
     ELSE /\ fetch' = [fetch EXCEPT ![f].pc = "opened", ![f].c = serving]
          /\ slot' = f
          /\ shared' = IF Quiet THEN shared ELSE shared \cup {f}
  /\ UNCHANGED <<body, chan, streams, replies, stranded, holed>>

\* try_send; a refused frame ends the request, its guard still to be dropped.  A
\* stream that is gone may still take the frame into a buffer nobody reads.
Ask(f) ==
  /\ fetch[f].pc = "opened"
  /\ \E ok \in BOOLEAN :
       /\ Live(fetch[f].c) => ok = (asked < FetchCap)
       /\ asked' = IF Live(fetch[f].c) /\ ok THEN asked + 1 ELSE asked
       /\ stranded' = IF ok /\ ~Live(fetch[f].c) THEN stranded \cup {f} ELSE stranded
       /\ fetch' = [fetch EXCEPT ![f].pc = IF ok THEN "streaming" ELSE "ending",
                                 ![f].result = IF ok THEN @ ELSE "refused"]
  /\ UNCHANGED <<body, channel, streams, serves, sent, shared, holed>>

End(f, result) == fetch' = [fetch EXCEPT ![f].pc = "ending", ![f].result = result]

\* Mutant: no Content-Length for anyone, so that any body that ends in order is whole.
Ended_AnyLength(f) == "whole"

\* The end of the body: a length other than the header's is an error to the browser
\* that has the header.
Ended(f) == IF f \in Plain => Len(body[f]) = FileChunks THEN "whole" ELSE "broken"

\* One poll of the body stream.
Poll(f) ==
  /\ fetch[f].pc = "streaming" /\ chan[f] # <<>>
  /\ chan' = [chan EXCEPT ![f] = Tail(@)]
  /\ CASE Head(chan[f]) = Eof   -> End(f, Ended(f)) /\ UNCHANGED body
       [] Head(chan[f]) = Error -> End(f, "broken") /\ UNCHANGED body
       [] OTHER -> body' = [body EXCEPT ![f] = Append(@, Head(chan[f]))] /\ UNCHANGED fetch
  /\ UNCHANGED <<slot, streams, replies, recordingsHist>>

\* The sender is gone and the channel drained: "recording stream ended early".
PollClosed(f) ==
  /\ fetch[f].pc = "streaming" /\ chan[f] = <<>> /\ slot # f
  /\ End(f, "broken")
  /\ UNCHANGED <<body, channel, streams, replies, recordingsHist>>

\* The browser goes away.
Hangup(f) ==
  /\ fetch[f].pc = "streaming" /\ End(f, "gone")
  /\ UNCHANGED <<body, channel, streams, replies, recordingsHist>>

\* Receiver and guard are dropped: the session's slot goes, whoever holds it.
DropGuard(f) ==
  /\ fetch[f].pc = "ending"
  /\ fetch' = [fetch EXCEPT ![f].pc = "over"]
  /\ slot' = NoFetch /\ chan' = [chan EXCEPT ![f] = <<>>]
  /\ UNCHANGED <<body, streams, replies, recordingsHist>>

----------------------------------------------------------------------------
(* The agent.                                                              *)

\* handle_panel_msg spawns a task per request.
Serve ==
  /\ stream.up /\ asked > 0
  /\ asked' = asked - 1 /\ serves' = Append(serves, 1)
  /\ UNCHANGED <<handlers, channel, streams, sent, recordingsHist>>

Send(reply) ==
  /\ Len(sent[stream.n]) < FetchUpCap
  /\ sent' = [sent EXCEPT ![stream.n] = Append(@, reply)]
  /\ UNCHANGED <<handlers, channel, streams, asked, recordingsHist>>

\* The next chunk of the file.
SendChunk(i) ==
  /\ serves[i] < Eof
  /\ Send(serves[i]) /\ serves' = [serves EXCEPT ![i] = @ + 1]

SendEof(i) ==
  /\ serves[i] = Eof
  /\ Send(Eof) /\ serves' = RemoveAt(serves, i)

\* Mutant: the task returns without a final frame.
FinalFrame_Missing == UNCHANGED <<handlers, channel, streams, asked, sent, recordingsHist>>

FinalFrame == Send(Error)

\* The file cannot be found, opened or read: "reported in-band via the same final frame".
SendError(i) == FinalFrame /\ serves' = RemoveAt(serves, i)

ServeStep == stream.up /\ \E i \in DOMAIN serves : SendChunk(i) \/ SendEof(i) \/ SendError(i)

----------------------------------------------------------------------------
(* The panel's inbound loops, and the streams.                             *)

HasRoom(f) == Len(chan[f]) < ChanCap

\* deliver_chunk: to whoever holds the slot, dropped when its channel is full.
Deliver(c) ==
  /\ sent[c] # <<>> /\ sent' = [sent EXCEPT ![c] = Tail(@)]
  /\ LET full == slot # NoFetch /\ ~HasRoom(slot)
         final == Head(sent[c]) \in {Eof, Error}
     IN /\ holed' = IF full THEN holed \cup {slot} ELSE holed
        /\ chan' = IF slot = NoFetch \/ full THEN chan
                   ELSE [chan EXCEPT ![slot] = Append(@, Head(sent[c]))]
        /\ stranded' = IF full /\ final THEN stranded \cup {slot} ELSE stranded
  /\ UNCHANGED <<handlers, slot, streams, asked, serves, shared>>

LoopEnds ==
  /\ serving # 0 /\ ~Live(serving) /\ sent[serving] = <<>>
  /\ serving' = 0
  /\ UNCHANGED <<handlers, channel, stream, replies, recordingsHist>>

StreamUp ==
  /\ ~stream.up /\ stream.n < MaxStreams
  /\ stream' = [n |-> stream.n + 1, up |-> TRUE] /\ serving' = stream.n + 1
  /\ UNCHANGED <<handlers, channel, replies, recordingsHist>>

\* The panel still receives some of what was sent; the tasks' sends fail.
StreamDown ==
  /\ stream.up /\ stream' = [stream EXCEPT !.up = FALSE]
  /\ \E n \in 0 .. Len(sent[stream.n]) :
       sent' = [sent EXCEPT ![stream.n] = SubSeq(@, 1, n)]
  /\ asked' = 0 /\ serves' = <<>>
  /\ stranded' = stranded \cup Waiting
  /\ UNCHANGED <<handlers, channel, serving, shared, holed>>

----------------------------------------------------------------------------
RecordingsNext ==
  \/ \E f \in Fetches :
       Open(f) \/ Ask(f) \/ Poll(f) \/ PollClosed(f) \/ Hangup(f) \/ DropGuard(f)
  \/ Serve \/ ServeStep
  \/ \E c \in Streams : Deliver(c)
  \/ LoopEnds \/ StreamUp \/ StreamDown

RecordingsSpec == RecordingsInit /\ [][RecordingsNext]_recordingsVars

\* Handlers and tasks that have begun go on, and the server polls a body whose
\* browser is there to take it.
RecordingsFairness ==
  /\ \A f \in Fetches :
       /\ WF_recordingsVars(Ask(f)) /\ WF_recordingsVars(DropGuard(f))
       /\ WF_recordingsVars(Poll(f)) /\ WF_recordingsVars(PollClosed(f))
  /\ WF_recordingsVars(Serve) /\ WF_recordingsVars(ServeStep)
  /\ \A c \in Streams : WF_recordingsVars(Deliver(c))

RecordingsFairSpec == RecordingsSpec /\ RecordingsFairness

----------------------------------------------------------------------------
(* Properties.                                                             *)

\* Every variable keeps its type, and no channel holds more than it can.
RecordingsTypeOK ==
  /\ fetch \in [Fetches -> Fetch] /\ body \in [Fetches -> Seq(1 .. FileChunks)]
  /\ slot \in Fetches \cup {NoFetch}
  /\ chan \in [Fetches -> Seq(Replies)] /\ \A f \in Fetches : Len(chan[f]) <= ChanCap
  /\ stream \in [n : 0 .. MaxStreams, up : BOOLEAN] /\ serving \in 0 .. MaxStreams
  /\ asked \in 0 .. FetchCap /\ serves \in Seq(1 .. Eof)
  /\ sent \in [Streams -> Seq(Replies)]
  /\ {shared, stranded, holed} \subseteq SUBSET Fetches

IsTheFile(f) == body[f] = [n \in 1 .. FileChunks |-> n]

\* A stream that died, a read that failed, a request that superseded it and, for
\* a client that is told the length, chunks dropped by a full channel never leave
\* a body that passes for the file, if nothing else was fetched meanwhile.
WholeIsTheFile ==
  \A f \in Fetches \ shared :
    fetch[f].result = "whole" /\ (f \in Plain \/ f \notin holed) => IsTheFile(f)

\* "so the client sees an incomplete download rather than a silent success"
\* (terminals.rs:199-201): WholeIsTheFile for every client.  The code does not keep
\* it: the drop of deliver_chunk reaches nobody, and the length that would give it
\* away is gone from a compressed answer.
NoSilentSuccess ==
  \A f \in Fetches \ shared : fetch[f].result = "whole" => IsTheFile(f)

\* "the panel never has to wait for a timeout": a download whose stream lives and
\* whose final frame is not dropped comes to an end, whatever becomes of the file,
\* of the browser and of the requests that supersede it.
FetchEnds ==
  \A f \in Fetches :
    fetch[f].pc = "streaming" ~> (fetch[f].pc = "over" \/ f \in stranded)

\* "A second request supersedes the first by replacing the channel": the end of
\* the older one leaves the newer one its slot.
NewerFetchKeepsSlot ==
  [][\A f \in Fetches :
       (slot = f /\ fetch[f].pc = "streaming") => slot' # NoFetch]_recordingsVars
============================================================================
