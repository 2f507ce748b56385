--------------------------- MODULE TerminalProofs ---------------------------
(* What the terminal hub promises for any number of sessions, users,        *)
(* streams and channel sizes: types and bounds, no slot without its bridge, *)
(* no session left half open, recordings kept, closed rows final.           *)
EXTENDS Terminal, FiniteSetTheorems, TLAPS

----------------------------------------------------------------------------
(* Queues.                                                                  *)

LEMMA AppendSeq ==
  ASSUME NEW S, NEW q \in Seq(S), NEW x \in S
  PROVE  /\ Append(q, x) \in Seq(S) /\ Len(Append(q, x)) = Len(q) + 1
         /\ Append(q, x)[Len(q) + 1] = x
         /\ \A i \in 1 .. Len(q) : Append(q, x)[i] = q[i]
OBVIOUS

LEMMA TailSeq ==
  ASSUME NEW S, NEW q \in Seq(S), q # <<>>
  PROVE  /\ Tail(q) \in Seq(S) /\ Len(Tail(q)) = Len(q) - 1
         /\ Head(q) = q[1] /\ Head(q) \in S /\ Len(q) \in Nat \ {0}
         /\ \A i \in 1 .. Len(Tail(q)) : i + 1 \in 1 .. Len(q) /\ Tail(q)[i] = q[i + 1]
         /\ \A i \in 1 .. Len(q) : i = 1 \/ (i - 1 \in 1 .. Len(Tail(q)) /\ q[i] = Tail(q)[i - 1])
OBVIOUS

LEMMA EmptySeq ==
  ASSUME NEW S
  PROVE  <<>> \in Seq(S) /\ Len(<<>>) = 0
OBVIOUS

LEMMA PrefixSeq ==
  ASSUME NEW S, NEW q \in Seq(S), NEW n \in 0 .. Len(q)
  PROVE  /\ SubSeq(q, 1, n) \in Seq(S) /\ Len(SubSeq(q, 1, n)) = n
         /\ \A i \in 1 .. n : SubSeq(q, 1, n)[i] = q[i] /\ i \in 1 .. Len(q)
OBVIOUS

LEMMA SuffixSeq ==
  ASSUME NEW S, NEW q \in Seq(S), NEW n \in 0 .. Len(q)
  PROVE  /\ SubSeq(q, n + 1, Len(q)) \in Seq(S) /\ Len(SubSeq(q, n + 1, Len(q))) = Len(q) - n
         /\ \A i \in (n + 1) .. Len(q) :
              i - n \in 1 .. (Len(q) - n) /\ SubSeq(q, n + 1, Len(q))[i - n] = q[i]
OBVIOUS

----------------------------------------------------------------------------
(* Types.                                                                   *)

LEMMA Bounds ==
  /\ SessionsPerUser \in Nat \ {0} /\ SessionsPerAgent \in Nat \ {0}
  /\ QueueCap \in Nat \ {0} /\ UpCap \in Nat \ {0} /\ FrameCap \in Nat \ {0}
  /\ StdinCap \in Nat \ {0} /\ EofTicks \in Nat \ {0} /\ MaxConns \in Nat /\ MaxRestarts \in Nat
BY TerminalAssumption

FramesOK ==
  /\ frames \in [Sessions -> Seq({"output", "closed"})]
  /\ \A s \in Sessions : Len(frames[s]) <= FrameCap

PanelOK == ws \in [Sessions -> Handlers] /\ slots \subseteq Sessions /\ inbound \in [Conns -> Loops]
RowOK   == row \in [Sessions -> Rows]
WireOK  == link \in BOOLEAN /\ conn \in 0 .. MaxConns /\ hub \in 0 .. MaxConns /\ (link => conn # 0)
DownOK  == down \in Seq(DownFrames) /\ Len(down) <= QueueCap
UpOK    == up \in [Conns -> Seq(UpFrames)] /\ \A c \in Conns : Len(up[c]) <= UpCap
AgentOK == mgr \subseteq Sessions /\ IsFiniteSet(mgr) /\ pty \in [Sessions -> Ptys]
HistOK  == {reported, lost, unclosed} \subseteq SUBSET Sessions /\ restarts \in 0 .. MaxRestarts

\* The type invariant, in parts; a stream that is up has a number, and the
\* Manager holds finitely many sessions, so their number means something.
Types == FramesOK /\ PanelOK /\ RowOK /\ WireOK /\ DownOK /\ UpOK /\ AgentOK /\ HistOK

\* A part whose variables a step leaves alone.
LEMMA FrameOK ==
  /\ FramesOK /\ UNCHANGED frames => FramesOK'
  /\ PanelOK /\ UNCHANGED <<ws, slots, inbound>> => PanelOK'
  /\ RowOK /\ UNCHANGED row => RowOK'
  /\ WireOK /\ UNCHANGED wire => WireOK'
  /\ DownOK /\ UNCHANGED down => DownOK'
  /\ UpOK /\ UNCHANGED up => UpOK'
  /\ AgentOK /\ UNCHANGED agent => AgentOK'
  /\ HistOK /\ UNCHANGED hist => HistOK'
BY DEF FramesOK, PanelOK, RowOK, WireOK, DownOK, UpOK, AgentOK, HistOK, wire, agent, hist

\* AgentSession::try_send keeps the queue within its buffer.
LEMMA TrySendOK ==
  ASSUME DownOK, NEW c, NEW f \in DownFrames, NEW ok \in BOOLEAN, TrySend(c, f, ok)
  PROVE  DownOK'
<1>1. CASE down' = down
  BY <1>1 DEF DownOK
<1>2. CASE down' = Append(down, f) /\ Len(down) < QueueCap
  BY <1>2, AppendSeq, TerminalAssumption DEF DownOK
<1> QED
  BY <1>1, <1>2 DEF TrySend

\* A frame put on the stream fits into its channel.
LEMMA UpAppendOK ==
  ASSUME UpOK, NEW c \in Conns, NEW f \in UpFrames, Len(up[c]) < UpCap,
         up' = [up EXCEPT ![c] = Append(@, f)]
  PROVE  UpOK'
<1>1. up[c] \in Seq(UpFrames)
  BY DEF UpOK
<1>2. Append(up[c], f) \in Seq(UpFrames) /\ Len(Append(up[c], f)) <= UpCap
  BY <1>1, AppendSeq, TerminalAssumption
<1> QED
  BY <1>2 DEF UpOK

\* What is left of a stream that dies.
LEMMA UpCutOK ==
  ASSUME UpOK, NEW c \in Conns, NEW n \in 0 .. Len(up[c]),
         up' = [up EXCEPT ![c] = SubSeq(@, 1, n)]
  PROVE  UpOK'
<1>1. up[c] \in Seq(UpFrames) /\ Len(up[c]) <= UpCap
  BY DEF UpOK
<1>2. SubSeq(up[c], 1, n) \in Seq(UpFrames) /\ Len(SubSeq(up[c], 1, n)) <= UpCap
  BY <1>1, PrefixSeq, TerminalAssumption
<1> QED
  BY <1>2 DEF UpOK

\* The sessions a queue of reports names.
LEMMA SessionsInOK ==
  ASSUME NEW q \in Seq(UpFrames)
  PROVE  SessionsIn(q) \subseteq Sessions
<1> SUFFICES ASSUME NEW i \in DOMAIN q PROVE q[i].s \in Sessions
  BY DEF SessionsIn
<1>1. q[i] \in UpFrames
  OBVIOUS
<1> QED
  BY <1>1 DEF UpFrames

\* Manager and pty tasks when the stream goes.
LEMMA ReleasedOK ==
  ASSUME AgentOK
  PROVE  /\ Released \in [Sessions -> Ptys]
         /\ \A s \in Sessions : /\ Released[s].pc = pty[s].pc /\ Released[s].c = pty[s].c
                                /\ Released[s].error = pty[s].error
                                /\ Released[s].shell = pty[s].shell
                                /\ s \in mgr => ~Released[s].held
                                /\ Released[s].held => pty[s].held
BY DEF AgentOK, Released, Ptys

\* A record of a pty task with some of its fields written.
LEMMA NoPtyOK == NoPty \in Ptys /\ NoPty.pc = "none" /\ NoPty.held = FALSE
BY Bounds DEF NoPty, Ptys

PtyStates ==
  {"none", "spawn", "run", "flush", "write", "ending", "reaped", "report", "done"}

LEMMA Zeroes == 0 \in 0 .. EofTicks /\ 0 \in 0 .. StdinCap /\ 0 \in 0 .. MaxConns /\ 0 \in 0 .. MaxRestarts
BY Bounds

LEMMA PtyWithState ==
  ASSUME NEW p \in Ptys, NEW pc \in PtyStates
  PROVE  /\ [p EXCEPT !.pc = pc] \in Ptys
         /\ [p EXCEPT !.pc = pc, !.quiet = 0] \in Ptys
         /\ [p EXCEPT !.pc = pc].pc = pc /\ [p EXCEPT !.pc = pc, !.quiet = 0].pc = pc
BY Zeroes DEF Ptys, PtyStates

LEMMA PtyWithStdin ==
  ASSUME NEW p \in Ptys, NEW pc \in PtyStates, NEW n \in 0 .. StdinCap
  PROVE  /\ [p EXCEPT !.pc = pc, !.quiet = 0, !.stdin = n] \in Ptys
         /\ [p EXCEPT !.pc = pc, !.quiet = 0, !.stdin = n].pc = pc
BY Zeroes DEF Ptys, PtyStates

LEMMA PtyWithError ==
  ASSUME NEW p \in Ptys, NEW pc \in PtyStates, NEW e \in BOOLEAN
  PROVE  /\ [p EXCEPT !.pc = pc, !.quiet = 0, !.stdin = 0, !.error = e] \in Ptys
         /\ [p EXCEPT !.pc = pc, !.quiet = 0, !.stdin = 0, !.error = e].pc = pc
         /\ [p EXCEPT !.pc = pc, !.error = e, !.stdin = 0] \in Ptys
         /\ [p EXCEPT !.pc = pc, !.error = e, !.stdin = 0].pc = pc
BY Zeroes DEF Ptys, PtyStates

LEMMA PtyWithShell ==
  ASSUME NEW p \in Ptys, NEW pc \in PtyStates, NEW b \in BOOLEAN
  PROVE  /\ [p EXCEPT !.pc = pc, !.shell = b, !.reader = b] \in Ptys
         /\ [p EXCEPT !.pc = pc, !.shell = b, !.reader = b].pc = pc
BY DEF Ptys, PtyStates

LEMMA PtyWithOne ==
  ASSUME NEW p \in Ptys, NEW b \in BOOLEAN, NEW n \in 0 .. StdinCap, NEW q \in 0 .. EofTicks
  PROVE  /\ [p EXCEPT !.reader = b] \in Ptys /\ [p EXCEPT !.reader = b].pc = p.pc
         /\ [p EXCEPT !.held = b] \in Ptys
         /\ [p EXCEPT !.stdin = n] \in Ptys
         /\ [p EXCEPT !.quiet = q] \in Ptys /\ [p EXCEPT !.quiet = q].pc = p.pc
BY DEF Ptys

LEMMA PtyOpened ==
  ASSUME NEW p \in Ptys, NEW pc \in PtyStates, NEW c \in 0 .. MaxConns,
         NEW e \in BOOLEAN
  PROVE  [p EXCEPT !.pc = pc, !.c = c, !.held = ~e, !.error = e] \in Ptys
BY DEF Ptys, PtyStates

LEMMA InitTypes == Init => Types
<1> SUFFICES ASSUME Init PROVE Types
  OBVIOUS
<1>1. NoPty \in Ptys /\ Resting \in Loops
  BY TerminalAssumption DEF NoPty, Resting, Ptys, Loops
<1>2. FramesOK /\ PanelOK /\ RowOK
  BY <1>1, TerminalAssumption DEF Init, FramesOK, PanelOK, RowOK, Handlers, Rows
<1>3. WireOK /\ DownOK /\ UpOK /\ AgentOK /\ HistOK
  <2>1. WireOK /\ DownOK
    <3>1. WireOK
      BY Zeroes DEF Init, WireOK
    <3>2. DownOK
      BY Bounds, EmptySeq DEF Init, DownOK
    <3> QED
      BY <3>1, <3>2
  <2>2. UpOK
    BY Bounds DEF Init, UpOK
  <2>3. AgentOK /\ HistOK
    BY <1>1, Bounds, Zeroes, FS_EmptySet DEF Init, AgentOK, HistOK
  <2> QED
    BY <2>1, <2>2, <2>3
<1> QED
  BY <1>2, <1>3 DEF Types

\* The WebSocket handlers.
LEMMA HandlerTypes ==
  ASSUME Types, NEW s \in Sessions,
         \/ WsCheck(s) \/ WsAbandon(s) \/ Handler(s)
         \/ BridgeRead(s) \/ BridgeInput(s) \/ BridgeLeave(s)
  PROVE  Types'
<1> USE FrameOK DEF Types
<1>1. ASSUME NEW k \in {"open", "input", "close"}
      PROVE  Frame(k, s) \in DownFrames
  BY DEF Frame, DownFrames
<1>2. ASSUME NEW pc \in {"checked", "ready", "inserted", "sealing", "over"}, Step(s, pc)
      PROVE  ws' \in [Sessions -> Handlers]
  BY <1>2 DEF Step, PanelOK, Handlers
<1>3. CASE WsCheck(s) \/ WsAbandon(s)
  BY <1>2, <1>3 DEF WsCheck, WsAbandon, PanelOK
<1>4. CASE WsLookup(s)
  <2>1. ws' \in [Sessions -> Handlers]
    BY <1>4 DEF WsLookup, PanelOK, WireOK, Handlers
  <2> QED
    BY <1>4, <2>1 DEF WsLookup, PanelOK
<1>5. CASE WsInsert(s)
  BY <1>2, <1>5 DEF WsInsert, PanelOK, RowOK, Rows
<1>6. CASE WsOpen(s)
  <2>1. PICK ok \in BOOLEAN :
          /\ TrySend(ws[s].c, Frame("open", s), ok)
          /\ ws' = [ws EXCEPT ![s].pc = AfterOpen(ok)]
          /\ slots' = SlotsAfterOpen(s, ok)
    BY <1>6 DEF WsOpen
  <2>2. DownOK'
    BY <1>1, <2>1, TrySendOK
  <2>3. PanelOK'
    BY <1>6, <2>1 DEF WsOpen, PanelOK, AfterOpen, SlotsAfterOpen, Handlers
  <2> QED
    BY <1>6, <2>2, <2>3 DEF WsOpen
<1>7. CASE WsSeal(s)
  <2>1. RowOK'
    BY <1>7 DEF WsSeal, RowOK, SealedByPanel, Rows
  <2>2. FramesOK'
    BY <1>7, TerminalAssumption DEF WsSeal, FramesOK
  <2> QED
    BY <1>2, <1>7, <2>1, <2>2 DEF WsSeal, PanelOK
<1>8. CASE BridgeRead(s)
  <2>1. FramesOK'
    <3>1. frames[s] \in Seq({"output", "closed"}) /\ frames[s] # <<>> /\ Len(frames[s]) <= FrameCap
      BY <1>8 DEF BridgeRead, FramesOK
    <3>2. Tail(frames[s]) \in Seq({"output", "closed"}) /\ Len(Tail(frames[s])) <= FrameCap
      BY <3>1, TailSeq, TerminalAssumption
    <3> QED
      BY <1>8, <3>2 DEF BridgeRead, FramesOK
  <2> QED
    BY <1>2, <1>8, <2>1 DEF BridgeRead, PanelOK
<1>9. CASE BridgeInput(s)
  <2>1. DownOK'
    BY <1>1, <1>9, TrySendOK DEF BridgeInput
  <2> QED
    BY <1>9, <2>1 DEF BridgeInput, panel
<1>10. CASE BridgeLeave(s)
  <2>1. DownOK'
    BY <1>1, <1>10, TrySendOK DEF BridgeLeave
  <2>2. PanelOK' /\ HistOK'
    BY <1>2, <1>10 DEF BridgeLeave, PanelOK, HistOK
  <2> QED
    BY <1>10, <2>1, <2>2 DEF BridgeLeave
<1> QED
  BY <1>3, <1>4, <1>5, <1>6, <1>7, <1>8, <1>9, <1>10 DEF Handler

\* The panel's inbound loops.
LEMMA InboundTypes ==
  ASSUME Types, NEW c \in Conns, Inbound(c)
  PROVE  Types'
<1> USE FrameOK DEF Types
<1>0. inbound[c] \in Loops /\ Resting \in Loops
  BY DEF PanelOK, Resting, Loops
<1>1. ASSUME NEW s \in Sessions, NEW x \in {"output", "closed"}, Len(frames[s]) < FrameCap,
             frames' = [frames EXCEPT ![s] = Append(@, x)]
      PROVE  FramesOK'
  <2>1. frames[s] \in Seq({"output", "closed"})
    BY DEF FramesOK
  <2>2. Append(frames[s], x) \in Seq({"output", "closed"}) /\ Len(Append(frames[s], x)) <= FrameCap
    BY <1>1, <2>1, AppendSeq, TerminalAssumption
  <2> QED
    BY <1>1, <2>2 DEF FramesOK
<1>2. CASE InboundTake(c)
  <2> DEFINE f == Head(up[c])
  <2>1. up[c] \in Seq(UpFrames) /\ up[c] # <<>> /\ Len(up[c]) <= UpCap
    BY <1>2 DEF InboundTake, UpOK
  <2>2. f \in UpFrames /\ Tail(up[c]) \in Seq(UpFrames) /\ Len(Tail(up[c])) <= UpCap
    BY <2>1, TailSeq, TerminalAssumption
  <2>3. UpOK'
    BY <1>2, <2>2 DEF InboundTake, UpOK
  <2>4. f.s \in Sessions /\ f.error \in BOOLEAN /\ f.recording \in BOOLEAN
    BY <2>2 DEF UpFrames
  <2>5. FramesOK'
    <3>1. CASE frames' = frames
      BY <3>1
    <3>2. CASE frames' = [frames EXCEPT ![f.s] = Append(@, "output")] /\ Len(frames[f.s]) < FrameCap
      BY <1>1, <2>4, <3>2
    <3> QED
      BY <1>2, <3>1, <3>2 DEF InboundTake, Delivered
  <2>6. PanelOK'
    BY <1>2, <2>4 DEF InboundTake, PanelOK, Loops
  <2> QED
    BY <1>2, <2>3, <2>5, <2>6 DEF InboundTake
<1>3. ASSUME NEW s \in Sessions, InboundSeal(c, s)
      PROVE  Types'
  <2>1. RowOK'
    <3>1. inbound[c].error \in BOOLEAN /\ inbound[c].recording \in BOOLEAN /\ row[s] \in Rows
      BY <1>0 DEF Loops, RowOK
    <3>2. SealedByAgent(row[s], inbound[c]) \in Rows
      BY <3>1 DEF SealedByAgent, Rows
    <3> QED
      BY <1>3, <3>2 DEF InboundSeal, RowOK
  <2>2. PanelOK'
    BY <1>0, <1>3 DEF InboundSeal, PanelOK, Loops
  <2> QED
    BY <1>3, <2>1, <2>2 DEF InboundSeal
<1>4. ASSUME NEW s \in Sessions, InboundForward(c, s)
      PROVE  Types'
  <2>1. [inbound[c] EXCEPT !.pc = "send"] \in Loops
    BY <1>0 DEF Loops
  <2>2. PanelOK'
    BY <1>0, <1>4, <2>1 DEF InboundForward, PanelOK
  <2> QED
    BY <1>4, <2>2 DEF InboundForward
<1>5. ASSUME NEW s \in Sessions, InboundSend(c, s)
      PROVE  Types'
  <2>1. FramesOK'
    BY <1>1, <1>5 DEF InboundSend
  <2>2. PanelOK'
    BY <1>0, <1>5 DEF InboundSend, PanelOK
  <2> QED
    BY <1>5, <2>1, <2>2 DEF InboundSend
<1> QED
  BY <1>2, <1>3, <1>4, <1>5 DEF Inbound

\* The agent's Manager.
LEMMA ManageTypes ==
  ASSUME Types, Manage
  PROVE  Types'
<1> USE FrameOK DEF Types
<1>1. ASSUME NEW k, NEW s, Taken(k, s)
      PROVE  DownOK'
  BY <1>1, TailSeq, TerminalAssumption DEF Taken, DownOK
<1>2. ASSUME NEW s \in Sessions, AgentOpen(s)
      PROVE  Types'
  <2> DEFINE full == Cardinality(mgr) >= SessionsPerAgent
             new  == [NoPty EXCEPT !.pc = IF full THEN "report" ELSE "spawn",
                                   !.c = conn, !.held = ~full, !.error = full]
  <2>1. new \in Ptys
    <3> DEFINE pc == IF full THEN "report" ELSE "spawn"
    <3>1. Cardinality(mgr) \in Nat
      BY FS_CardinalityType DEF AgentOK
    <3>2. full \in BOOLEAN /\ pc \in PtyStates
      <4>1. full \in BOOLEAN
        BY <3>1, Bounds
      <4> HIDE DEF full
      <4>2. pc \in PtyStates
        BY <4>1 DEF PtyStates
      <4> HIDE DEF pc
      <4> QED
        BY <4>1, <4>2
    <3>3. conn \in 0 .. MaxConns
      BY DEF WireOK
    <3> HIDE DEF full, pc
    <3>4. [NoPty EXCEPT !.pc = pc, !.c = conn, !.held = ~full, !.error = full] \in Ptys
      BY <3>2, <3>3, NoPtyOK, PtyOpened
    <3> QED
      BY <3>4 DEF pc
  <2>2. pty' = [pty EXCEPT ![s] = new] /\ mgr' \subseteq mgr \cup {s}
    BY <1>2 DEF AgentOpen
  <2> HIDE DEF new
  <2>3. AgentOK'
    <3>1. IsFiniteSet(mgr \cup {s})
      BY FS_AddElement DEF AgentOK
    <3>2. IsFiniteSet(mgr')
      BY <2>2, <3>1, FS_Subset
    <3> QED
      BY <2>1, <2>2, <3>2 DEF AgentOK
  <2> QED
    BY <1>1, <1>2, <2>3 DEF AgentOpen, panel
<1>3. ASSUME NEW s \in Sessions, AgentInput(s)
      PROVE  Types'
  <2>1. CASE pty' = pty
    BY <1>1, <1>3, <2>1 DEF AgentInput, AgentOK, panel
  <2>2. CASE pty' # pty
    <3>1. pty' = [pty EXCEPT ![s].stdin = @ + 1] /\ pty[s].stdin < StdinCap
      BY <1>3, <2>2 DEF AgentInput
    <3>2. PICK n : n = pty[s].stdin + 1
      OBVIOUS
    <3>3. pty[s] \in Ptys /\ n \in 0 .. StdinCap
      BY <1>3, <3>1, <3>2, Bounds DEF Ptys, AgentOK
    <3>5. pty' = [pty EXCEPT ![s] = [@ EXCEPT !.stdin = n]]
      BY <3>1, <3>2
    <3>6. [pty[s] EXCEPT !.stdin = n] \in Ptys
      BY <3>3, Zeroes, PtyWithOne
    <3>4. AgentOK'
      BY <1>3, <3>5, <3>6 DEF AgentInput, AgentOK
    <3> QED
      BY <1>1, <1>3, <3>4 DEF AgentInput, panel
  <2> QED
    BY <2>1, <2>2
<1>4. ASSUME NEW s \in Sessions, AgentClose(s)
      PROVE  Types'
  <2>1. PICK b : b = (pty[s].held /\ s \notin mgr)
    OBVIOUS
  <2>2. pty' = [pty EXCEPT ![s] = [@ EXCEPT !.held = b]]
    BY <1>4, <2>1 DEF AgentClose
  <2>3. pty[s] \in Ptys /\ b \in BOOLEAN
    BY <1>4, <2>1, Zenon DEF AgentOK
  <2>4. [pty[s] EXCEPT !.held = b] \in Ptys
    BY <2>3, Zeroes, PtyWithOne
  <2>5. AgentOK'
    BY <1>4, <2>2, <2>4, FS_Subset DEF AgentClose, AgentOK
  <2> QED
    BY <1>1, <1>4, <2>5 DEF AgentClose, panel
<1> QED
  BY <1>2, <1>3, <1>4 DEF Manage

\* The steps of a pty task that put output on its stream.
Flushes(s) == PtyOutput(s) \/ PtyFlush(s) \/ PtyReap(s)

OutputOf(s) == [kind |-> "output", s |-> s, error |-> FALSE, recording |-> FALSE]

LEMMA FlushEffect ==
  ASSUME Types, NEW s \in Sessions, Flushes(s)
  PROVE  /\ OutputOf(s) \in UpFrames
         /\ UNCHANGED <<panel, row, wire, down, mgr, hist>>
         /\ \/ UNCHANGED up
            \/ /\ link /\ conn = pty[s].c /\ pty[s].c \in Conns /\ Len(up[pty[s].c]) < UpCap
               /\ up' = [up EXCEPT ![pty[s].c] = Append(@, OutputOf(s))]
<1>1. Output(s) = OutputOf(s) /\ OutputOf(s) \in UpFrames
  BY DEF Output, OutputOf, UpFrames
<1>2. UNCHANGED <<panel, row, wire, down, mgr, hist>>
  BY DEF Flushes, PtyOutput, PtyFlush, PtyReap, agent
<1>3. UNCHANGED up \/ Emit(s, Output(s))
  BY DEF Flushes, PtyOutput, PtyFlush, PtyReap
<1>4. Streaming(s) => pty[s].c \in Conns
  BY TerminalAssumption DEF Streaming, Types, WireOK, Conns
<1> QED
  BY <1>1, <1>2, <1>3, <1>4 DEF Emit, Room, Streaming

\* A task that has begun goes on, and is not as if it had never been.
LEMMA TaskEffect ==
  ASSUME Types, NEW s \in Sessions, ReaderEnds(s) \/ PtyTask(s)
  PROVE  /\ pty[s].pc \notin {"none", "done"} /\ UNCHANGED mgr
         /\ \E p \in Ptys : p.pc # "none" /\ pty' = [pty EXCEPT ![s] = p]
<1> DEFINE Moved == \E p \in Ptys : p.pc # "none" /\ pty' = [pty EXCEPT ![s] = p]
<1>0. pty \in [Sessions -> Ptys] /\ pty[s] \in Ptys /\ pty[s].stdin \in 0 .. StdinCap
  BY DEF Types, AgentOK, Ptys
<1>a. ASSUME NEW p \in Ptys, p.pc # "none", pty' = [pty EXCEPT ![s] = p]
      PROVE  Moved
  BY <1>a
<1> HIDE DEF Moved
<1>1. ASSUME NEW pc \in PtyStates \ {"none"}, Become(s, pc)
      PROVE  Moved
  <2>1. PICK p : p = [pty[s] EXCEPT !.pc = pc, !.quiet = 0]
    OBVIOUS
  <2>2. p \in Ptys /\ p.pc # "none"
    BY <1>0, <1>1, <2>1, PtyWithState
  <2>3. pty' = [pty EXCEPT ![s] = p]
    BY <1>0, <1>1, <2>1 DEF Become
  <2> QED
    BY <1>a, <2>2, <2>3
<1>2. ASSUME NEW e, Leave(s, e), e \in BOOLEAN
      PROVE  Moved
  <2>1. PICK p : p = [pty[s] EXCEPT !.pc = "ending", !.quiet = 0, !.stdin = 0, !.error = e]
    OBVIOUS
  <2>2. p \in Ptys /\ p.pc # "none"
    BY <1>0, <1>2, <2>1, PtyWithError DEF PtyStates
  <2>3. pty' = [pty EXCEPT ![s] = p]
    BY <1>0, <1>2, <2>1 DEF Leave
  <2> QED
    BY <1>a, <2>2, <2>3
<1>3. ASSUME UNCHANGED pty, pty[s].pc # "none"
      PROVE  Moved
  BY <1>0, <1>3, <1>a
<1>4. pty[s].pc \notin {"none", "done"}
  BY DEF ReaderEnds, PtyTask, PtySpawn, PtyOutput, PtyStall, PtyFlush, PtyLoop, PtyWrite,
         PtyQuiet, PtyTick, PtyTimeout, PtyClosed, PtyWritten, PtyReap, PtyJoin, PtyReport
<1>5. CASE PtyStall(s) \/ PtyTick(s) \/ PtyJoin(s) \/ PtyFlush(s) \/ PtyReap(s)
  <2>1. \E pc \in {"flush", "run", "report", "reaped"} : Become(s, pc)
    BY <1>5 DEF PtyStall, PtyTick, PtyJoin, PtyFlush, PtyReap
  <2>2. UNCHANGED mgr
    BY <1>5 DEF PtyStall, PtyTick, PtyJoin, PtyFlush, PtyReap
  <2> QED
    BY <1>1, <1>4, <2>1, <2>2 DEF PtyStates, Moved
<1>6. CASE PtyTimeout(s) \/ PtyClosed(s)
  <2>1. \E e \in {TRUE, FALSE, pty[s].stdin > 0} : Leave(s, e)
    BY <1>6 DEF PtyTimeout, PtyClosed
  <2>2. (pty[s].stdin > 0) \in BOOLEAN
    BY <1>0
  <2>3. UNCHANGED mgr
    BY <1>6 DEF PtyTimeout, PtyClosed
  <2> QED
    BY <1>2, <1>4, <2>1, <2>2, <2>3 DEF Moved
<1>7. CASE PtyWritten(s)
  BY <1>1, <1>2, <1>4, <1>7 DEF PtyWritten, PtyStates, Moved
<1>8. CASE PtyOutput(s)
  BY <1>3, <1>4, <1>8 DEF PtyOutput, agent, Moved
<1>9. CASE PtySpawn(s)
  <2>1. CASE pty' = [pty EXCEPT ![s].pc = "run", ![s].shell = TRUE, ![s].reader = TRUE]
    <3>1. PICK p : p = [pty[s] EXCEPT !.pc = "run", !.shell = TRUE, !.reader = TRUE]
      OBVIOUS
    <3>2. p \in Ptys /\ p.pc # "none"
      BY <1>0, <3>1, PtyWithShell DEF PtyStates
    <3>3. pty' = [pty EXCEPT ![s] = p]
      BY <1>0, <2>1, <3>1
    <3> QED
      BY <1>4, <1>9, <1>a, <3>2, <3>3 DEF PtySpawn, Moved
  <2>2. CASE pty' = [pty EXCEPT ![s].pc = "report", ![s].error = TRUE, ![s].stdin = 0]
    <3>1. PICK p : p = [pty[s] EXCEPT !.pc = "report", !.error = TRUE, !.stdin = 0]
      OBVIOUS
    <3>2. p \in Ptys /\ p.pc # "none"
      BY <1>0, <3>1, PtyWithError DEF PtyStates
    <3>3. pty' = [pty EXCEPT ![s] = p]
      BY <1>0, <2>2, <3>1
    <3> QED
      BY <1>4, <1>9, <1>a, <3>2, <3>3 DEF PtySpawn, Moved
  <2> QED
    BY <1>4, <1>9, <2>1, <2>2 DEF PtySpawn, Moved
<1>10. CASE PtyWrite(s)
  <2>1. PICK n : n = pty[s].stdin - 1
    OBVIOUS
  <2>2. n \in 0 .. StdinCap
    BY <1>0, <1>10, <2>1, Bounds DEF PtyWrite
  <2>3. PICK p : p = [pty[s] EXCEPT !.pc = "write", !.quiet = 0, !.stdin = n]
    OBVIOUS
  <2>4. p \in Ptys /\ p.pc # "none"
    BY <1>0, <2>2, <2>3, PtyWithStdin DEF PtyStates
  <2>5. pty' = [pty EXCEPT ![s] = p]
    BY <1>0, <1>10, <2>1, <2>3 DEF PtyWrite
  <2> QED
    BY <1>4, <1>10, <1>a, <2>4, <2>5 DEF PtyWrite, Moved
<1>11. CASE ReaderEnds(s)
  <2>1. PICK p : p = [pty[s] EXCEPT !.reader = FALSE]
    OBVIOUS
  <2>2. p \in Ptys /\ p.pc # "none"
    BY <1>0, <1>4, <2>1, Zeroes, PtyWithOne
  <2>3. pty' = [pty EXCEPT ![s] = p]
    BY <1>0, <1>11, <2>1 DEF ReaderEnds
  <2> QED
    BY <1>4, <1>11, <1>a, <2>2, <2>3 DEF ReaderEnds, Moved
<1>12. CASE PtyQuiet(s)
  <2>1. PICK q : q = pty[s].quiet + 1
    OBVIOUS
  <2>2. q \in 0 .. EofTicks
    BY <1>0, <1>12, <2>1, Bounds DEF Ptys, PtyQuiet
  <2>3. PICK p : p = [pty[s] EXCEPT !.quiet = q]
    OBVIOUS
  <2>4. p \in Ptys /\ p.pc # "none"
    BY <1>0, <1>4, <2>2, <2>3, Zeroes, PtyWithOne
  <2>5. pty' = [pty EXCEPT ![s] = p]
    BY <1>0, <1>12, <2>1, <2>3 DEF PtyQuiet
  <2> QED
    BY <1>4, <1>12, <1>a, <2>4, <2>5 DEF PtyQuiet, Moved
<1>13. CASE PtyReport(s)
  <2>1. PICK p : p = [NoPty EXCEPT !.pc = "done"]
    OBVIOUS
  <2>2. p \in Ptys /\ p.pc # "none"
    BY <2>1, NoPtyOK, PtyWithState DEF PtyStates
  <2>3. pty' = [pty EXCEPT ![s] = p]
    BY <1>13, <2>1 DEF PtyReport
  <2> QED
    BY <1>4, <1>13, <1>a, <2>2, <2>3 DEF PtyReport, Moved
<1> QED
  BY <1>5, <1>6, <1>7, <1>8, <1>9, <1>10, <1>11, <1>12, <1>13 DEF PtyTask, PtyLoop

\* The pty tasks.
LEMMA PtyTypes ==
  ASSUME Types, NEW s \in Sessions, ReaderEnds(s) \/ PtyTask(s)
  PROVE  Types'
<1> USE FrameOK
<1>0. pty \in [Sessions -> Ptys] /\ pty[s] \in Ptys
  BY DEF Types, AgentOK
<1>1. AgentOK'
  <2>1. PICK p \in Ptys : pty' = [pty EXCEPT ![s] = p]
    BY TaskEffect
  <2> QED
    BY <1>0, <2>1, TaskEffect DEF Types, AgentOK
<1>2. CASE Flushes(s)
  <2>1. UpOK'
    BY <1>2, FlushEffect, UpAppendOK DEF Types
  <2> QED
    BY <1>1, <1>2, <2>1, FlushEffect DEF Types, panel
<1>3. CASE PtyReport(s)
  <2> DEFINE c == pty[s].c
  <2>2. CASE link /\ conn = c
    <3>1. PICK rec \in {FALSE, pty[s].shell} :
            /\ up' = [up EXCEPT ![c] = Append(@, [kind |-> "closed", s |-> s,
                        error |-> pty[s].error, recording |-> rec])]
            /\ reported' = IF rec THEN reported \cup {s} ELSE reported
      BY <1>3, <2>2 DEF PtyReport
    <3> DEFINE f == [kind |-> "closed", s |-> s, error |-> pty[s].error, recording |-> rec]
    <3>2. f \in UpFrames
      BY <1>0 DEF UpFrames, Ptys
    <3>3. c \in Conns /\ Len(up[c]) < UpCap
      BY <1>0, <1>3, <2>2, TerminalAssumption DEF PtyReport, Ptys, Conns, Types, WireOK
    <3>4. UpOK'
      BY <3>1, <3>2, <3>3, UpAppendOK DEF Types
    <3>5. HistOK'
      BY <1>3, <2>2, <3>1 DEF PtyReport, Types, HistOK
    <3> QED
      BY <1>3, <1>1, <3>4, <3>5 DEF PtyReport, Types, panel
  <2>3. CASE ~(link /\ conn = c)
    <3>1. HistOK'
      BY <1>3, <2>3 DEF PtyReport, Types, HistOK
    <3> QED
      BY <1>3, <1>1, <2>3, <3>1 DEF PtyReport, Types, panel
  <2> QED
    BY <2>2, <2>3
<1>4. CASE ~Flushes(s) /\ ~PtyReport(s)
  <2>1. UNCHANGED <<panel, row, wire, down, up, hist>>
    BY <1>4 DEF ReaderEnds, PtyTask, Flushes, PtySpawn, PtyStall, PtyLoop, PtyWrite, PtyQuiet,
                PtyTick, PtyTimeout, PtyClosed, PtyWritten, PtyJoin
  <2> QED
    BY <1>1, <2>1 DEF Types, panel
<1> QED
  BY <1>2, <1>3, <1>4

\* The stream comes and goes.
LEMMA StreamTypes ==
  ASSUME Types, InboundEnd \/ Connect \/ Disconnect
  PROVE  Types'
<1> USE FrameOK DEF Types
<1>1. CASE InboundEnd
  BY <1>1, TerminalAssumption DEF InboundEnd, WireOK, panel
<1>2. CASE Connect
  BY <1>2, TerminalAssumption DEF Connect, WireOK, panel
<1>3. CASE Disconnect
  <2>1. conn \in Conns
    BY <1>3, TerminalAssumption DEF Disconnect, WireOK, Conns
  <2>2. PICK n \in 0 .. Len(up[conn]) :
          /\ up' = [up EXCEPT ![conn] = SubSeq(@, 1, n)]
          /\ lost' = lost \cup SessionsIn(SubSeq(up[conn], n + 1, Len(up[conn])))
    BY <1>3 DEF Disconnect
  <2>3. UpOK'
    BY <2>1, <2>2, UpCutOK
  <2>4. SubSeq(up[conn], n + 1, Len(up[conn])) \in Seq(UpFrames)
    BY <2>1, <2>2, SuffixSeq DEF UpOK
  <2>5. HistOK'
    BY <1>3, <2>2, <2>4, SessionsInOK DEF Disconnect, HistOK
  <2>6. AgentOK' /\ DownOK' /\ WireOK'
    <3>1. AgentOK'
      BY <1>3, ReleasedOK, FS_EmptySet DEF Disconnect, AgentOK
    <3>2. DownOK'
      BY <1>3, Bounds, EmptySeq DEF Disconnect, DownOK
    <3>3. WireOK'
      BY <1>3 DEF Disconnect, WireOK
    <3> QED
      BY <3>1, <3>2, <3>3
  <2> QED
    BY <1>3, <2>3, <2>5, <2>6 DEF Disconnect, panel
<1> QED
  BY <1>1, <1>2, <1>3

\* The two processes end.
LEMMA RestartTypes ==
  ASSUME Types, AgentRestart \/ PanelRestart
  PROVE  Types'
<1> USE FrameOK DEF Types
<1>1. CASE AgentRestart
  <2> DEFINE cut == {s \in Sessions : pty[s].pc \notin {"none", "done"}}
             dead == [NoPty EXCEPT !.pc = "done"]
  <2>1. dead \in Ptys
    BY NoPtyOK, PtyWithState DEF PtyStates
  <2>2. pty' = [s \in Sessions |-> IF s \in cut THEN dead ELSE pty[s]]
    BY <1>1 DEF AgentRestart
  <2> HIDE DEF dead
  <2>3. AgentOK' /\ DownOK' /\ WireOK'
    <3>1. AgentOK'
      BY <1>1, <2>1, <2>2, FS_EmptySet DEF AgentRestart, AgentOK
    <3>2. DownOK'
      BY <1>1, Bounds, EmptySeq DEF AgentRestart, DownOK
    <3>3. WireOK'
      BY <1>1 DEF AgentRestart, WireOK
    <3> QED
      BY <3>1, <3>2, <3>3
  <2>4. UpOK' /\ lost' \subseteq Sessions
    <3>1. CASE ~link
      BY <1>1, <3>1 DEF AgentRestart, UpOK, HistOK
    <3>2. CASE link
      <4>1. conn \in Conns
        BY <3>2, TerminalAssumption DEF WireOK, Conns
      <4>2. PICK n \in 0 .. Len(up[conn]) :
              /\ up' = [up EXCEPT ![conn] = SubSeq(@, 1, n)]
              /\ lost' = lost \cup cut \cup SessionsIn(SubSeq(up[conn], n + 1, Len(up[conn])))
        BY <1>1, <3>2 DEF AgentRestart
      <4>3. SubSeq(up[conn], n + 1, Len(up[conn])) \in Seq(UpFrames)
        BY <4>1, <4>2, SuffixSeq DEF UpOK
      <4> QED
        BY <4>1, <4>2, <4>3, UpCutOK, SessionsInOK DEF HistOK
    <3> QED
      BY <3>1, <3>2
  <2>5. HistOK'
    BY <1>1, <2>4, TerminalAssumption DEF AgentRestart, HistOK
  <2> QED
    BY <1>1, <2>3, <2>4, <2>5 DEF AgentRestart, panel
<1>2. CASE PanelRestart
  <2>1. PanelOK' /\ FramesOK'
    <3>1. \A s \in Sessions : [ws[s] EXCEPT !.pc = "cut"] \in Handlers
      BY DEF PanelOK, Handlers
    <3>2. Resting \in Loops
      BY DEF Resting, Loops
    <3>3. PanelOK'
      BY <1>2, <3>1, <3>2 DEF PanelRestart, PanelOK
    <3>4. FramesOK'
      BY <1>2, Bounds DEF PanelRestart, FramesOK
    <3> QED
      BY <3>3, <3>4
  <2>2. AgentOK' /\ DownOK' /\ WireOK' /\ UpOK'
    <3>1. AgentOK'
      BY <1>2, ReleasedOK, FS_EmptySet DEF PanelRestart, AgentOK
    <3>2. DownOK'
      BY <1>2, Bounds, EmptySeq DEF PanelRestart, DownOK
    <3>3. WireOK'
      BY <1>2, Zeroes DEF PanelRestart, WireOK
    <3>4. UpOK'
      BY <1>2, Bounds DEF PanelRestart, UpOK
    <3> QED
      BY <3>1, <3>2, <3>3, <3>4
  <2>3. \A c \in Conns : SessionsIn(up[c]) \cup inbound[c].of \subseteq Sessions
    BY SessionsInOK DEF UpOK, PanelOK, Loops
  <2>4. lost' \subseteq Sessions
    BY <1>2, <2>3 DEF PanelRestart, HistOK
  <2>5. HistOK'
    BY <1>2, <2>4, TerminalAssumption DEF PanelRestart, HistOK
  <2> QED
    BY <1>2, <2>1, <2>2, <2>5 DEF PanelRestart
<1> QED
  BY <1>1, <1>2

LEMMA NextTypes ==
  ASSUME Types, [Next]_vars
  PROVE  Types'
<1>1. CASE UNCHANGED vars
  BY <1>1, FrameOK DEF Types, vars, panel
<1> QED
  BY <1>1, HandlerTypes, InboundTypes, ManageTypes, PtyTypes, StreamTypes, RestartTypes
     DEF Next

LEMMA TypesInvariant == Spec => []Types
<1>1. Types /\ [Next]_vars => Types'
  BY NextTypes
<1> QED
  BY <1>1, InitTypes, PTL DEF Spec

\* Every variable keeps its type, and no channel of the terminal pipeline ever
\* holds more than its capacity.
THEOREM TypeCorrect == Spec => []TypeOK
<1>1. Types => TypeOK
  BY DEF Types, TypeOK, FramesOK, PanelOK, RowOK, WireOK, DownOK, UpOK, AgentOK, HistOK
<1> QED
  BY <1>1, TypesInvariant, PTL

----------------------------------------------------------------------------
(* Which action writes which variable.                                      *)

Resters == Disconnect \/ AgentRestart \/ PanelRestart

LEMMA WhoWrites ==
  ASSUME [Next]_vars
  PROVE  /\ \/ UNCHANGED ws \/ PanelRestart
            \/ \E s \in Sessions : WsCheck(s) \/ WsAbandon(s) \/ Handler(s)
                                   \/ BridgeRead(s) \/ BridgeLeave(s)
         /\ \/ UNCHANGED slots \/ PanelRestart
            \/ \E s \in Sessions : WsOpen(s) \/ BridgeLeave(s)
            \/ \E c \in Conns, s \in Sessions : InboundForward(c, s)
         /\ \/ UNCHANGED row
            \/ \E s \in Sessions : WsInsert(s) \/ WsSeal(s)
            \/ \E c \in Conns, s \in Sessions : InboundSeal(c, s)
         /\ \/ UNCHANGED frames \/ PanelRestart
            \/ \E s \in Sessions : WsSeal(s) \/ BridgeRead(s)
            \/ \E c \in Conns : InboundTake(c) \/ \E s \in Sessions : InboundSend(c, s)
         /\ UNCHANGED inbound \/ PanelRestart \/ \E c \in Conns : Inbound(c)
         /\ \/ UNCHANGED down \/ Resters \/ Manage
            \/ \E s \in Sessions : WsOpen(s) \/ BridgeInput(s) \/ BridgeLeave(s)
         /\ \/ UNCHANGED up \/ Resters
            \/ \E c \in Conns : InboundTake(c)
            \/ \E s \in Sessions : Flushes(s) \/ PtyReport(s)
         /\ \/ UNCHANGED pty \/ Resters \/ Manage
            \/ \E s \in Sessions : ReaderEnds(s) \/ PtyTask(s)
         /\ \/ UNCHANGED <<reported, lost>> \/ Resters
            \/ \E s \in Sessions : PtyReport(s)
<1> USE DEF Resters
<1>1. ASSUME NEW s \in Sessions, WsCheck(s) \/ WsLookup(s) \/ WsAbandon(s)
      PROVE  UNCHANGED <<slots, row, frames, inbound, down, up, pty, reported, lost>>
  BY <1>1 DEF WsCheck, WsLookup, WsAbandon, agent, hist
<1>2. ASSUME NEW s \in Sessions, WsInsert(s)
      PROVE  UNCHANGED <<slots, frames, inbound, down, up, pty, reported, lost>>
  BY <1>2 DEF WsInsert, agent, hist
<1>3. ASSUME NEW s \in Sessions, WsOpen(s)
      PROVE  UNCHANGED <<row, frames, inbound, up, pty, reported, lost>>
  BY <1>3 DEF WsOpen, agent, hist
<1>4. ASSUME NEW s \in Sessions, WsSeal(s)
      PROVE  UNCHANGED <<slots, inbound, down, up, pty, reported, lost>>
  BY <1>4 DEF WsSeal, agent, hist
<1>5. ASSUME NEW s \in Sessions, BridgeRead(s)
      PROVE  UNCHANGED <<slots, row, inbound, down, up, pty, reported, lost>>
  BY <1>5 DEF BridgeRead, agent, hist
<1>6. ASSUME NEW s \in Sessions, BridgeInput(s)
      PROVE  UNCHANGED <<ws, slots, row, frames, inbound, up, pty, reported, lost>>
  BY <1>6 DEF BridgeInput, panel, agent, hist
<1>7. ASSUME NEW s \in Sessions, BridgeLeave(s)
      PROVE  UNCHANGED <<row, frames, inbound, up, pty, reported, lost>>
  BY <1>7 DEF BridgeLeave, agent
<1>8. ASSUME NEW s \in Sessions, ReaderEnds(s) \/ PtyTask(s), ~Flushes(s), ~PtyReport(s)
      PROVE  UNCHANGED <<ws, slots, row, frames, inbound, down, up, reported, lost>>
  BY <1>8 DEF ReaderEnds, PtyTask, Flushes, PtySpawn, PtyStall, PtyLoop, PtyWrite, PtyQuiet,
              PtyTick, PtyTimeout, PtyClosed, PtyWritten, PtyJoin, panel, hist
<1>9. ASSUME NEW s \in Sessions, Flushes(s)
      PROVE  UNCHANGED <<ws, slots, row, frames, inbound, down, reported, lost>>
  BY <1>9 DEF Flushes, PtyOutput, PtyFlush, PtyReap, panel, agent, hist
<1>10. ASSUME NEW s \in Sessions, PtyReport(s)
       PROVE  UNCHANGED <<ws, slots, row, frames, inbound, down>>
  BY <1>10 DEF PtyReport, panel
<1>11. ASSUME NEW c \in Conns, InboundTake(c)
       PROVE  UNCHANGED <<ws, slots, row, down, pty, reported, lost>>
  BY <1>11 DEF InboundTake, agent, hist
<1>12. ASSUME NEW c \in Conns, NEW s \in Sessions, InboundSeal(c, s)
       PROVE  UNCHANGED <<ws, slots, frames, down, up, pty, reported, lost>>
  BY <1>12 DEF InboundSeal, agent, hist
<1>13. ASSUME NEW c \in Conns, NEW s \in Sessions, InboundForward(c, s)
       PROVE  UNCHANGED <<ws, row, frames, down, up, pty, reported, lost>>
  BY <1>13 DEF InboundForward, agent, hist
<1>14. ASSUME NEW c \in Conns, NEW s \in Sessions, InboundSend(c, s)
       PROVE  UNCHANGED <<ws, slots, row, down, up, pty, reported, lost>>
  BY <1>14 DEF InboundSend, agent, hist
<1>15. CASE Manage
  BY <1>15 DEF Manage, AgentOpen, AgentInput, AgentClose, panel, hist
<1>16. CASE InboundEnd \/ Connect
  BY <1>16 DEF InboundEnd, Connect, panel, agent, hist
<1>17. CASE Disconnect \/ AgentRestart
  BY <1>17 DEF Disconnect, AgentRestart, panel
<1>18. CASE PanelRestart
  BY <1>18 DEF PanelRestart
<1>19. CASE UNCHANGED vars
  BY <1>19 DEF vars, panel, agent, hist
<1>20. ASSUME NEW s \in Sessions, WsCheck(s) \/ WsAbandon(s) \/ Handler(s)
       PROVE  UNCHANGED <<inbound, up, pty, reported, lost>>
  BY <1>1, <1>2, <1>3, <1>4, <1>20 DEF Handler
<1>21. ASSUME NEW c \in Conns, Inbound(c)
       PROVE  UNCHANGED <<ws, down, pty, reported, lost>>
  BY <1>11, <1>12, <1>13, <1>14, <1>21 DEF Inbound
<1> HIDE DEF Resters
<1> QED
  BY <1>1, <1>2, <1>3, <1>4, <1>5, <1>6, <1>7, <1>8, <1>9, <1>10, <1>11, <1>12, <1>13, <1>14,
     <1>15, <1>16, <1>17, <1>18, <1>19, <1>20, <1>21
     DEF Next, Handler, Inbound, PtyTask, Flushes, Resters

----------------------------------------------------------------------------
(* What a step does to one session and to one stream.                       *)

\* The handler of s has not reached the frame that opens the session.
Early(s) == ws[s].pc \in {"new", "checked", "ready", "inserted"}

LEMMA EarlyBefore ==
  ASSUME Types, [Next]_vars, NEW s \in Sessions, Early(s)'
  PROVE  /\ Early(s)
         /\ ~WsOpen(s) /\ ~WsSeal(s) /\ ~BridgeRead(s) /\ ~BridgeInput(s) /\ ~BridgeLeave(s)
         /\ ws'[s].pc # "inserted" => ws[s].pc # "inserted" /\ ~WsInsert(s)
<1>0. ws \in [Sessions -> Handlers]
  BY DEF Types, PanelOK
<1>1. ~WsOpen(s) /\ ~WsSeal(s) /\ ~BridgeRead(s) /\ ~BridgeInput(s) /\ ~BridgeLeave(s)
  <2>1. WsOpen(s) => ws'[s].pc \in {"bridge", "sealing"}
    BY <1>0 DEF WsOpen, AfterOpen, Handlers
  <2>2. WsSeal(s) \/ BridgeLeave(s) => ws'[s].pc \in {"over", "sealing"}
    BY <1>0 DEF WsSeal, BridgeLeave, Step, Handlers
  <2>3. BridgeRead(s) \/ BridgeInput(s) => ws'[s].pc \in {"bridge", "over"}
    BY <1>0 DEF BridgeRead, BridgeInput, Step, Handlers, panel
  <2> QED
    BY <2>1, <2>2, <2>3 DEF Early
<1>2. WsInsert(s) => ws'[s].pc = "inserted"
  BY <1>0 DEF WsInsert, Step, Handlers
<1>3. Early(s) /\ (ws[s].pc = "inserted" => ws'[s].pc = "inserted")
  <2>1. CASE UNCHANGED ws \/ PanelRestart
    <3>1. [ws[s] EXCEPT !.pc = "cut"].pc = "cut"
      BY <1>0 DEF Handlers
    <3>2. PanelRestart => ws'[s] = ws[s] \/ ws'[s].pc = "cut"
      BY <3>1 DEF PanelRestart
    <3> QED
      BY <2>1, <3>2 DEF Early
  <2>2. ASSUME NEW t \in Sessions, WsCheck(t) \/ WsAbandon(t) \/ WsLookup(t) \/ WsInsert(t)
        PROVE  ws[s] = ws'[s] \/ ws[s].pc \in {"new", "checked", "ready"}
    BY <1>0, <2>2 DEF WsCheck, WsAbandon, WsLookup, WsInsert, Step
  <2>3. ASSUME NEW t \in Sessions, WsOpen(t) \/ WsSeal(t) \/ BridgeRead(t) \/ BridgeLeave(t)
        PROVE  ws[s] = ws'[s]
    <3>1. t # s
      BY <1>1, <2>3
    <3>2. UNCHANGED ws \/ \E x : ws' = [ws EXCEPT ![t].pc = x]
      BY <2>3 DEF WsOpen, WsSeal, BridgeRead, BridgeLeave, Step
    <3> QED
      BY <1>0, <3>1, <3>2
  <2> QED
    BY <2>1, <2>2, <2>3, WhoWrites DEF Handler, Early
<1> QED
  BY <1>1, <1>2, <1>3

\* A slot is taken only as its session opens.
LEMMA SlotStep ==
  ASSUME [Next]_vars, NEW s \in slots', s \notin slots
  PROVE  WsOpen(s)
<1>1. ASSUME NEW t \in Sessions, WsOpen(t)
      PROVE  WsOpen(s)
  BY <1>1 DEF WsOpen, SlotsAfterOpen
<1>2. ~UNCHANGED slots /\ ~PanelRestart
  BY DEF PanelRestart
<1>3. ASSUME NEW t \in Sessions, BridgeLeave(t) \/ \E c \in Conns : InboundForward(c, t)
      PROVE  FALSE
  BY <1>3 DEF BridgeLeave, InboundForward
<1> QED
  BY <1>1, <1>2, <1>3, WhoWrites

\* The bridge's channel of s.
LEMMA FramesStep ==
  ASSUME Types, [Next]_vars, NEW s \in Sessions
  PROVE  \/ frames'[s] = frames[s] \/ frames'[s] = <<>>
         \/ frames[s] # <<>> /\ frames'[s] = Tail(frames[s])
         \/ s \in slots /\ frames'[s] = Append(frames[s], "output")
         \/ \E c \in Conns : InboundSend(c, s) /\ frames'[s] = Append(frames[s], "closed")
<1>0. frames \in [Sessions -> Seq({"output", "closed"})]
  BY DEF Types, FramesOK
<1>1. CASE UNCHANGED frames \/ PanelRestart
  BY <1>1 DEF PanelRestart
<1>2. ASSUME NEW t \in Sessions, WsSeal(t) \/ BridgeRead(t)
      PROVE  \/ frames'[s] = frames[s] \/ frames'[s] = <<>>
             \/ frames[s] # <<>> /\ frames'[s] = Tail(frames[s])
  BY <1>0, <1>2 DEF WsSeal, BridgeRead
<1>3. ASSUME NEW c \in Conns, InboundTake(c)
      PROVE  \/ frames'[s] = frames[s]
             \/ s \in slots /\ frames'[s] = Append(frames[s], "output")
  BY <1>0, <1>3 DEF InboundTake, Delivered
<1>4. ASSUME NEW c \in Conns, NEW t \in Sessions, InboundSend(c, t)
      PROVE  \/ frames'[s] = frames[s]
             \/ \E d \in Conns : InboundSend(d, s) /\ frames'[s] = Append(frames[s], "closed")
  BY <1>0, <1>4 DEF InboundSend
<1> QED
  BY <1>1, <1>2, <1>3, <1>4, WhoWrites

\* The row of s.
LEMMA RowStep ==
  ASSUME Types, [Next]_vars, NEW s \in Sessions
  PROVE  \/ row'[s] = row[s]
         \/ WsInsert(s) /\ row'[s] = [row[s] EXCEPT !.open = TRUE]
         \/ WsSeal(s) /\ row'[s] = SealedByPanel(row[s])
         \/ \E c \in Conns : InboundSeal(c, s) /\ row'[s] = SealedByAgent(row[s], inbound[c])
<1>0. row \in [Sessions -> Rows]
  BY DEF Types, RowOK
<1>1. ASSUME NEW t \in Sessions, WsInsert(t) \/ WsSeal(t)
      PROVE  \/ row'[s] = row[s]
             \/ WsInsert(s) /\ row'[s] = [row[s] EXCEPT !.open = TRUE]
             \/ WsSeal(s) /\ row'[s] = SealedByPanel(row[s])
  BY <1>0, <1>1 DEF WsInsert, WsSeal
<1>2. ASSUME NEW c \in Conns, NEW t \in Sessions, InboundSeal(c, t)
      PROVE  \/ row'[s] = row[s]
             \/ InboundSeal(c, s) /\ row'[s] = SealedByAgent(row[s], inbound[c])
  BY <1>0, <1>2 DEF InboundSeal
<1> QED
  BY <1>1, <1>2, WhoWrites

\* What the two ends write into a row.
LEMMA SealedFields ==
  ASSUME NEW r \in Rows
  PROVE  /\ SealedByPanel(r).closed /\ SealedByPanel(r).recording = r.recording
         /\ SealedByPanel(r).open = r.open
         /\ r.closed => SealedByPanel(r) = r
         /\ ~r.closed => SealedByPanel(r).error # "none"
         /\ [r EXCEPT !.open = TRUE].closed = r.closed
         /\ [r EXCEPT !.open = TRUE].error = r.error
         /\ [r EXCEPT !.open = TRUE].recording = r.recording
BY DEF SealedByPanel, Rows

LEMMA AgentSeals ==
  ASSUME NEW r \in Rows, NEW m \in Loops
  PROVE  /\ SealedByAgent(r, m).closed /\ SealedByAgent(r, m).open = r.open
         /\ SealedByAgent(r, m).recording = (r.recording \/ m.recording)
         /\ r.error # "none" => SealedByAgent(r, m).error = r.error
         /\ ~m.error => SealedByAgent(r, m).error = r.error
BY DEF SealedByAgent, Rows, Loops

\* The loop of stream c.
LEMMA InboundStep ==
  ASSUME Types, [Next]_vars, NEW c \in Conns
  PROVE  \/ inbound'[c] = inbound[c]
         \/ InboundTake(c)
         \/ \E s \in Sessions : InboundSeal(c, s) \/ InboundForward(c, s) \/ InboundSend(c, s)
         \/ PanelRestart /\ inbound'[c] = Resting
<1>0. inbound \in [Conns -> Loops]
  BY DEF Types, PanelOK
<1>1. CASE PanelRestart
  BY <1>1 DEF PanelRestart
<1>2. ASSUME NEW d \in Conns, d # c, InboundTake(d)
      PROVE  inbound'[c] = inbound[c]
  BY <1>0, <1>2 DEF InboundTake
<1>3. ASSUME NEW d \in Conns, d # c, NEW s \in Sessions,
             InboundSeal(d, s) \/ InboundForward(d, s) \/ InboundSend(d, s)
      PROVE  inbound'[c] = inbound[c]
  BY <1>0, <1>3 DEF InboundSeal, InboundForward, InboundSend
<1> QED
  BY <1>1, <1>2, <1>3, WhoWrites DEF Inbound

\* The queue to the agent.
LEMMA DownStep ==
  ASSUME [Next]_vars
  PROVE  \/ down' = down \/ down' = <<>>
         \/ down # <<>> /\ down' = Tail(down)
         \/ \E s \in Sessions : WsOpen(s) /\ down' = Append(down, Frame("open", s))
         \/ \E s \in Sessions : /\ BridgeInput(s) \/ BridgeLeave(s)
                                /\ \E k \in {"input", "close"} : down' = Append(down, Frame(k, s))
<1>1. CASE Resters
  BY <1>1 DEF Resters, Disconnect, AgentRestart, PanelRestart
<1>2. CASE Manage
  BY <1>2 DEF Manage, AgentOpen, AgentInput, AgentClose, Taken
<1>3. ASSUME NEW s \in Sessions, WsOpen(s)
      PROVE  down' = down \/ down' = Append(down, Frame("open", s))
  BY <1>3 DEF WsOpen, TrySend
<1>4. ASSUME NEW s \in Sessions, BridgeInput(s)
      PROVE  down' = down \/ down' = Append(down, Frame("input", s))
  BY <1>4 DEF BridgeInput, TrySend
<1>5. ASSUME NEW s \in Sessions, BridgeLeave(s)
      PROVE  down' = down \/ down' = Append(down, Frame("close", s))
  BY <1>5 DEF BridgeLeave, TrySend
<1> QED
  BY <1>1, <1>2, <1>3, <1>4, <1>5, WhoWrites

LEMMA WholeSeq ==
  ASSUME NEW S, NEW q \in Seq(S)
  PROVE  SubSeq(q, 1, Len(q)) = q /\ SubSeq(q, 1, 0) = <<>>
OBVIOUS

\* A task that reports is over.
LEMMA ReportEnds ==
  ASSUME Types, NEW s \in Sessions, PtyReport(s)
  PROVE  pty[s].pc = "report" /\ pty'[s].pc = "done"
<1>1. [NoPty EXCEPT !.pc = "done"].pc = "done"
  BY DEF NoPty
<1> QED
  BY <1>1 DEF PtyReport, Types, AgentOK

Report(s, rec) ==
  [kind |-> "closed", s |-> s, error |-> pty[s].error, recording |-> rec]

\* What stream c carries: a report that does not survive its stream is counted lost.
LEMMA UpStep ==
  ASSUME Types, [Next]_vars, NEW c \in Conns
  PROVE  \/ up'[c] = up[c] /\ (\A s \in Sessions : PtyReport(s) => c # pty[s].c \/ s \in lost')
         \/ InboundTake(c) /\ up[c] # <<>> /\ up'[c] = Tail(up[c])
         \/ \E s \in Sessions : Flushes(s) /\ up'[c] = Append(up[c], OutputOf(s))
         \/ \E s \in Sessions, rec \in BOOLEAN :
              /\ PtyReport(s) /\ c = pty[s].c /\ up'[c] = Append(up[c], Report(s, rec))
              /\ reported' = IF rec THEN reported \cup {s} ELSE reported
         \/ /\ Resters
            /\ \E n \in 0 .. Len(up[c]) :
                 /\ up'[c] = SubSeq(up[c], 1, n)
                 /\ SessionsIn(SubSeq(up[c], n + 1, Len(up[c]))) \subseteq lost'
<1>0. up \in [Conns -> Seq(UpFrames)] /\ up[c] \in Seq(UpFrames) /\ pty \in [Sessions -> Ptys]
  BY DEF Types, UpOK, AgentOK
<1>1. CASE UNCHANGED up
  <2>1. \A s \in Sessions : PtyReport(s) => s \in lost'
    <3> SUFFICES ASSUME NEW s \in Sessions, PtyReport(s), s \notin lost' PROVE FALSE
      OBVIOUS
    <3>1. link /\ conn = pty[s].c /\ \E f : up' = [up EXCEPT ![pty[s].c] = Append(@, f)]
      BY DEF PtyReport
    <3>2. pty[s].c \in Conns
      BY <1>0, <3>1 DEF Types, WireOK, Conns
    <3>3. PICK f : up'[pty[s].c] = Append(up[pty[s].c], f)
      BY <1>0, <3>1, <3>2
    <3>4. up[pty[s].c] \in Seq(UpFrames)
      BY <1>0, <3>2
    <3>5. Len(Append(up[pty[s].c], f)) = Len(up[pty[s].c]) + 1 /\ Len(up[pty[s].c]) \in Nat
      BY <3>4
    <3> QED
      BY <1>1, <3>3, <3>5
  <2> QED
    BY <1>1, <2>1
<1>2. ASSUME NEW d \in Conns, InboundTake(d)
      PROVE  \/ up'[c] = up[c] /\ d # c
             \/ InboundTake(c) /\ up[c] # <<>> /\ up'[c] = Tail(up[c])
  BY <1>0, <1>2 DEF InboundTake
<1>3. ASSUME NEW s \in Sessions, Flushes(s)
      PROVE  up'[c] = up[c] \/ up'[c] = Append(up[c], OutputOf(s))
  BY <1>0, <1>3, FlushEffect
<1>4. \A s \in Sessions : PtyReport(s) =>
        ~Resters /\ (\A d \in Conns : ~InboundTake(d)) /\ \A t \in Sessions : ~Flushes(t)
  <2> SUFFICES ASSUME NEW s \in Sessions, PtyReport(s)
               PROVE  ~Resters /\ (\A d \in Conns : ~InboundTake(d)) /\ \A t \in Sessions : ~Flushes(t)
    OBVIOUS
  <2>1. pty[s].pc = "report" /\ pty'[s].pc = "done" /\ link' = link /\ restarts' = restarts
    BY <1>0, ReportEnds DEF PtyReport, wire
  <2>2. restarts \in Nat
    BY Bounds DEF Types, HistOK
  <2> QED
    <3>1. ~Resters /\ \A d \in Conns : ~InboundTake(d)
      BY <2>1, <2>2 DEF Resters, Disconnect, AgentRestart, PanelRestart, InboundTake, agent
    <3>2. ASSUME NEW t \in Sessions, Flushes(t)
          PROVE  FALSE
      <4>1. pty[t].pc \in {"run", "flush", "ending"} /\ t # s
        BY <2>1, <3>2 DEF Flushes, PtyOutput, PtyFlush, PtyReap
      <4>2. pty'[s] = pty[s]
        BY <1>0, <3>2, <4>1 DEF Flushes, PtyOutput, PtyFlush, PtyReap, Become, agent
      <4> QED
        BY <2>1, <4>2
    <3> QED
      BY <3>1, <3>2
<1>5. ASSUME NEW s \in Sessions, PtyReport(s), ~UNCHANGED up
      PROVE  \/ up'[c] = up[c] /\ \A t \in Sessions : PtyReport(t) => t = s /\ c # pty[t].c
             \/ \E rec \in BOOLEAN :
                  /\ c = pty[s].c /\ up'[c] = Append(up[c], Report(s, rec))
                  /\ reported' = IF rec THEN reported \cup {s} ELSE reported
  <2>1. /\ link /\ conn = pty[s].c /\ Len(up[pty[s].c]) < UpCap
        /\ \E rec \in {FALSE, pty[s].shell} :
             /\ up' = [up EXCEPT ![pty[s].c] = Append(@, Report(s, rec))]
             /\ reported' = IF rec THEN reported \cup {s} ELSE reported
    BY <1>5 DEF PtyReport, Report
  <2>2. \A t \in Sessions : PtyReport(t) => t = s
    <3>1. pty[s].pc = "report" /\ pty'[s].pc = "done"
      BY <1>5, ReportEnds
    <3> QED
      BY <1>0, <1>5, <3>1 DEF PtyReport
  <2>3. PICK rec \in {FALSE, pty[s].shell} :
             /\ up' = [up EXCEPT ![pty[s].c] = Append(@, Report(s, rec))]
             /\ reported' = IF rec THEN reported \cup {s} ELSE reported
    BY <2>1
  <2>4. rec \in BOOLEAN
    BY <1>0 DEF Ptys
  <2>5. CASE c = pty[s].c
    BY <1>0, <2>1, <2>3, <2>4, <2>5
  <2>6. CASE c # pty[s].c
    BY <1>0, <2>2, <2>3, <2>6
  <2> QED
    BY <2>5, <2>6
<1>6. CASE Resters
  <2>1. CASE PanelRestart
    <3>1. up'[c] = SubSeq(up[c], 1, 0) /\ 0 \in 0 .. Len(up[c])
      BY <1>0, <2>1, WholeSeq DEF PanelRestart
    <3>2. SubSeq(up[c], 0 + 1, Len(up[c])) = up[c]
      BY <1>0, WholeSeq
    <3>3. SessionsIn(up[c]) \subseteq lost'
      BY <2>1 DEF PanelRestart
    <3> QED
      BY <1>6, <3>1, <3>2, <3>3
  <2>2. CASE Disconnect \/ AgentRestart
    <3>1. CASE link /\ c = conn
      BY <1>0, <1>6, <2>2, <3>1 DEF Disconnect, AgentRestart
    <3>2. CASE ~(link /\ c = conn)
      <4>1. up'[c] = up[c]
        BY <1>0, <2>2, <3>2 DEF Disconnect, AgentRestart
      <4> QED
        BY <1>4, <1>6, <4>1
    <3> QED
      BY <3>1, <3>2
  <2> QED
    BY <1>6, <2>1, <2>2 DEF Resters
<1> QED
  BY <1>1, <1>2, <1>3, <1>4, <1>5, <1>6, WhoWrites

\* What may become of a pty task.
LEMMA PtyStep ==
  ASSUME Types, [Next]_vars, NEW s \in Sessions
  PROVE  \/ pty'[s].pc = pty[s].pc
         \/ AgentOpen(s)
         \/ pty[s].pc \notin {"none", "done"} /\ pty'[s].pc # "none"
<1>0. pty \in [Sessions -> Ptys]
  BY DEF Types, AgentOK
<1>1. CASE Disconnect \/ PanelRestart
  <2>1. pty' = Released
    BY <1>1 DEF Disconnect, PanelRestart
  <2> QED
    BY <2>1, ReleasedOK DEF Types
<1>2. CASE AgentRestart
  <2>1. [NoPty EXCEPT !.pc = "done"].pc = "done"
    BY DEF NoPty
  <2> QED
    BY <1>2, <2>1 DEF AgentRestart
<1>3. ASSUME NEW t \in Sessions, AgentOpen(t) \/ AgentInput(t) \/ AgentClose(t), ~AgentOpen(s)
      PROVE  \/ pty'[s].pc = pty[s].pc
             \/ pty[s].pc \notin {"none", "done"} /\ pty'[s].pc # "none"
  <2>1. CASE AgentOpen(t)
    BY <1>0, <1>3, <2>1 DEF AgentOpen
  <2>2. CASE AgentInput(t)
    BY <1>0, <2>2 DEF AgentInput, Ptys
  <2>3. CASE AgentClose(t)
    BY <1>0, <2>3 DEF AgentClose, Ptys
  <2> QED
    BY <1>3, <2>1, <2>2, <2>3
<1>4. ASSUME NEW t \in Sessions, ReaderEnds(t) \/ PtyTask(t)
      PROVE  \/ pty'[s].pc = pty[s].pc
             \/ pty[s].pc \notin {"none", "done"} /\ pty'[s].pc # "none"
  <2>1. PICK p \in Ptys : p.pc # "none" /\ pty' = [pty EXCEPT ![t] = p]
    BY <1>4, TaskEffect
  <2> QED
    BY <1>0, <1>4, <2>1, TaskEffect
<1> QED
  BY <1>1, <1>2, <1>3, <1>4, WhoWrites DEF Manage, Resters

----------------------------------------------------------------------------
(* Nothing is known of a session before its frame has been sent.            *)

\* No slot, no frame in any channel, no task, no closed row.
Fresh(s) ==
  Early(s) =>
    /\ s \notin slots /\ frames[s] = <<>> /\ pty[s].pc = "none"
    /\ \A i \in DOMAIN down : down[i].s # s
    /\ \A c \in Conns : s \notin inbound[c].of /\ \A i \in DOMAIN up[c] : up[c][i].s # s
    /\ ws[s].pc # "inserted" => ~row[s].open
    /\ ~row[s].closed

LEMMA FreshDown ==
  ASSUME Types, [Next]_vars, NEW s \in Sessions, Fresh(s), Early(s)'
  PROVE  \A i \in DOMAIN down' : down'[i].s # s
<1>0. down \in Seq(DownFrames) /\ \A i \in DOMAIN down : down[i].s # s
  BY EarlyBefore DEF Types, DownOK, Fresh
<1>1. ASSUME NEW t \in Sessions, t # s, NEW k \in {"open", "input", "close"},
             down' = Append(down, Frame(k, t))
      PROVE  \A i \in DOMAIN down' : down'[i].s # s
  <2> DEFINE f == Frame(k, t)
  <2>1. f \in DownFrames /\ f.s = t
    BY DEF Frame, DownFrames
  <2> HIDE DEF f
  <2>2. down' = Append(down, f)
    BY <1>1 DEF f
  <2>3. \A i \in DOMAIN down' : i \in DOMAIN down \/ i = Len(down) + 1
    BY <1>0, <2>2
  <2>4. down'[Len(down) + 1] = f /\ \A i \in DOMAIN down : down'[i] = down[i]
    BY <1>0, <2>2
  <2> QED
    BY <1>0, <1>1, <2>1, <2>3, <2>4
<1>2. CASE down # <<>> /\ down' = Tail(down)
  <2>1. \A i \in DOMAIN down' : i + 1 \in DOMAIN down /\ down'[i] = down[i + 1]
    BY <1>0, <1>2
  <2> QED
    BY <1>0, <2>1
<1> QED
  BY <1>0, <1>1, <1>2, DownStep, EarlyBefore

LEMMA FreshUp ==
  ASSUME Types, [Next]_vars, NEW s \in Sessions, Fresh(s), Early(s)', NEW c \in Conns
  PROVE  \A i \in DOMAIN up'[c] : up'[c][i].s # s
<1>0. /\ up[c] \in Seq(UpFrames) /\ \A i \in DOMAIN up[c] : up[c][i].s # s
      /\ pty[s].pc = "none"
  BY EarlyBefore DEF Types, UpOK, Fresh
<1>1. ASSUME NEW f \in UpFrames, f.s # s, up'[c] = Append(up[c], f)
      PROVE  \A i \in DOMAIN up'[c] : up'[c][i].s # s
  <2>1. \A i \in DOMAIN up'[c] : i \in DOMAIN up[c] \/ i = Len(up[c]) + 1
    BY <1>0, <1>1
  <2>2. up'[c][Len(up[c]) + 1] = f /\ \A i \in DOMAIN up[c] : up'[c][i] = up[c][i]
    BY <1>0, <1>1
  <2> QED
    BY <1>0, <1>1, <2>1, <2>2
<1>2. CASE up[c] # <<>> /\ up'[c] = Tail(up[c])
  <2>1. \A i \in DOMAIN up'[c] : i + 1 \in DOMAIN up[c] /\ up'[c][i] = up[c][i + 1]
    BY <1>0, <1>2
  <2> QED
    BY <1>0, <2>1
<1>3. ASSUME NEW n \in 0 .. Len(up[c]), up'[c] = SubSeq(up[c], 1, n)
      PROVE  \A i \in DOMAIN up'[c] : up'[c][i].s # s
  BY <1>0, <1>3
<1>4. ASSUME NEW t \in Sessions, Flushes(t) \/ PtyReport(t)
      PROVE  /\ OutputOf(t) \in UpFrames /\ OutputOf(t).s # s
             /\ \A rec \in BOOLEAN : Report(t, rec) \in UpFrames /\ Report(t, rec).s # s
  <2>1. pty[t].pc # "none"
    BY <1>4 DEF Flushes, PtyOutput, PtyFlush, PtyReap, PtyReport
  <2>2. pty[t].error \in BOOLEAN
    BY DEF Types, AgentOK, Ptys
  <2> QED
    BY <1>0, <2>1, <2>2 DEF OutputOf, Report, UpFrames
<1> QED
  <2>1. CASE \E t \in Sessions : Flushes(t) /\ up'[c] = Append(up[c], OutputOf(t))
    BY <1>1, <1>4, <2>1
  <2>2. CASE \E t \in Sessions, rec \in BOOLEAN : PtyReport(t) /\ up'[c] = Append(up[c], Report(t, rec))
    BY <1>1, <1>4, <2>2
  <2> QED
    BY <1>0, <1>2, <1>3, <2>1, <2>2, UpStep

LEMMA FreshInbound ==
  ASSUME Types, [Next]_vars, NEW s \in Sessions, Fresh(s), Early(s)', NEW c \in Conns
  PROVE  s \notin inbound'[c].of
<1>0. /\ inbound \in [Conns -> Loops] /\ s \notin inbound[c].of
      /\ up[c] \in Seq(UpFrames) /\ \A i \in DOMAIN up[c] : up[c][i].s # s
  BY EarlyBefore DEF Types, UpOK, PanelOK, Fresh
<1>1. Resting.of = {}
  BY DEF Resting
<1>2. CASE InboundTake(c)
  <2>1. Head(up[c]).s # s
    BY <1>0, <1>2 DEF InboundTake
  <2> QED
    BY <1>0, <1>2, <2>1 DEF InboundTake
<1>3. ASSUME NEW t \in Sessions, InboundSeal(c, t)
      PROVE  s \notin inbound'[c].of
  BY <1>0, <1>3 DEF InboundSeal, Loops
<1>4. ASSUME NEW t \in Sessions, InboundForward(c, t) \/ InboundSend(c, t)
      PROVE  s \notin inbound'[c].of
  <2>1. [inbound[c] EXCEPT !.pc = "send"].of = inbound[c].of
    BY <1>0 DEF Loops
  <2>2. inbound'[c] \in {Resting, [inbound[c] EXCEPT !.pc = "send"]}
    BY <1>0, <1>4 DEF InboundForward, InboundSend
  <2> QED
    BY <1>0, <1>1, <2>1, <2>2
<1> QED
  BY <1>0, <1>1, <1>2, <1>3, <1>4, InboundStep

LEMMA FreshStep ==
  ASSUME Types, [Next]_vars, NEW s \in Sessions, Fresh(s)
  PROVE  Fresh(s)'
<1> SUFFICES ASSUME Early(s)'
             PROVE  /\ s \notin slots' /\ frames'[s] = <<>> /\ pty'[s].pc = "none"
                    /\ ws'[s].pc # "inserted" => ~row'[s].open
                    /\ ~row'[s].closed
  BY FreshDown, FreshUp, FreshInbound DEF Fresh
<1>0. /\ s \notin slots /\ frames[s] = <<>> /\ pty[s].pc = "none"
      /\ \A i \in DOMAIN down : down[i].s # s
      /\ \A c \in Conns : s \notin inbound[c].of
      /\ ws[s].pc # "inserted" => ~row[s].open
      /\ ~row[s].closed
  BY EarlyBefore DEF Fresh
<1>1. s \notin slots'
  BY <1>0, SlotStep, EarlyBefore
<1>2. frames'[s] = <<>>
  BY <1>0, FramesStep DEF InboundSend
<1>3. pty'[s].pc = "none"
  <2>1. ~AgentOpen(s)
    <3> SUFFICES ASSUME AgentOpen(s) PROVE FALSE
      OBVIOUS
    <3>1. down \in Seq(DownFrames) /\ down # <<>> /\ Head(down) = Frame("open", s)
      BY DEF Types, DownOK, AgentOpen, Taken
    <3>2. 1 \in DOMAIN down /\ down[1].s = s
      BY <3>1 DEF Frame
    <3> QED
      BY <1>0, <3>2
  <2> QED
    BY <1>0, <2>1, PtyStep
<1>4. /\ ws'[s].pc # "inserted" => ~row'[s].open
      /\ ~row'[s].closed
  <2>1. \A c \in Conns : ~InboundSeal(c, s)
    BY <1>0 DEF InboundSeal
  <2>2. row[s] \in Rows
    BY DEF Types, RowOK
  <2>3. row'[s] = row[s] \/ (WsInsert(s) /\ row'[s] = [row[s] EXCEPT !.open = TRUE])
    BY <2>1, RowStep, EarlyBefore
  <2>4. [row[s] EXCEPT !.open = TRUE].closed = row[s].closed
    BY <2>2, SealedFields
  <2> QED
    BY <1>0, <2>3, <2>4, EarlyBefore
<1> QED
  BY <1>1, <1>2, <1>3, <1>4

----------------------------------------------------------------------------
(* The end of a session, in its order: the row, the slot, the bridge.       *)

\* A loop that tells the bridge of s, and a bridge that is told, come after the
\* slot went and the row was closed.
ToldLast(s) ==
  /\ \A c \in Conns : s \in inbound[c].of =>
       /\ inbound[c].of = {s}
       /\ inbound[c].pc # "seal" => row[s].closed
       /\ inbound[c].pc = "send" => s \notin slots
  /\ \A i \in DOMAIN frames[s] : frames[s][i] = "closed" => s \notin slots /\ row[s].closed

\* A row once closed stays so, and its reason stays once it has one.
LEMMA RowKeeps ==
  ASSUME Types, [Next]_vars, NEW s \in Sessions
  PROVE  /\ row[s].closed => row'[s].closed
         /\ row[s].recording => row'[s].recording
         /\ row[s].closed /\ row[s].error # "none" => row'[s].error = row[s].error
<1>1. row[s] \in Rows /\ \A c \in Conns : inbound[c] \in Loops
  BY DEF Types, RowOK, PanelOK
<1>2. CASE row'[s] = row[s]
  BY <1>2
<1>3. CASE row'[s] = [row[s] EXCEPT !.open = TRUE]
  BY <1>1, <1>3 DEF Rows
<1>4. CASE row'[s] = SealedByPanel(row[s])
  <2>1. /\ SealedByPanel(row[s]).closed /\ SealedByPanel(row[s]).recording = row[s].recording
        /\ row[s].closed => SealedByPanel(row[s]) = row[s]
    BY <1>1, SealedFields
  <2> QED
    BY <1>4, <2>1
<1>5. ASSUME NEW c \in Conns, row'[s] = SealedByAgent(row[s], inbound[c])
      PROVE  /\ row'[s].closed
             /\ row[s].recording => row'[s].recording
             /\ row[s].error # "none" => row'[s].error = row[s].error
  <2> DEFINE m == inbound[c]
  <2>1. m \in Loops
    BY <1>1
  <2> HIDE DEF m
  <2>2. /\ SealedByAgent(row[s], m).closed
        /\ SealedByAgent(row[s], m).recording = (row[s].recording \/ m.recording)
        /\ row[s].error # "none" => SealedByAgent(row[s], m).error = row[s].error
    BY <1>1, <2>1, AgentSeals
  <2>3. row'[s] = SealedByAgent(row[s], m)
    BY <1>5 DEF m
  <2> QED
    BY <2>2, <2>3
<1> QED
  BY <1>2, <1>3, <1>4, <1>5, RowStep

LEMMA ToldLastStep ==
  ASSUME Types, [Next]_vars, NEW s \in Sessions, Fresh(s), ToldLast(s)
  PROVE  ToldLast(s)'
<1>0. /\ inbound \in [Conns -> Loops] /\ row[s] \in Rows
      /\ frames[s] \in Seq({"output", "closed"})
  BY DEF Types, PanelOK, RowOK, FramesOK
<1>1. ASSUME s \in slots', s \notin slots
      PROVE  Early(s)
  BY <1>1, SlotStep DEF WsOpen, Early
<1>2. ASSUME NEW c \in Conns, s \in inbound'[c].of
      PROVE  /\ inbound'[c].of = {s}
             /\ inbound'[c].pc # "seal" => row'[s].closed
             /\ inbound'[c].pc = "send" => s \notin slots'
  <2>1. CASE inbound'[c] = inbound[c]
    BY <1>1, <1>2, <2>1, RowKeeps DEF Fresh, ToldLast
  <2>2. CASE InboundTake(c) /\ inbound'[c] # inbound[c]
    BY <1>0, <1>2, <2>2 DEF InboundTake
  <2>3. ASSUME NEW t \in Sessions, InboundSeal(c, t)
        PROVE  /\ t = s /\ inbound'[c].of = {s} /\ inbound'[c].pc = "forward" /\ row'[s].closed
    <3>1. inbound[c].of = {t} /\ inbound'[c].of = inbound[c].of /\ inbound'[c].pc = "forward"
      BY <1>0, <2>3 DEF InboundSeal, Loops
    <3>2. row'[s] = SealedByAgent(row[s], inbound[c])
      BY <1>2, <2>3, <3>1 DEF InboundSeal, Types, RowOK
    <3> QED
      BY <1>0, <1>2, <3>1, <3>2, AgentSeals
  <2>4. ASSUME NEW t \in Sessions, InboundForward(c, t)
        PROVE  /\ t = s /\ inbound'[c].of = {s} /\ row'[s].closed /\ s \notin slots'
    <3>1. inbound[c].of = {t} /\ inbound[c].pc = "forward" /\ slots' = slots \ {t} /\ row' = row
      BY <2>4 DEF InboundForward
    <3>2. inbound'[c] \in {Resting, [inbound[c] EXCEPT !.pc = "send"]}
      BY <1>0, <2>4 DEF InboundForward
    <3>3. Resting.of = {} /\ [inbound[c] EXCEPT !.pc = "send"].of = inbound[c].of
      BY <1>0 DEF Resting, Loops
    <3> QED
      BY <1>2, <3>1, <3>2, <3>3 DEF ToldLast
  <2>5. ASSUME inbound'[c] = Resting
        PROVE  FALSE
    BY <1>2, <2>5 DEF Resting
  <2>6. ASSUME NEW t \in Sessions, InboundSend(c, t)
        PROVE  FALSE
    BY <1>0, <2>5, <2>6 DEF InboundSend
  <2> QED
    BY <2>1, <2>2, <2>3, <2>4, <2>5, <2>6, InboundStep
<1>3. ASSUME NEW i \in DOMAIN frames'[s], frames'[s][i] = "closed"
      PROVE  s \notin slots' /\ row'[s].closed
  <2>1. ASSUME NEW j \in DOMAIN frames[s], frames[s][j] = "closed"
        PROVE  s \notin slots' /\ row'[s].closed
    BY <1>1, <2>1, RowKeeps DEF Fresh, ToldLast
  <2>2. CASE frames'[s] = frames[s] \/ frames'[s] = <<>>
    BY <1>3, <2>1, <2>2
  <2>3. CASE frames[s] # <<>> /\ frames'[s] = Tail(frames[s])
    BY <1>0, <1>3, <2>1, <2>3
  <2>4. CASE frames'[s] = Append(frames[s], "output")
    <3>1. i \in DOMAIN frames[s] /\ frames[s][i] = "closed"
      BY <1>0, <1>3, <2>4
    <3> QED
      BY <2>1, <3>1
  <2>5. ASSUME NEW c \in Conns, InboundSend(c, s)
        PROVE  s \notin slots' /\ row'[s].closed
    BY <1>1, <2>5, RowKeeps DEF InboundSend, Fresh, ToldLast
  <2> QED
    BY <2>2, <2>3, <2>4, <2>5, FramesStep
<1> QED
  BY <1>2, <1>3 DEF ToldLast

\* What moves the handler of s.
LEMMA WsStep ==
  ASSUME Types, [Next]_vars, NEW s \in Sessions
  PROVE  \/ ws'[s] = ws[s] \/ WsInsert(s) \/ WsOpen(s)
         \/ WsCheck(s) /\ ws'[s].pc = "checked"
         \/ (WsLookup(s) \/ WsAbandon(s)) /\ UNCHANGED row /\ ws[s].pc # "inserted"
         \/ WsSeal(s) /\ ws'[s].pc = "over"
         \/ BridgeRead(s) /\ Head(frames[s]) = "closed" /\ ws'[s].pc = "over"
         \/ BridgeLeave(s) /\ ws'[s].pc = "sealing"
         \/ PanelRestart /\ ws'[s].pc = "cut"
<1>0. ws \in [Sessions -> Handlers] /\ [ws[s] EXCEPT !.pc = "cut"].pc = "cut"
  BY DEF Types, PanelOK, Handlers
<1>1. CASE PanelRestart
  BY <1>0, <1>1 DEF PanelRestart
<1>2. ASSUME NEW t \in Sessions, t # s, WsCheck(t) \/ WsAbandon(t) \/ Handler(t)
                                        \/ BridgeRead(t) \/ BridgeLeave(t)
      PROVE  ws'[s] = ws[s]
  <2>1. UNCHANGED ws \/ (\E x : ws' = [ws EXCEPT ![t].pc = x])
        \/ \E x, y : ws' = [ws EXCEPT ![t].pc = x, ![t].c = y]
    BY <1>2 DEF WsCheck, WsAbandon, Handler, WsLookup, WsInsert, WsOpen, WsSeal, BridgeRead,
                BridgeLeave, Step
  <2> QED
    BY <1>0, <1>2, <2>1
<1>3. CASE WsCheck(s) \/ WsLookup(s) \/ WsAbandon(s)
  BY <1>0, <1>3 DEF WsCheck, WsLookup, WsAbandon, Step, Handlers
<1>4. CASE WsSeal(s) \/ BridgeLeave(s) \/ BridgeRead(s)
  BY <1>0, <1>4 DEF WsSeal, BridgeLeave, BridgeRead, Step, Handlers
<1> QED
  BY <1>1, <1>2, <1>3, <1>4, WhoWrites DEF Handler

LEMMA SlotsStep ==
  ASSUME Types, [Next]_vars, SlotsAreBridged, \A s \in Sessions : ToldLast(s)
  PROVE  SlotsAreBridged'
<1> SUFFICES ASSUME NEW s \in slots' PROVE ws'[s].pc = "bridge"
  BY DEF SlotsAreBridged
<1>0. s \in Sessions /\ ws \in [Sessions -> Handlers]
  BY NextTypes DEF Types, PanelOK
<1>1. CASE s \notin slots
  <2>1. PICK ok \in BOOLEAN : /\ ws' = [ws EXCEPT ![s].pc = AfterOpen(ok)]
                              /\ slots' = SlotsAfterOpen(s, ok)
    BY <1>0, <1>1, SlotStep DEF WsOpen
  <2>2. ok
    BY <1>1, <2>1 DEF SlotsAfterOpen
  <2> QED
    BY <1>0, <2>1, <2>2 DEF AfterOpen, Handlers
<1>2. CASE s \in slots
  <2>1. ws[s].pc = "bridge"
    BY <1>2 DEF SlotsAreBridged
  <2>2. ~(BridgeRead(s) /\ Head(frames[s]) = "closed")
    <3>1. frames[s] \in Seq({"output", "closed"})
      BY <1>0 DEF Types, FramesOK
    <3>2. \A i \in DOMAIN frames[s] : frames[s][i] # "closed"
      BY <1>0, <1>2 DEF ToldLast
    <3> QED
      BY <3>1, <3>2 DEF BridgeRead
  <2>3. ~BridgeLeave(s) /\ ~PanelRestart
    BY DEF BridgeLeave, PanelRestart
  <2> QED
    BY <1>0, <2>1, <2>2, <2>3, WsStep DEF WsCheck, WsInsert, WsOpen, WsSeal, WsLookup, WsAbandon
<1> QED
  BY <1>1, <1>2

LEMMA SealedStep ==
  ASSUME Types, [Next]_vars, SealedWhenOver, \A s \in Sessions : Fresh(s) /\ ToldLast(s)
  PROVE  SealedWhenOver'
<1> SUFFICES ASSUME NEW s \in Sessions, ws'[s].pc = "over", row'[s].open, ~row'[s].closed
             PROVE  FALSE
  BY DEF SealedWhenOver
<1>0. ws \in [Sessions -> Handlers] /\ row[s] \in Rows
  BY DEF Types, PanelOK, RowOK
<1>1. ~Early(s)'
  BY DEF Early
<1>2. ~row[s].closed
  BY RowKeeps
<1>3. ~WsSeal(s)
  <2>1. WsSeal(s) => row'[s] = SealedByPanel(row[s])
    BY DEF WsSeal, Types, RowOK
  <2> QED
    BY <1>0, <2>1, SealedFields
<1>4. ~WsInsert(s) /\ ~WsOpen(s)
  <2>1. WsInsert(s) => ws'[s].pc = "inserted"
    BY <1>0 DEF WsInsert, Step, Handlers
  <2>2. WsOpen(s) => ws'[s].pc \in {"bridge", "sealing"}
    BY <1>0 DEF WsOpen, AfterOpen, Handlers
  <2> QED
    BY <2>1, <2>2
<1>5. row[s].open
  <2>1. \A c \in Conns : ~InboundSeal(c, s)
    <3> SUFFICES ASSUME NEW c \in Conns, InboundSeal(c, s) PROVE FALSE
      OBVIOUS
    <3>1. row'[s] = SealedByAgent(row[s], inbound[c]) /\ inbound[c] \in Loops
      BY DEF InboundSeal, Types, RowOK, PanelOK
    <3> QED
      BY <1>0, <3>1, AgentSeals
  <2> QED
    BY <1>3, <1>4, <2>1, RowStep
<1>6. CASE ws'[s] = ws[s]
  BY <1>2, <1>5, <1>6 DEF SealedWhenOver
<1>7. CASE (WsLookup(s) \/ WsAbandon(s)) /\ ws[s].pc # "inserted"
  BY <1>5, <1>7 DEF WsLookup, WsAbandon, Fresh, Early
<1>8. CASE BridgeRead(s) /\ Head(frames[s]) = "closed"
  <2>1. frames[s] \in Seq({"output", "closed"}) /\ frames[s] # <<>>
    BY <1>8 DEF Types, FramesOK, BridgeRead
  <2>2. 1 \in DOMAIN frames[s] /\ frames[s][1] = "closed"
    BY <1>8, <2>1
  <2> QED
    BY <1>2, <2>2 DEF ToldLast
<1> QED
  BY <1>3, <1>4, <1>6, <1>7, <1>8, WsStep

\* What the order of a session's end rests on.
Ordered == \A s \in Sessions : Fresh(s) /\ ToldLast(s)

LEMMA InitOrdered == Init => Ordered /\ SlotsAreBridged /\ SealedWhenOver
BY DEF Init, Ordered, Fresh, ToldLast, Early, NoPty, Resting, SlotsAreBridged, SealedWhenOver

LEMMA OrderedInvariant == Spec => [](Types /\ Ordered)
<1>1. Types /\ Ordered /\ [Next]_vars => Types' /\ Ordered'
  BY NextTypes, FreshStep, ToldLastStep DEF Ordered
<1> QED
  BY <1>1, InitTypes, InitOrdered, PTL DEF Spec

\* A slot counts against its user's limit only while a bridge serves it, whichever
\* side ends the session and whatever the stream does.
THEOREM SlotsBridged == Spec => []SlotsAreBridged
<1>1. Types /\ Ordered /\ SlotsAreBridged /\ [Next]_vars => SlotsAreBridged'
  BY SlotsStep DEF Ordered
<1> QED
  BY <1>1, InitOrdered, OrderedInvariant, PTL DEF Spec

\* No session is left half open: once its handler has returned, its row is closed.
THEOREM SealedAtTheEnd == Spec => []SealedWhenOver
<1>1. Types /\ Ordered /\ SealedWhenOver /\ [Next]_vars => SealedWhenOver'
  BY SealedStep DEF Ordered
<1> QED
  BY <1>1, InitOrdered, OrderedInvariant, PTL DEF Spec

----------------------------------------------------------------------------
(* Where a report is: at place i of stream c, or in the hands of its loop.  *)

ReportAt(s, c, i) ==
  \/ i \in DOMAIN up[c] /\ up[c][i].kind = "closed" /\ up[c][i].s = s
  \/ i = 0 /\ inbound[c].pc = "seal" /\ inbound[c].of = {s}

Recorded(c, i) == IF i = 0 THEN inbound[c].recording ELSE up[c][i].recording

LEMMA TakeStep ==
  ASSUME Types, NEW c \in Conns, InboundTake(c)
  PROVE  /\ up[c] \in Seq(UpFrames) /\ up[c] # <<>> /\ up'[c] = Tail(up[c])
         /\ inbound[c].pc = "idle"
         /\ up[c][1].kind = "output" => inbound'[c].pc = "idle"
         /\ up[c][1].kind = "closed" =>
              /\ inbound'[c].pc = "seal" /\ inbound'[c].of = {up[c][1].s}
              /\ inbound'[c].recording = up[c][1].recording
<1>1. up \in [Conns -> Seq(UpFrames)] /\ inbound \in [Conns -> Loops] /\ up[c] \in Seq(UpFrames)
  BY DEF Types, UpOK, PanelOK
<1>2. up[c] # <<>> /\ Head(up[c]) = up[c][1]
  BY <1>1 DEF InboundTake
<1> QED
  BY <1>1, <1>2 DEF InboundTake

\* A report moves up in its stream and into its loop's hands, until its row is written.
LEMMA ReportMoves ==
  ASSUME Types, [Next]_vars, NEW s \in Sessions, NEW c \in Conns, NEW i \in Nat,
         ReportAt(s, c, i)
  PROVE  \/ s \in lost'
         \/ i = 0 /\ InboundSeal(c, s)
         \/ \E j \in Nat : ReportAt(s, c, j)' /\ Recorded(c, j)' = Recorded(c, i)
<1> DEFINE Goal == \/ s \in lost'
                   \/ i = 0 /\ InboundSeal(c, s)
                   \/ \E j \in Nat : ReportAt(s, c, j)' /\ Recorded(c, j)' = Recorded(c, i)
<1>0. up[c] \in Seq(UpFrames) /\ inbound[c] \in Loops
  BY DEF Types, UpOK, PanelOK
<1>1. CASE i = 0
  <2>0. inbound[c].pc = "seal" /\ inbound[c].of = {s}
    BY <1>0, <1>1 DEF ReportAt
  <2>1. CASE inbound'[c] = inbound[c]
    BY <1>1, <2>0, <2>1 DEF ReportAt, Recorded
  <2>2. PanelRestart => s \in lost'
    BY <2>0 DEF PanelRestart
  <2> QED
    BY <1>1, <2>0, <2>1, <2>2, InboundStep DEF InboundTake, InboundSeal, InboundForward, InboundSend
<1>2. CASE i \in DOMAIN up[c] /\ up[c][i].kind = "closed" /\ up[c][i].s = s
  <2>0. i \in 1 .. Len(up[c])
    BY <1>0, <1>2
  <2>1. ASSUME NEW j \in DOMAIN up'[c], j # 0, up'[c][j] = up[c][i]
        PROVE  ReportAt(s, c, j)' /\ Recorded(c, j)' = Recorded(c, i)
    BY <1>2, <2>0, <2>1 DEF ReportAt, Recorded
  <2>2. CASE up'[c] = up[c]
    BY <1>2, <2>0, <2>1, <2>2
  <2>3. ASSUME NEW f, up'[c] = Append(up[c], f)
        PROVE  Goal
    <3>1. i \in DOMAIN up'[c] /\ up'[c][i] = up[c][i]
      BY <1>0, <2>0, <2>3
    <3> QED
      BY <2>0, <2>1, <3>1
  <2>4. CASE InboundTake(c)
    <3>1. CASE i = 1
      <4>1. inbound'[c].pc = "seal" /\ inbound'[c].of = {s} /\ inbound'[c].recording = up[c][i].recording
        BY <1>2, <2>4, <3>1, TakeStep
      <4> QED
        BY <3>1, <4>1 DEF ReportAt, Recorded
    <3>2. CASE i # 1
      <4> DEFINE q == up[c]
      <4>0. q \in Seq(UpFrames) /\ q # <<>> /\ up'[c] = Tail(q)
        BY <2>4, TakeStep
      <4> HIDE DEF q
      <4>2. i \in 1 .. Len(q)
        BY <2>0 DEF q
      <4>3. i - 1 \in DOMAIN Tail(q) /\ Tail(q)[i - 1] = q[i] /\ i - 1 # 0 /\ i - 1 \in Nat
        BY <3>2, <4>0, <4>2
      <4>1. i - 1 \in DOMAIN up'[c] /\ up'[c][i - 1] = up[c][i] /\ i - 1 # 0 /\ i - 1 \in Nat
        BY <4>0, <4>3 DEF q
      <4> QED
        BY <2>1, <4>1
    <3> QED
      BY <3>1, <3>2
  <2>5. ASSUME NEW n \in 0 .. Len(up[c]), up'[c] = SubSeq(up[c], 1, n),
               SessionsIn(SubSeq(up[c], n + 1, Len(up[c]))) \subseteq lost'
        PROVE  Goal
    <3>1. CASE i <= n
      <4>1. i \in DOMAIN up'[c] /\ up'[c][i] = up[c][i]
        BY <1>0, <2>0, <2>5, <3>1
      <4> QED
        BY <2>0, <2>1, <4>1
    <3>2. CASE i > n
      <4> DEFINE q == SubSeq(up[c], n + 1, Len(up[c]))
      <4>1. i - n \in DOMAIN q /\ q[i - n] = up[c][i]
        BY <1>0, <2>0, <3>2, SuffixSeq
      <4> HIDE DEF q
      <4>2. s \in SessionsIn(q)
        BY <1>2, <4>1 DEF SessionsIn
      <4> QED
        BY <2>5, <4>2 DEF q
    <3> QED
      BY <2>0, <3>1, <3>2
  <2> QED
    BY <2>2, <2>3, <2>4, <2>5, UpStep
<1> QED
  BY <1>0, <1>1, <1>2 DEF ReportAt

\* Where a report can have come from.
LEMMA ReportComes ==
  ASSUME Types, [Next]_vars, NEW s \in Sessions, NEW c \in Conns, NEW i \in Nat,
         ReportAt(s, c, i)'
  PROVE  \/ ReportAt(s, c, i) /\ ~InboundTake(c)
         \/ ReportAt(s, c, i + 1) /\ InboundTake(c)
         \/ PtyReport(s) /\ c = pty[s].c /\ i = Len(up[c]) + 1
<1> DEFINE Goal == \/ ReportAt(s, c, i) /\ ~InboundTake(c)
                   \/ ReportAt(s, c, i + 1) /\ InboundTake(c)
                   \/ PtyReport(s) /\ c = pty[s].c /\ i = Len(up[c]) + 1
<1>0. up[c] \in Seq(UpFrames) /\ inbound[c] \in Loops /\ up'[c] \in Seq(UpFrames)
  BY NextTypes DEF Types, UpOK, PanelOK
<1>1. CASE i = 0
  <2>0. inbound'[c].pc = "seal" /\ inbound'[c].of = {s}
    BY <1>0, <1>1 DEF ReportAt
  <2>1. CASE inbound'[c] = inbound[c]
    BY <1>1, <2>0, <2>1 DEF ReportAt, InboundTake
  <2>2. CASE InboundTake(c)
    <3>1. up[c][1] \in UpFrames /\ 1 \in DOMAIN up[c]
      BY <1>0, <2>2, TakeStep
    <3>2. up[c][1].kind = "closed" /\ up[c][1].s = s
      BY <2>0, <2>2, <3>1, TakeStep DEF UpFrames
    <3> QED
      BY <1>1, <2>2, <3>1, <3>2 DEF ReportAt
  <2>3. ASSUME NEW t \in Sessions, InboundSeal(c, t) \/ InboundForward(c, t) \/ InboundSend(c, t)
        PROVE  FALSE
    <3>1. [inbound[c] EXCEPT !.pc = "forward"].pc = "forward" /\ [inbound[c] EXCEPT !.pc = "send"].pc = "send"
          /\ Resting.pc = "idle"
      BY <1>0 DEF Loops, Resting
    <3>2. inbound'[c] \in {Resting, [inbound[c] EXCEPT !.pc = "forward"], [inbound[c] EXCEPT !.pc = "send"]}
      BY <2>3 DEF InboundSeal, InboundForward, InboundSend, Types, PanelOK
    <3> QED
      BY <2>0, <3>1, <3>2
  <2>4. inbound'[c] # Resting
    BY <2>0 DEF Resting
  <2> QED
    BY <2>1, <2>2, <2>3, <2>4, InboundStep
<1>2. CASE i \in DOMAIN up'[c] /\ up'[c][i].kind = "closed" /\ up'[c][i].s = s
  <2>0. i \in 1 .. Len(up'[c])
    BY <1>0, <1>2
  <2>1. CASE InboundTake(c)
    <3> DEFINE q == up[c]
    <3>0. q \in Seq(UpFrames) /\ q # <<>> /\ up'[c] = Tail(q)
      BY <2>1, TakeStep
    <3> HIDE DEF q
    <3>1. i \in 1 .. Len(Tail(q))
      BY <2>0, <3>0
    <3>2. i + 1 \in DOMAIN q /\ q[i + 1] = Tail(q)[i]
      BY <3>0, <3>1
    <3>3. i + 1 \in DOMAIN up[c] /\ up[c][i + 1] = up'[c][i]
      BY <3>0, <3>2 DEF q
    <3>4. ReportAt(s, c, i + 1)
      BY <1>2, <3>3 DEF ReportAt
    <3> QED
      BY <2>1, <3>4
  <2>2. ASSUME i \in DOMAIN up[c], up[c][i] = up'[c][i]
        PROVE  Goal
    <3>1. ReportAt(s, c, i)
      BY <1>2, <2>2 DEF ReportAt
    <3> QED
      BY <2>1, <3>1
  <2>3. ASSUME NEW f, up'[c] = Append(up[c], f), f.kind = "closed" /\ f.s = s => PtyReport(s) /\ c = pty[s].c
        PROVE  Goal
    <3>1. (i \in DOMAIN up[c] /\ up[c][i] = up'[c][i]) \/ (i = Len(up[c]) + 1 /\ up'[c][i] = f)
      BY <1>0, <2>0, <2>3
    <3> QED
      BY <1>2, <2>2, <2>3, <3>1
  <2>4. ASSUME NEW n \in 0 .. Len(up[c]), up'[c] = SubSeq(up[c], 1, n)
        PROVE  Goal
    <3>1. i \in DOMAIN up[c] /\ up[c][i] = up'[c][i]
      BY <1>0, <2>0, <2>4
    <3> QED
      BY <2>2, <3>1
  <2>5. \A t \in Sessions : OutputOf(t).kind = "output" /\ \A rec \in BOOLEAN : Report(t, rec).s = t
    BY DEF OutputOf, Report
  <2>6. CASE \E t \in Sessions : Flushes(t) /\ up'[c] = Append(up[c], OutputOf(t))
    <3>1. PICK t \in Sessions : up'[c] = Append(up[c], OutputOf(t))
      BY <2>6
    <3> QED
      BY <2>3, <2>5, <3>1
  <2>7. CASE \E t \in Sessions, rec \in BOOLEAN :
               PtyReport(t) /\ c = pty[t].c /\ up'[c] = Append(up[c], Report(t, rec))
    <3>1. PICK t \in Sessions, rec \in BOOLEAN :
               PtyReport(t) /\ c = pty[t].c /\ up'[c] = Append(up[c], Report(t, rec))
      BY <2>7
    <3> QED
      BY <2>3, <2>5, <3>1
  <2>8. CASE up'[c] = up[c]
    BY <1>2, <2>2, <2>8
  <2> QED
    BY <2>1, <2>4, <2>6, <2>7, <2>8, UpStep
<1> QED
  BY <1>0, <1>1, <1>2 DEF ReportAt

----------------------------------------------------------------------------
(* Recordings.                                                              *)

\* A session whose report named a recording: the row has it, a stream took the
\* report down with it, or the report is still on its way.
Kept(s) ==
  s \in reported =>
    \/ row[s].recording \/ s \in lost
    \/ \E c \in Conns, i \in Nat : ReportAt(s, c, i) /\ Recorded(c, i)

LEMMA ReportedStep ==
  ASSUME Types, [Next]_vars, NEW s \in Sessions, s \in reported', s \notin reported
  PROVE  s \in lost' \/ \E c \in Conns, i \in Nat : ReportAt(s, c, i)' /\ Recorded(c, i)'
<1>1. ~UNCHANGED reported /\ ~Resters
  BY DEF Resters, Disconnect, AgentRestart, PanelRestart, hist
<1>2. PICK t \in Sessions : PtyReport(t)
  BY <1>1, WhoWrites
<1>3. t = s /\ link /\ conn = pty[s].c /\ up' = [up EXCEPT ![pty[s].c] = Append(@, Report(s, TRUE))]
  BY <1>2 DEF PtyReport, Report
<1>4. pty[s].c \in Conns
  BY <1>3 DEF Types, WireOK, AgentOK, Ptys, Conns
<1>5. PICK c \in Conns : c = pty[s].c
  BY <1>4
<1>6. PICK f \in UpFrames : f = Report(s, TRUE)
  BY DEF Types, AgentOK, Ptys, UpFrames, Report
<1>7. up[c] \in Seq(UpFrames) /\ up'[c] = Append(up[c], f)
  BY <1>3, <1>5, <1>6 DEF Types, UpOK
<1>8. PICK i \in Nat \ {0} : i \in DOMAIN up'[c] /\ up'[c][i] = f
  <2>1. /\ Len(up[c]) + 1 \in Nat \ {0} /\ Len(up[c]) + 1 \in DOMAIN up'[c]
        /\ up'[c][Len(up[c]) + 1] = f
    BY <1>7
  <2> QED
    BY <2>1
<1>9. f.kind = "closed" /\ f.s = s /\ f.recording
  BY <1>6 DEF Report
<1>10. ReportAt(s, c, i)' /\ Recorded(c, i)'
  BY <1>8, <1>9 DEF ReportAt, Recorded
<1> QED
  BY <1>10

LEMMA LostStays ==
  ASSUME [Next]_vars
  PROVE  lost \subseteq lost'
BY WhoWrites DEF Resters, Disconnect, AgentRestart, PanelRestart, PtyReport

LEMMA KeptStep ==
  ASSUME Types, [Next]_vars, NEW s \in Sessions, Kept(s)
  PROVE  Kept(s)'
<1> SUFFICES ASSUME s \in reported', s \notin lost', ~row'[s].recording
             PROVE  \E c \in Conns, j \in Nat : ReportAt(s, c, j)' /\ Recorded(c, j)'
  BY DEF Kept
<1>1. CASE s \notin reported
  BY <1>1, ReportedStep
<1>2. CASE s \in reported
  <2>1. PICK c \in Conns, i \in Nat : ReportAt(s, c, i) /\ Recorded(c, i)
    BY <1>2, LostStays, RowKeeps DEF Kept
  <2>2. ~(i = 0 /\ InboundSeal(c, s))
    <3> SUFFICES ASSUME i = 0, InboundSeal(c, s) PROVE FALSE
      OBVIOUS
    <3>1. row'[s] = SealedByAgent(row[s], inbound[c]) /\ inbound[c] \in Loops /\ row[s] \in Rows
      BY DEF InboundSeal, Types, RowOK, PanelOK
    <3>2. inbound[c].recording
      BY <2>1 DEF Recorded
    <3>3. SealedByAgent(row[s], inbound[c]).recording = (row[s].recording \/ inbound[c].recording)
      BY <3>1, AgentSeals
    <3>4. row'[s].recording
      BY <3>1, <3>2, <3>3
    <3> QED
      BY <3>4
  <2>3. PICK j \in Nat : ReportAt(s, c, j)' /\ Recorded(c, j)' = Recorded(c, i)
    BY <2>1, <2>2, ReportMoves
  <2> QED
    BY <2>1, <2>3
<1> QED
  BY <1>1, <1>2

LEMMA KeptMeans ==
  ASSUME Types, \A s \in Sessions : Kept(s)
  PROVE  RecordingIsKept
<1> SUFFICES ASSUME NEW s \in reported, ~row[s].recording, s \notin lost
             PROVE  \E c \in Conns : \/ s \in SessionsIn(up[c])
                                     \/ inbound[c].pc = "seal" /\ s \in inbound[c].of
  BY DEF RecordingIsKept
<1>1. PICK c \in Conns, i \in Nat : ReportAt(s, c, i)
  BY DEF Kept, Types, HistOK
<1> QED
  BY <1>1 DEF ReportAt, SessionsIn

\* A report that names a recording leaves it in the row, or went down with its
\* stream, or is still on its way: neither end's write of the row hides it.
THEOREM RecordingsKept == Spec => []RecordingIsKept
<1>1. Init => \A s \in Sessions : Kept(s)
  BY DEF Init, Kept
<1>2. Types /\ (\A s \in Sessions : Kept(s)) /\ [Next]_vars => (\A s \in Sessions : Kept(s))'
  BY KeptStep
<1>3. Types /\ (\A s \in Sessions : Kept(s)) => RecordingIsKept
  BY KeptMeans
<1> QED
  BY <1>1, <1>2, <1>3, TypesInvariant, PTL DEF Spec

----------------------------------------------------------------------------
(* A session is opened once and reported once.                              *)

\* At most one frame that opens s is queued, and then its task has not begun.
OneOpen(s) ==
  \A i, j \in DOMAIN down :
    down[i] = Frame("open", s) /\ down[j] = Frame("open", s) => i = j /\ pty[s].pc = "none"

Clean(s) == row[s].closed /\ row[s].error = "none"

\* At most one report of s is on its way, its task is over, and its row may
\* still be given a reason; a row closed without one was closed by a report.
OneReport(s) ==
  /\ \A c, d \in Conns : \A i, j \in Nat :
       ReportAt(s, c, i) /\ ReportAt(s, d, j) => c = d /\ i = j
  /\ \A c \in Conns, i \in Nat : ReportAt(s, c, i) => pty[s].pc = "done" /\ ~Clean(s)
  /\ Clean(s) => pty[s].pc = "done"

LEMMA OpenIsTaken ==
  ASSUME Types, NEW s \in Sessions, OneOpen(s), AgentOpen(s)
  PROVE  /\ pty[s].pc = "none" /\ down # <<>> /\ down[1] = Frame("open", s)
         /\ down' = Tail(down)
<1>1. down \in Seq(DownFrames) /\ down # <<>> /\ Head(down) = Frame("open", s) /\ down' = Tail(down)
  BY DEF Types, DownOK, AgentOpen, Taken
<1>2. 1 \in DOMAIN down /\ down[1] = Frame("open", s)
  BY <1>1
<1> QED
  BY <1>1, <1>2 DEF OneOpen

LEMMA OpenComes ==
  ASSUME Types, [Next]_vars, NEW s \in Sessions,
         NEW i \in DOMAIN down', down'[i] = Frame("open", s)
  PROVE  \/ WsOpen(s) /\ i = Len(down) + 1
         \/ i \in DOMAIN down /\ down[i] = Frame("open", s) /\ (down # <<>> => down' # Tail(down))
         \/ i + 1 \in DOMAIN down /\ down[i + 1] = Frame("open", s) /\ down' = Tail(down) /\ down # <<>>
<1>0. down \in Seq(DownFrames) /\ Len(down) \in Nat /\ (down # <<>> => Len(Tail(down)) = Len(down) - 1)
  BY DEF Types, DownOK
<1>1. CASE down' = down
  <2>1. down # <<>> => Len(down) # Len(Tail(down))
    BY <1>0
  <2> QED
    BY <1>1, <2>1
<1>2. CASE down' = <<>>
  BY <1>2
<1>3. CASE down # <<>> /\ down' = Tail(down)
  <2>1. i + 1 \in DOMAIN down /\ down[i + 1] = Tail(down)[i]
    BY <1>0, <1>3
  <2> QED
    BY <1>3, <2>1
<1>4. ASSUME NEW t \in Sessions, NEW k \in {"open", "input", "close"},
             down' = Append(down, Frame(k, t)), k = "open" => WsOpen(t)
      PROVE  \/ WsOpen(s) /\ i = Len(down) + 1
             \/ i \in DOMAIN down /\ down[i] = Frame("open", s) /\ (down # <<>> => down' # Tail(down))
  <2>1. \/ i = Len(down) + 1 /\ down'[i] = Frame(k, t)
        \/ i \in DOMAIN down /\ down'[i] = down[i]
    BY <1>0, <1>4
  <2>2. Len(down') = Len(down) + 1
    BY <1>0, <1>4
  <2>3. Frame(k, t) = Frame("open", s) => k = "open" /\ t = s
    BY DEF Frame
  <2> QED
    BY <1>0, <1>4, <2>1, <2>2, <2>3
<1> QED
  BY <1>1, <1>2, <1>3, <1>4, DownStep

LEMMA OneOpenStep ==
  ASSUME Types, [Next]_vars, NEW s \in Sessions, Fresh(s), OneOpen(s)
  PROVE  OneOpen(s)'
<1> SUFFICES ASSUME NEW i \in DOMAIN down', down'[i] = Frame("open", s),
                    NEW j \in DOMAIN down', down'[j] = Frame("open", s)
             PROVE  i = j /\ pty'[s].pc = "none"
  BY DEF OneOpen
<1>0. /\ down \in Seq(DownFrames) /\ \A k \in DOMAIN down : k \in Nat
      /\ \A k \in DOMAIN down' : k \in Nat
  BY NextTypes DEF Types, DownOK
<1>1. CASE WsOpen(s)
  <2>1. \A k \in DOMAIN down : down[k] # Frame("open", s)
    BY <1>1 DEF WsOpen, Fresh, Early, Frame
  <2>2. pty'[s].pc = "none"
    BY <1>1 DEF WsOpen, Fresh, Early, agent
  <2>3. i = Len(down) + 1 /\ j = Len(down) + 1
    BY <2>1, OpenComes
  <2> QED
    BY <2>2, <2>3
<1>2. CASE ~WsOpen(s)
  <2>1. i = j /\ pty[s].pc = "none"
    BY <1>0, <1>2, OpenComes DEF OneOpen
  <2>2. ~AgentOpen(s)
    <3> SUFFICES ASSUME AgentOpen(s) PROVE FALSE
      OBVIOUS
    <3>1. 1 \in DOMAIN down /\ down[1] = Frame("open", s) /\ down # <<>> /\ down' = Tail(down)
      BY <1>0, OpenIsTaken
    <3>2. i + 1 \in DOMAIN down /\ down[i + 1] = Frame("open", s)
      BY <1>2, <3>1, OpenComes
    <3> QED
      BY <1>0, <3>1, <3>2 DEF OneOpen
  <2> QED
    BY <2>1, <2>2, PtyStep
<1> QED
  BY <1>1, <1>2

\* A task that is over stays so.
LEMMA DoneStays ==
  ASSUME Types, [Next]_vars, NEW s \in Sessions, OneOpen(s), pty[s].pc = "done"
  PROVE  pty'[s].pc = "done"
BY OpenIsTaken, PtyStep

\* The row of s becomes clean only as a report without an error is written.
LEMMA CleanStep ==
  ASSUME Types, [Next]_vars, NEW s \in Sessions, Clean(s)', ~Clean(s)
  PROVE  \E c \in Conns : InboundSeal(c, s)
<1>1. row[s] \in Rows
  BY DEF Types, RowOK
<1>2. row'[s] # row[s]
  BY DEF Clean
<1>3. row'[s] # [row[s] EXCEPT !.open = TRUE]
  BY <1>1 DEF Clean, Rows
<1>4. row'[s] # SealedByPanel(row[s])
  <2>1. SealedByPanel(row[s]) = row[s] \/ SealedByPanel(row[s]).error # "none"
    BY <1>1, SealedFields DEF Rows
  <2> QED
    BY <1>2, <2>1 DEF Clean
<1> QED
  BY <1>2, <1>3, <1>4, RowStep

LEMMA SealTakesReport ==
  ASSUME Types, NEW s \in Sessions, NEW c \in Conns, InboundSeal(c, s)
  PROVE  ReportAt(s, c, 0) /\ ~ReportAt(s, c, 0)' /\ ~InboundTake(c)
<1>1. inbound[c] \in Loops /\ inbound'[c].pc = "forward" /\ up' = up /\ up[c] \in Seq(UpFrames)
  BY DEF Types, PanelOK, UpOK, InboundSeal, Loops
<1>2. 0 \notin DOMAIN up[c]
  BY <1>1
<1> QED
  BY <1>1, <1>2 DEF ReportAt, InboundSeal, InboundTake

LEMMA OneReportStep ==
  ASSUME Types, [Next]_vars, NEW s \in Sessions, OneOpen(s), OneReport(s)
  PROVE  OneReport(s)'
<1>1. ASSUME PtyReport(s)
      PROVE  /\ pty[s].pc = "report" /\ pty'[s].pc = "done" /\ row' = row
             /\ \A c \in Conns, i \in Nat : ~ReportAt(s, c, i)
             /\ ~Clean(s)
  <2>1. pty[s].pc = "report" /\ pty'[s].pc = "done" /\ row' = row
    BY <1>1, ReportEnds DEF PtyReport
  <2> QED
    BY <2>1 DEF OneReport
<1>2. ASSUME NEW c \in Conns, NEW i \in Nat, ReportAt(s, c, i)'
      PROVE  \/ PtyReport(s) /\ c = pty[s].c /\ i = Len(up[c]) + 1
             \/ ~PtyReport(s) /\ ReportAt(s, c, i) /\ ~InboundTake(c)
             \/ ~PtyReport(s) /\ ReportAt(s, c, i + 1) /\ InboundTake(c)
  <2>1. i + 1 \in Nat
    OBVIOUS
  <2> QED
    BY <1>1, <1>2, <2>1, ReportComes
<1>3. ASSUME NEW c \in Conns, NEW d \in Conns, NEW i \in Nat, NEW j \in Nat,
             ReportAt(s, c, i)', ReportAt(s, d, j)'
      PROVE  c = d /\ i = j
  <2>1. CASE PtyReport(s)
    BY <1>2, <1>3, <2>1
  <2>2. CASE ~PtyReport(s)
    <3>1. PICK k \in {i, i + 1} : ReportAt(s, c, k) /\ (k = i + 1 <=> InboundTake(c))
      BY <1>2, <1>3, <2>2
    <3>2. PICK l \in {j, j + 1} : ReportAt(s, d, l) /\ (l = j + 1 <=> InboundTake(d))
      BY <1>2, <1>3, <2>2
    <3>3. c = d /\ k = l
      BY <3>1, <3>2 DEF OneReport
    <3> QED
      BY <3>1, <3>2, <3>3
  <2> QED
    BY <2>1, <2>2
<1>4. ASSUME NEW c \in Conns, NEW i \in Nat, ReportAt(s, c, i)'
      PROVE  pty'[s].pc = "done" /\ ~Clean(s)'
  <2>1. CASE PtyReport(s)
    BY <1>1, <2>1 DEF Clean
  <2>2. CASE ~PtyReport(s)
    <3>1. PICK k \in {i, i + 1} : ReportAt(s, c, k) /\ (~InboundTake(c) => k = i)
                                 /\ (k = 0 => ~InboundTake(c)) /\ k \in Nat
      <4>1. i + 1 \in Nat /\ i + 1 # 0
        OBVIOUS
      <4> QED
        BY <1>2, <1>4, <2>2, <4>1
    <3>2. pty[s].pc = "done" /\ ~Clean(s)
      BY <3>1 DEF OneReport
    <3>3. ASSUME NEW d \in Conns, InboundSeal(d, s)
          PROVE  FALSE
      <4>1. ReportAt(s, d, 0) /\ ~ReportAt(s, d, 0)' /\ ~InboundTake(d)
        BY <3>3, SealTakesReport
      <4>2. c = d /\ k = 0
        BY <3>1, <4>1 DEF OneReport
      <4> QED
        BY <1>4, <3>1, <4>1, <4>2
    <3> QED
      BY <3>2, <3>3, CleanStep, DoneStays
  <2> QED
    BY <2>1, <2>2
<1>5. Clean(s)' => pty'[s].pc = "done"
  <2>1. ASSUME NEW d \in Conns, InboundSeal(d, s)
        PROVE  pty[s].pc = "done"
    BY <2>1, SealTakesReport DEF OneReport
  <2> QED
    BY <2>1, CleanStep, DoneStays DEF OneReport
<1> QED
  BY <1>3, <1>4, <1>5 DEF OneReport

OnceEach == \A s \in Sessions : Fresh(s) /\ OneOpen(s) /\ OneReport(s)

LEMMA OnceEachInvariant == Spec => [](Types /\ OnceEach)
<1>1. Init => OnceEach
  <2>1. Init => \A s \in Sessions : OneOpen(s) /\ OneReport(s)
    BY DEF Init, OneOpen, OneReport, ReportAt, Clean, Resting
  <2> QED
    BY <2>1, InitOrdered DEF Ordered, OnceEach
<1>2. Types /\ OnceEach /\ [Next]_vars => Types' /\ OnceEach'
  BY NextTypes, FreshStep, OneOpenStep, OneReportStep DEF OnceEach
<1> QED
  BY <1>1, <1>2, InitTypes, PTL DEF Spec

\* Whichever end seals a row first, it stays closed, and with the reason it was
\* closed with: no later write of either end gives it another.
THEOREM FirstReasonStays == Spec => ClosedRowIsFinal
<1>1. ASSUME Types, OnceEach, [Next]_vars, NEW s \in Sessions, row[s].closed
      PROVE  row'[s].closed /\ row'[s].error = row[s].error
  <2>1. CASE row[s].error # "none"
    BY <1>1, <2>1, RowKeeps
  <2>2. CASE row[s].error = "none"
    <3>1. \A c \in Conns : ~InboundSeal(c, s)
      BY <1>1, <2>2, SealTakesReport DEF OnceEach, OneReport, Clean
    <3>2. row[s] \in Rows
      BY <1>1 DEF Types, RowOK
    <3>3. SealedByPanel(row[s]) = row[s]
      BY <1>1, <3>2, SealedFields
    <3>4. row'[s] = row[s] \/ row'[s] = [row[s] EXCEPT !.open = TRUE]
      BY <1>1, <3>1, <3>3, RowStep
    <3> QED
      BY <1>1, <3>2, <3>4 DEF Rows
  <2> QED
    BY <2>1, <2>2
<1>2. Types /\ OnceEach /\ [Next]_vars =>
        [\A s \in Sessions : row[s].closed => row'[s].closed /\ row'[s].error = row[s].error]_vars
  BY <1>1
<1> QED
  BY <1>2, OnceEachInvariant, PTL DEF Spec, ClosedRowIsFinal
=============================================================================
