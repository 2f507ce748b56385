------------------------------ MODULE Terminal ------------------------------
(***************************************************************************)
(* Web terminals: the browser's WebSocket bridge on the panel, the         *)
(* TerminalHub that routes the agent's frames to it and seals the session's *)
(* row, and the agent's Manager with one pty task per session.  There is    *)
(* one agent, whose stream comes and goes; its sessions share the stream's  *)
(* bounded channels.                                                        *)
(*                                                                         *)
(* Bytes, window sizes and exit codes are left out.  A report carries       *)
(* whether it names an error and whether it names a recording.              *)
(***************************************************************************)
EXTENDS Naturals, Sequences, FiniteSets

CONSTANTS
  Sessions,         \* terminal sessions, one per click on "open terminal"
  Users,
  Owner,            \* the admin who opens a session
  SessionsPerUser,  \* MAX_SESSIONS_PER_USER
  SessionsPerAgent, \* MAX_SESSIONS_PER_AGENT
  QueueCap,         \* DOWNSTREAM_BUFFER, scaled down
  UpCap,            \* the agent's upstream channel, scaled down
  FrameCap,         \* FRAME_CHANNEL_BUFFER, scaled down
  StdinCap,         \* chunks of input a pty task's channel holds, scaled down
  EofTicks,         \* flush intervals in the 200 ms after end of file
  MaxConns,         \* bound: streams the agent opens
  MaxRestarts       \* bound: restarts of the panel's or the agent's process

ASSUME TerminalAssumption ==
  /\ Owner \in [Sessions -> Users]
  /\ {SessionsPerUser, SessionsPerAgent, QueueCap, UpCap, FrameCap, StdinCap, EofTicks}
       \subseteq Nat \ {0}
  /\ MaxConns \in Nat /\ MaxRestarts \in Nat

VARIABLES
  ws,        \* the WebSocket handler of a session
  slots,     \* TerminalHub.inner
  row,       \* table terminal_sessions
  frames,    \* the bridge's channel
  inbound,   \* the panel's inbound loop of a stream
  link,      \* the agent's latest stream is up
  conn,      \* number of the latest stream
  hub,       \* SessionHub: the registered stream, 0 for none
  down,      \* frames queued to the latest stream
  up,        \* frames a stream carries to the panel
  mgr,       \* Manager.sessions of the latest stream
  pty,       \* the pty task of a session
  reported,  \* history: sessions whose report names a recording
  lost,      \* history: sessions whose report went down with a stream
  unclosed,  \* history: sessions whose TerminalClose a full queue refused
  restarts   \* history: restarts so far

panel == <<ws, slots, frames, inbound>>
wire  == <<link, conn, hub>>
agent == <<mgr, pty>>
hist  == <<reported, lost, unclosed, restarts>>
vars  == <<panel, row, wire, down, up, agent, hist>>

Conns == 1 .. MaxConns
Handlers == [pc : {"new", "checked", "ready", "inserted", "bridge", "sealing", "over", "cut"},
             c : 0 .. MaxConns]
Rows  == [open : BOOLEAN, closed : BOOLEAN, error : {"none", "panel", "agent"},
          recording : BOOLEAN]
Loops == [pc : {"idle", "seal", "forward", "send"}, of : SUBSET Sessions,
          error : BOOLEAN, recording : BOOLEAN]
Ptys  == [pc : {"none", "spawn", "run", "flush", "write", "ending", "reaped", "report", "done"},
          c : 0 .. MaxConns, held : BOOLEAN, stdin : 0 .. StdinCap, reader : BOOLEAN,
          quiet : 0 .. EofTicks, error : BOOLEAN, shell : BOOLEAN]
DownFrames == [kind : {"open", "input", "close"}, s : Sessions]
UpFrames   == [kind : {"output", "closed"}, s : Sessions, error : BOOLEAN,
               recording : BOOLEAN]

Resting == [pc |-> "idle", of |-> {}, error |-> FALSE, recording |-> FALSE]
NoPty   == [pc |-> "none", c |-> 0, held |-> FALSE, stdin |-> 0, reader |-> FALSE,
            quiet |-> 0, error |-> FALSE, shell |-> FALSE]
Frame(k, s) == [kind |-> k, s |-> s]

Init ==
  /\ ws = [s \in Sessions |-> [pc |-> "new", c |-> 0]]
  /\ slots = {} /\ frames = [s \in Sessions |-> <<>>]
  /\ row = [s \in Sessions |-> [open |-> FALSE, closed |-> FALSE, error |-> "none",
                                recording |-> FALSE]]
  /\ inbound = [c \in Conns |-> Resting]
  /\ link = FALSE /\ conn = 0 /\ hub = 0
  /\ down = <<>> /\ up = [c \in Conns |-> <<>>]
  /\ mgr = {} /\ pty = [s \in Sessions |-> NoPty]
  /\ reported = {} /\ lost = {} /\ unclosed = {} /\ restarts = 0

\* AgentSession::try_send to stream c: a stream that is gone may still take the
\* frame into a buffer nobody reads.
TrySend(c, f, ok) ==
  LET current == link /\ conn = c IN
    /\ current => ok = (Len(down) < QueueCap)
    /\ down' = IF current /\ ok THEN Append(down, f) ELSE down

----------------------------------------------------------------------------
(* The WebSocket handler and its bridge.                                   *)

Step(s, pc) == ws' = [ws EXCEPT ![s].pc = pc]

\* count_for_user, before the upgrade.
WsCheck(s) ==
  /\ ws[s].pc = "new"
  /\ Cardinality({t \in slots : Owner[t] = Owner[s]}) < SessionsPerUser
  /\ Step(s, "checked")
  /\ UNCHANGED <<slots, frames, inbound, row, wire, down, up, agent, hist>>

\* The server's row, then hub.get.
WsLookup(s) ==
  /\ ws[s].pc = "checked"
  /\ ws' = [ws EXCEPT ![s].pc = IF hub = 0 THEN "over" ELSE "ready", ![s].c = hub]
  /\ UNCHANGED <<slots, frames, inbound, row, wire, down, up, agent, hist>>

\* The upgrade fails.
WsAbandon(s) ==
  /\ ws[s].pc = "ready" /\ Step(s, "over")
  /\ UNCHANGED <<slots, frames, inbound, row, wire, down, up, agent, hist>>

\* TerminalHub::open up to its last await.
WsInsert(s) ==
  /\ ws[s].pc = "ready" /\ Step(s, "inserted")
  /\ row' = [row EXCEPT ![s].open = TRUE]
  /\ UNCHANGED <<slots, frames, inbound, wire, down, up, agent, hist>>

\* Mutant: a failed open returns at once.
AfterOpen_Return(ok) == IF ok THEN "bridge" ELSE "over"

\* A failed open goes through close_from_panel.
AfterOpen(ok) == IF ok THEN "bridge" ELSE "sealing"

\* Mutant: the slot is registered and stays, the open failed or not.
SlotsAfterOpen_Kept(s, ok) == slots \cup {s}

\* The slot is registered, and removed again by close_from_panel.
SlotsAfterOpen(s, ok) == IF ok THEN slots \cup {s} ELSE slots

WsOpen(s) ==
  /\ ws[s].pc = "inserted"
  /\ \E ok \in BOOLEAN :
       /\ TrySend(ws[s].c, Frame("open", s), ok)
       /\ ws' = [ws EXCEPT ![s].pc = AfterOpen(ok)]
       /\ slots' = SlotsAfterOpen(s, ok)
  /\ UNCHANGED <<frames, inbound, row, wire, up, agent, hist>>

\* The bridge relays a frame and ends after Closed.
BridgeRead(s) ==
  /\ ws[s].pc = "bridge" /\ frames[s] # <<>>
  /\ frames' = [frames EXCEPT ![s] = Tail(@)]
  /\ IF Head(frames[s]) = "closed" THEN Step(s, "over") ELSE UNCHANGED ws
  /\ UNCHANGED <<slots, inbound, row, wire, down, up, agent, hist>>

\* Keystrokes: dropped when the stream is full.
BridgeInput(s) ==
  /\ ws[s].pc = "bridge"
  /\ \E ok \in BOOLEAN : TrySend(ws[s].c, Frame("input", s), ok)
  /\ UNCHANGED <<panel, row, wire, up, agent, hist>>

\* The browser goes away: TerminalClose, whatever becomes of it, and the slot.
BridgeLeave(s) ==
  /\ ws[s].pc = "bridge"
  /\ \E ok \in BOOLEAN :
       /\ TrySend(ws[s].c, Frame("close", s), ok)
       /\ unclosed' = IF ok THEN unclosed ELSE unclosed \cup {s}
  /\ Step(s, "sealing")
  /\ slots' = slots \ {s}
  /\ UNCHANGED <<frames, inbound, row, wire, up, agent, reported, lost, restarts>>

\* Mutant: the UPDATE of close_from_panel without "closed_at IS NULL".
SealedByPanel_Always(r) ==
  [r EXCEPT !.closed = TRUE, !.error = IF @ = "none" THEN "panel" ELSE @]

\* The UPDATE of close_from_panel.
SealedByPanel(r) ==
  IF r.closed THEN r
  ELSE [r EXCEPT !.closed = TRUE, !.error = IF @ = "none" THEN "panel" ELSE @]

\* The rest of close_from_panel: the row (the audit record is left out).
WsSeal(s) ==
  /\ ws[s].pc = "sealing" /\ Step(s, "over")
  /\ row' = [row EXCEPT ![s] = SealedByPanel(@)]
  /\ frames' = [frames EXCEPT ![s] = <<>>]
  /\ UNCHANGED <<slots, inbound, wire, down, up, agent, hist>>

----------------------------------------------------------------------------
(* The panel's inbound loop of stream c.                                   *)

\* The receiver lives until the bridge returns.
Bridged(s) == ws[s].pc \in {"bridge", "sealing"}

\* Mutant: an output frame is queued however full the channel is.
Delivered_Always(s) == IF s \in slots THEN [frames EXCEPT ![s] = Append(@, "output")] ELSE frames

\* deliver_output.
Delivered(s) ==
  IF s \in slots /\ Bridged(s) /\ Len(frames[s]) < FrameCap
  THEN [frames EXCEPT ![s] = Append(@, "output")] ELSE frames

\* A frame is delivered; deliver_closed takes a report in three steps.
InboundTake(c) ==
  /\ inbound[c].pc = "idle" /\ up[c] # <<>>
  /\ up' = [up EXCEPT ![c] = Tail(@)]
  /\ LET f == Head(up[c]) IN
       IF f.kind = "output"
       THEN frames' = Delivered(f.s) /\ UNCHANGED inbound
       ELSE /\ inbound' = [inbound EXCEPT ![c] =
                 [pc |-> "seal", of |-> {f.s}, error |-> f.error,
                  recording |-> f.recording]]
            /\ UNCHANGED frames
  /\ UNCHANGED <<ws, slots, row, wire, down, agent, hist>>

\* Mutant: the UPDATE of deliver_closed with "closed_at IS NULL".
SealedByAgent_IfOpen(r, m) ==
  IF r.closed THEN r
  ELSE [r EXCEPT !.closed = TRUE, !.error = IF @ = "none" /\ m.error THEN "agent" ELSE @,
                 !.recording = @ \/ m.recording]

\* The UPDATE of deliver_closed, COALESCE on every column.
SealedByAgent(r, m) ==
  [r EXCEPT !.closed = TRUE, !.error = IF @ = "none" /\ m.error THEN "agent" ELSE @,
            !.recording = @ \/ m.recording]

\* The row; the audit record that follows is left out.
InboundSeal(c, s) ==
  /\ inbound[c].pc = "seal" /\ inbound[c].of = {s}
  /\ row' = [row EXCEPT ![s] = SealedByAgent(@, inbound[c])]
  /\ inbound' = [inbound EXCEPT ![c].pc = "forward"]
  /\ UNCHANGED <<ws, slots, frames, wire, down, up, agent, hist>>

\* The slot is removed, if it is still there, and its bridge is told.
InboundForward(c, s) ==
  /\ inbound[c].pc = "forward" /\ inbound[c].of = {s}
  /\ slots' = slots \ {s}
  /\ inbound' = [inbound EXCEPT ![c] = IF s \in slots THEN [@ EXCEPT !.pc = "send"] ELSE Resting]
  /\ UNCHANGED <<ws, frames, row, wire, down, up, agent, hist>>

\* The send waits for room, and fails once the bridge has returned.
InboundSend(c, s) ==
  /\ inbound[c].pc = "send" /\ inbound[c].of = {s}
  /\ Bridged(s) => Len(frames[s]) < FrameCap
  /\ frames' = IF Bridged(s) THEN [frames EXCEPT ![s] = Append(@, "closed")] ELSE frames
  /\ inbound' = [inbound EXCEPT ![c] = Resting]
  /\ UNCHANGED <<ws, slots, row, wire, down, up, agent, hist>>

InboundEnd ==
  /\ hub # 0 /\ ~(link /\ conn = hub)
  /\ inbound[hub].pc = "idle" /\ up[hub] = <<>>
  /\ hub' = 0
  /\ UNCHANGED <<panel, row, link, conn, down, up, agent, hist>>

----------------------------------------------------------------------------
(* The agent: handle_panel_msg and the Manager.                            *)

\* The frame at the head of the queue goes to the Manager.
Taken(k, s) == link /\ down # <<>> /\ Head(down) = Frame(k, s) /\ down' = Tail(down)

\* Where the select! loop of a pty task can be: it waits, or is inside an arm that
\* waits for room upstream or for the pty to take bytes.
Looping == {"run", "flush", "write"}

\* Manager::open: over the cap, a task reports the refusal.
AgentOpen(s) ==
  /\ Taken("open", s)
  /\ LET full == Cardinality(mgr) >= SessionsPerAgent IN
       /\ mgr' = IF full THEN mgr ELSE mgr \cup {s}
       /\ pty' = [pty EXCEPT ![s] = [NoPty EXCEPT !.pc = IF full THEN "report" ELSE "spawn",
                                                  !.c = conn, !.held = ~full, !.error = full]]
  /\ UNCHANGED <<panel, row, wire, up, hist>>

\* Manager::input: dropped when the task's channel is full.
AgentInput(s) ==
  /\ Taken("input", s)
  /\ pty' = IF s \in mgr /\ pty[s].pc \in Looping \cup {"spawn"} /\ pty[s].stdin < StdinCap
            THEN [pty EXCEPT ![s].stdin = @ + 1] ELSE pty
  /\ UNCHANGED <<panel, row, wire, up, mgr, hist>>

\* Manager::close: the handle goes, and its channels with it.
AgentClose(s) ==
  /\ Taken("close", s)
  /\ mgr' = mgr \ {s}
  /\ pty' = [pty EXCEPT ![s].held = @ /\ s \notin mgr]
  /\ UNCHANGED <<panel, row, wire, up, hist>>

----------------------------------------------------------------------------
(* A pty task.                                                             *)

Become(s, pc) == pty' = [pty EXCEPT ![s].pc = pc, ![s].quiet = 0]

\* The stream of s takes a frame at once; one that is gone swallows it.
Streaming(s) == link /\ conn = pty[s].c
Room(s)      == Streaming(s) => Len(up[pty[s].c]) < UpCap
Emit(s, f)   == /\ Room(s)
                /\ up' = IF Streaming(s) THEN [up EXCEPT ![pty[s].c] = Append(@, f)] ELSE up
Output(s)    == [kind |-> "output", s |-> s, error |-> FALSE, recording |-> FALSE]

PtySpawn(s) ==
  /\ pty[s].pc = "spawn"
  /\ \/ pty' = [pty EXCEPT ![s].pc = "run", ![s].shell = TRUE, ![s].reader = TRUE]
     \/ pty' = [pty EXCEPT ![s].pc = "report", ![s].error = TRUE, ![s].stdin = 0]
  /\ UNCHANGED <<panel, row, wire, down, up, mgr, hist>>

\* flush_buf, as long as the reader has something to tell ...
PtyOutput(s) ==
  /\ pty[s].pc = "run" /\ pty[s].reader /\ Streaming(s)
  /\ Emit(s, Output(s))
  /\ UNCHANGED <<panel, row, wire, down, agent, hist>>

\* ... without room upstream it waits inside its arm, and no other arm is polled ...
PtyStall(s) ==
  /\ pty[s].pc = "run" /\ pty[s].reader /\ ~Room(s)
  /\ Become(s, "flush")
  /\ UNCHANGED <<panel, row, wire, down, up, mgr, hist>>

\* ... until the frame is out.
PtyFlush(s) ==
  /\ pty[s].pc = "flush" /\ Emit(s, Output(s)) /\ Become(s, "run")
  /\ UNCHANGED <<panel, row, wire, down, mgr, hist>>

\* Out of the loop: what waits in the channels is of no use.
Leave(s, named) ==
  pty' = [pty EXCEPT ![s].pc = "ending", ![s].quiet = 0, ![s].stdin = 0, ![s].error = named]

\* A chunk of input is taken: writer.write_all blocks, and the loop with it ...
PtyWrite(s) ==
  /\ pty[s].pc = "run" /\ pty[s].stdin > 0
  /\ pty' = [pty EXCEPT ![s].pc = "write", ![s].quiet = 0, ![s].stdin = @ - 1]
  /\ UNCHANGED <<panel, row, wire, down, up, mgr, hist>>

\* ... until the shell has read the bytes, or the pty has refused them.
PtyWritten(s) ==
  /\ pty[s].pc = "write"
  /\ \/ Become(s, "run")
     \/ Leave(s, TRUE)
  /\ UNCHANGED <<panel, row, wire, down, up, mgr, hist>>

\* The reader thread reaches the end of the pty: no process holds the slave any more.
\* The task sees it only where it waits or writes.
ReaderEnds(s) ==
  /\ pty[s].reader /\ pty[s].pc \in {"run", "write", "reaped"}
  /\ pty' = [pty EXCEPT ![s].reader = FALSE]
  /\ UNCHANGED <<panel, row, wire, down, up, mgr, hist>>

\* After that a flush interval passes with the loop asleep ...
PtyQuiet(s) ==
  /\ pty[s].pc = "run" /\ ~pty[s].reader /\ pty[s].quiet < EofTicks
  /\ pty' = [pty EXCEPT ![s].quiet = @ + 1]
  /\ UNCHANGED <<panel, row, wire, down, up, mgr, hist>>

\* ... its tick is due, and the next round of the loop starts a new sleep ...
PtyTick(s) ==
  /\ pty[s].pc = "run" /\ ~pty[s].reader /\ pty[s].quiet > 0
  /\ Become(s, "run")
  /\ UNCHANGED <<panel, row, wire, down, up, mgr, hist>>

\* ... or the sleep is over too, and is the arm select! takes.
PtyTimeout(s) ==
  /\ pty[s].pc = "run" /\ pty[s].quiet = EofTicks
  /\ Leave(s, FALSE)
  /\ UNCHANGED <<panel, row, wire, down, up, mgr, hist>>

\* The handle is gone: select! looks at the close channel, or at the end of stdin.
PtyClosed(s) ==
  /\ pty[s].pc = "run" /\ ~pty[s].held
  /\ \E named \in {TRUE, pty[s].stdin > 0} : Leave(s, named)
  /\ UNCHANGED <<panel, row, wire, down, up, mgr, hist>>

\* The last flush, if there is anything to flush; then the child is reaped or killed.
PtyReap(s) ==
  /\ pty[s].pc = "ending" /\ Become(s, "reaped")
  /\ Emit(s, Output(s)) \/ UNCHANGED up
  /\ UNCHANGED <<panel, row, wire, down, mgr, hist>>

\* reader_handle.await: any process that still holds the slave keeps the reader in
\* its read().  Then the recording is closed.
PtyJoin(s) ==
  /\ pty[s].pc = "reaped" /\ ~pty[s].reader /\ Become(s, "report")
  /\ UNCHANGED <<panel, row, wire, down, up, mgr, hist>>

\* send_closed.  A session that never had a shell has no recording.
PtyReport(s) ==
  LET c == pty[s].c IN
  /\ pty[s].pc = "report"
  /\ pty' = [pty EXCEPT ![s] = [NoPty EXCEPT !.pc = "done"]]
  /\ IF link /\ conn = c
     THEN /\ Len(up[c]) < UpCap
          /\ \E rec \in {FALSE, pty[s].shell} :
               /\ up' = [up EXCEPT ![c] = Append(@, [kind |-> "closed", s |-> s,
                           error |-> pty[s].error, recording |-> rec])]
               /\ reported' = IF rec THEN reported \cup {s} ELSE reported
          /\ UNCHANGED lost
     ELSE lost' = lost \cup {s} /\ UNCHANGED <<up, reported>>
  /\ UNCHANGED <<panel, row, wire, down, mgr, unclosed, restarts>>

----------------------------------------------------------------------------
(* Streams, and the ends of the two processes.                             *)

Connect ==
  /\ ~link /\ conn < MaxConns
  /\ link' = TRUE /\ conn' = conn + 1 /\ hub' = conn + 1
  /\ UNCHANGED <<panel, row, down, up, agent, hist>>

\* Mutant: the Manager goes without closing its sessions.
Released_Kept == pty

\* The Manager goes with the stream, and closes every session it has.
Released == [s \in Sessions |-> IF s \in mgr THEN [pty[s] EXCEPT !.held = FALSE] ELSE pty[s]]

SessionsIn(q) == {q[i].s : i \in {j \in DOMAIN q : q[j].kind = "closed"}}

\* The panel still receives some of what was sent.
Disconnect ==
  /\ link /\ link' = FALSE
  /\ \E n \in 0 .. Len(up[conn]) :
       /\ up' = [up EXCEPT ![conn] = SubSeq(@, 1, n)]
       /\ lost' = lost \cup SessionsIn(SubSeq(up[conn], n + 1, Len(up[conn])))
  /\ down' = <<>> /\ mgr' = {} /\ pty' = Released
  /\ UNCHANGED <<panel, row, conn, hub, reported, unclosed, restarts>>

\* The agent's process ends, and every shell with it.
AgentRestart ==
  /\ restarts < MaxRestarts /\ restarts' = restarts + 1
  /\ LET cut == {s \in Sessions : pty[s].pc \notin {"none", "done"}} IN
       /\ pty' = [s \in Sessions |-> IF s \in cut THEN [NoPty EXCEPT !.pc = "done"] ELSE pty[s]]
       /\ \E n \in 0 .. IF link THEN Len(up[conn]) ELSE 0 :
            /\ up' = IF link THEN [up EXCEPT ![conn] = SubSeq(@, 1, n)] ELSE up
            /\ lost' = lost \cup cut \cup
                 (IF link THEN SessionsIn(SubSeq(up[conn], n + 1, Len(up[conn]))) ELSE {})
  /\ link' = FALSE /\ down' = <<>> /\ mgr' = {}
  /\ UNCHANGED <<panel, row, conn, hub, reported, unclosed>>

\* The panel's process ends and starts again: only the table survives.
PanelRestart ==
  /\ restarts < MaxRestarts /\ restarts' = restarts + 1
  /\ ws' = [s \in Sessions |-> IF ws[s].pc \in {"new", "over"} THEN ws[s]
                               ELSE [ws[s] EXCEPT !.pc = "cut"]]
  /\ slots' = {} /\ frames' = [s \in Sessions |-> <<>>]
  /\ inbound' = [c \in Conns |-> Resting]
  /\ lost' = lost \cup UNION {SessionsIn(up[c]) \cup inbound[c].of : c \in Conns}
  /\ up' = [c \in Conns |-> <<>>]
  /\ link' = FALSE /\ hub' = 0 /\ down' = <<>> /\ mgr' = {} /\ pty' = Released
  /\ UNCHANGED <<row, conn, reported, unclosed>>

----------------------------------------------------------------------------
Handler(s) == WsLookup(s) \/ WsInsert(s) \/ WsOpen(s) \/ WsSeal(s)

Inbound(c) ==
  InboundTake(c) \/ \E s \in Sessions : InboundSeal(c, s) \/ InboundForward(c, s) \/ InboundSend(c, s)

Manage == \E s \in Sessions : AgentOpen(s) \/ AgentInput(s) \/ AgentClose(s)

\* The arms of the pty task's select!.
PtyLoop(s) == PtyWrite(s) \/ PtyQuiet(s) \/ PtyTick(s) \/ PtyTimeout(s) \/ PtyClosed(s)

PtyTask(s) ==
  \/ PtySpawn(s) \/ PtyOutput(s) \/ PtyStall(s) \/ PtyFlush(s) \/ PtyLoop(s)
  \/ PtyWritten(s) \/ PtyReap(s) \/ PtyJoin(s) \/ PtyReport(s)

Next ==
  \/ \E s \in Sessions :
       \/ WsCheck(s) \/ WsAbandon(s) \/ Handler(s)
       \/ BridgeRead(s) \/ BridgeInput(s) \/ BridgeLeave(s)
       \/ ReaderEnds(s) \/ PtyTask(s)
  \/ \E c \in Conns : Inbound(c)
  \/ Manage \/ InboundEnd
  \/ Connect \/ Disconnect \/ AgentRestart \/ PanelRestart

Spec == Init /\ [][Next]_vars

\* Tasks that have begun go on, a browser takes what it is sent or goes away,
\* select! does not for ever pass over an arm it keeps finding ready, and a sender
\* waiting for room upstream is served in turn.  A write to a pty nobody holds fails;
\* nothing else makes a shell read its input (PtyWritten), nor the processes it
\* started leave the pty (ReaderEnds).
TerminalFairness ==
  /\ \A s \in Sessions :
       /\ WF_vars(Handler(s)) /\ WF_vars(BridgeRead(s))
       /\ WF_vars(PtySpawn(s)) /\ WF_vars(PtyLoop(s)) /\ SF_vars(PtyClosed(s) \/ PtyTimeout(s))
       /\ WF_vars(~pty[s].reader /\ PtyWritten(s)) /\ WF_vars(PtyJoin(s))
       /\ SF_vars(PtyFlush(s) \/ (Room(s) /\ PtyReap(s)) \/ PtyReport(s))
  /\ \A c \in Conns : WF_vars(Inbound(c))
  /\ WF_vars(Manage)

FairSpec == Spec /\ TerminalFairness

----------------------------------------------------------------------------
(* Properties.                                                             *)

\* Every variable keeps its type, and no channel holds more than it can.
TypeOK ==
  /\ ws \in [Sessions -> Handlers] /\ slots \subseteq Sessions /\ row \in [Sessions -> Rows]
  /\ frames \in [Sessions -> Seq({"output", "closed"})]
  /\ \A s \in Sessions : Len(frames[s]) <= FrameCap
  /\ inbound \in [Conns -> Loops]
  /\ link \in BOOLEAN /\ conn \in 0 .. MaxConns /\ hub \in 0 .. MaxConns
  /\ down \in Seq(DownFrames) /\ Len(down) <= QueueCap
  /\ up \in [Conns -> Seq(UpFrames)] /\ \A c \in Conns : Len(up[c]) <= UpCap
  /\ mgr \subseteq Sessions /\ pty \in [Sessions -> Ptys]
  /\ {reported, lost, unclosed} \subseteq SUBSET Sessions
  /\ restarts \in 0 .. MaxRestarts

\* No session is left half open: once its handler has returned, whichever side
\* ended it, its row is closed.
SealedWhenOver == \A s \in Sessions : ws[s].pc = "over" /\ row[s].open => row[s].closed

\* A slot counts against its user only while a bridge serves it.
SlotsAreBridged == \A s \in slots : ws[s].pc = "bridge"

\* "the recording metadata always wins from the agent": a report that reaches
\* the panel leaves its recording in the row, although the browser may have gone
\* and close_from_panel may have sealed the row before, between or after.
RecordingIsKept ==
  \A s \in reported :
    \/ row[s].recording \/ s \in lost
    \/ \E c \in Conns : s \in SessionsIn(up[c]) \/ (inbound[c].pc = "seal" /\ s \in inbound[c].of)

\* "the first write wins": the race of the two ends never reopens a closed row
\* nor changes why it closed.
ClosedRowIsFinal ==
  [][\A s \in Sessions : row[s].closed => row'[s].closed /\ row'[s].error = row[s].error]_vars

\* The shell of s may run.
ShellRuns(s) == pty[s].pc \in Looping \cup {"spawn", "ending"}

\* Once the browser has gone a session winds up, whatever the stream does, unless
\* the queue refused its TerminalClose: its shell ends if the pty blocks no write for
\* ever, and its task with it if no process holds the pty's slave for ever.
BrowserGoneShellEnds ==
  \A s \in Sessions :
    LET gone == ws[s].pc \in {"sealing", "over", "cut"} IN
    /\ []<>(pty[s].pc # "write") => (gone ~> [](~ShellRuns(s) \/ s \in unclosed))
    /\ []<>~pty[s].reader
         => (gone ~> [](pty[s].pc \in {"none", "done"} \/ s \in unclosed))

\* "child processes don't outlive their bridge": the same shell ends without either
\* proviso once its stream is down.
StreamGoneShellEnds ==
  \A s \in Sessions : (ShellRuns(s) /\ ~Streaming(s)) ~> ~ShellRuns(s)

\* "Reader is gone - give the child a moment to exit, then break": the loop ends
\* once its shell has exited by itself.
ExitedShellEndsLoop ==
  \A s \in Sessions : (pty[s].pc = "run" /\ ~pty[s].reader) ~> (pty[s].pc # "run")

\* "at most MAX_SESSIONS_PER_AGENT active at once": an open is refused only when
\* that many sessions are active.
RefusedOnlyAtCap ==
  [][\A s \in Sessions :
       (pty[s].pc = "none" /\ pty'[s].pc = "report") =>
         Cardinality({t \in Sessions : pty[t].pc \notin {"none", "done"}})
           >= SessionsPerAgent]_vars
============================================================================
