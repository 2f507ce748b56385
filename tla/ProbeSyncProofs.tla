--------------------------- MODULE ProbeSyncProofs ---------------------------
(* What probe assignment promises for any number of agents, probes,         *)
(* configurations and queue sizes: types, and that last_pushed is what the  *)
(* agent has been told.                                                     *)
EXTENDS ProbeSync, FiniteSetTheorems, TLAPS

----------------------------------------------------------------------------
(* Frames.                                                                  *)

LEMMA NoProbesAssigned == NoProbes \in Assigned /\ NoProbes \in [Probes -> Flags]
BY DEF NoProbes, Assigned, Flags

LEMMA FrameTypes ==
  ASSUME NEW prev \in Assigned, NEW curr \in Assigned
  PROVE  FrameFor(prev, curr) \in Frame
BY DEF FrameFor, Frame, Assigned

\* An agent that runs what was pushed last runs the new set once it has taken
\* the frame built from the two: whole or as a difference.
LEMMA FrameLeads ==
  ASSUME NEW prev \in Assigned, NEW curr \in Assigned
  PROVE  Apply(prev, FrameFor(prev, curr)) = curr
<1>1. CASE prev = NoProbes
  BY <1>1 DEF FrameFor, Apply
<1>2. CASE prev # NoProbes
  <2> DEFINE f == [kind |-> "delta",
                   set |-> [p \in Probes |-> IF curr[p] # prev[p] THEN curr[p] ELSE "none"],
                   removed |-> {p \in Probes : prev[p] # "none" /\ curr[p] = "none"}]
  <2>1. FrameFor(prev, curr) = f
    BY <1>2 DEF FrameFor
  <2>2. Apply(prev, f) = ApplyDelta(prev, f)
    BY DEF Apply
  <2>3. ApplyDelta(prev, f) \in [Probes -> Configs \cup {"none"}]
    BY DEF ApplyDelta, Assigned
  <2>4. \A p \in Probes : ApplyDelta(prev, f)[p] = curr[p]
    BY DEF ApplyDelta, Assigned
  <2>5. ApplyDelta(prev, f) = curr
    BY <2>3, <2>4 DEF Assigned
  <2> QED
    BY <2>1, <2>2, <2>5
<1> QED
  BY <1>1, <1>2

LEMMA ApplyTypes ==
  ASSUME NEW act \in Assigned, NEW f \in Frame
  PROVE  Apply(act, f) \in Assigned
BY DEF Apply, ApplyDelta, Assigned, Frame

----------------------------------------------------------------------------
(* Types.                                                                   *)

LEMMA Bounds ==
  /\ MaxSessions \in Nat /\ QueueCap \in Nat /\ BusCap \in Nat \ {0}
  /\ MaxHandlers \in Nat /\ MaxEdits \in Nat /\ MaxFaults \in Nat /\ "none" \notin Configs
  /\ "unused" \notin Configs /\ "gone" \notin Configs
BY ProbeSyncAssumption

TablesOK == probe \in [Probes -> Rows] /\ override \in [Probes -> [Agents -> Flags]]
AdminOK  == overrides \subseteq Handler /\ written \in Nat /\ edits \in 0 .. MaxEdits
BusOK    == bus \in 0 .. BusCap
\* A row the scheduler will push is one that exists.
SchedOK  == sched \in Ticks /\ \A p \in Probes : sched.rows[p].enabled => sched.rows[p].config \in Configs
LastOK   == last \in [Agents -> Assigned]
SessionOK ==
  /\ link \in [Agents -> BOOLEAN]
  /\ sess \in [Agents -> 0 .. MaxSessions] /\ hub \in [Agents -> 0 .. MaxSessions]
DownOK   == down \in [Agents -> Seq(Frame)] /\ \A a \in Agents : Len(down[a]) <= QueueCap
AgentOK  == active \in [Agents -> Assigned] /\ detached \in [Agents -> SUBSET (Probes \X Configs)]
HistOK   == synced \in [Agents -> BOOLEAN] /\ dropped \subseteq Agents
FailingOK == unwoken \in BOOLEAN /\ faults \in 0 .. MaxFaults

Types ==
  /\ TablesOK /\ AdminOK /\ BusOK /\ SchedOK /\ LastOK /\ SessionOK /\ DownOK /\ AgentOK
  /\ HistOK /\ FailingOK

LEMMA FrameOK ==
  /\ TablesOK /\ UNCHANGED tables => TablesOK'
  /\ AdminOK /\ UNCHANGED admin => AdminOK'
  /\ BusOK /\ UNCHANGED bus => BusOK'
  /\ SchedOK /\ UNCHANGED sched => SchedOK'
  /\ LastOK /\ UNCHANGED last => LastOK'
  /\ SessionOK /\ UNCHANGED session => SessionOK'
  /\ DownOK /\ UNCHANGED down => DownOK'
  /\ AgentOK /\ UNCHANGED agent => AgentOK'
  /\ HistOK /\ UNCHANGED hist => HistOK'
  /\ FailingOK /\ UNCHANGED failing => FailingOK'
BY DEF TablesOK, AdminOK, BusOK, SchedOK, LastOK, SessionOK, DownOK, AgentOK, HistOK,
       FailingOK, tables, admin, session, agent, hist, failing

LEMMA FaultOK ==
  ASSUME FailingOK, NEW kind, Fault(kind)
  PROVE  faults' \in 0 .. MaxFaults
BY Bounds DEF FailingOK, Fault

LEMMA RestingOK ==
  /\ Resting \in Ticks /\ Resting.pc = "idle" /\ Resting.a = {} /\ Resting.s = 0
  /\ \A p \in Probes : ~Resting.rows[p].enabled
<1>1. Row("unused", FALSE, FALSE) \in Rows /\ Row("unused", FALSE, FALSE).enabled = FALSE
  BY DEF Row, Rows
<1>2. 0 \in 0 .. MaxSessions
  BY Bounds
<1> QED
  BY <1>1, <1>2, NoProbesAssigned DEF Resting, Ticks

LEMMA PublishedOK == BusOK => Published \in 0 .. BusCap
BY Bounds DEF BusOK, Published

LEMMA InitTypes == Init => Types
<1> SUFFICES ASSUME Init PROVE Types
  OBVIOUS
<1>1. Row("unused", FALSE, FALSE) \in Rows
  BY DEF Row, Rows
<1>2. 0 \in 0 .. MaxSessions /\ 0 \in 0 .. MaxEdits /\ 1 \in 0 .. BusCap
  BY Bounds
<1>3. TablesOK /\ AdminOK /\ BusOK
  BY <1>1, <1>2 DEF Init, TablesOK, AdminOK, BusOK, Flags
<1>4. SchedOK /\ LastOK /\ SessionOK
  BY <1>2, RestingOK, NoProbesAssigned DEF Init, SchedOK, LastOK, SessionOK
<1>5. DownOK /\ AgentOK /\ HistOK
  BY Bounds, NoProbesAssigned DEF Init, DownOK, AgentOK, HistOK
<1>6. FailingOK
  <2>1. unwoken \in BOOLEAN
    BY Zenon DEF Init
  <2> QED
    BY <2>1, Bounds DEF Init, FailingOK
<1> QED
  BY <1>3, <1>4, <1>5, <1>6 DEF Types

\* The admin endpoints.
LEMMA AdminTypes ==
  ASSUME Types,
         \/ \E p \in Probes : CreateProbe(p) \/ UpdateProbe(p) \/ DeleteProbe(p)
         \/ \E p \in Probes, a \in Agents, want \in Flags : BeginOverride(p, a, want)
         \/ Finishing
  PROVE  Types'
<1> USE FrameOK DEF Types
<1>1. Edit /\ AdminOK => edits' \in 0 .. MaxEdits
  BY Bounds DEF Edit, AdminOK
<1>2. ASSUME NEW p \in Probes, CreateProbe(p) \/ UpdateProbe(p)
      PROVE  Types'
  <2>1. \A c \in Configs, on, dflt \in BOOLEAN : Row(c, on, dflt) \in Rows
    BY DEF Row, Rows
  <2>2. PICK r \in Rows : probe' = [probe EXCEPT ![p] = r]
    BY <1>2, <2>1 DEF CreateProbe, UpdateProbe
  <2>3. TablesOK'
    BY <1>2, <2>2 DEF CreateProbe, UpdateProbe, TablesOK
  <2>4. AdminOK'
    BY <1>1, <1>2 DEF CreateProbe, UpdateProbe, AdminOK
  <2> QED
    BY <1>2, <2>3, <2>4 DEF CreateProbe, UpdateProbe
<1>3. ASSUME NEW p \in Probes, DeleteProbe(p)
      PROVE  Types'
  <2>1. Row("gone", FALSE, FALSE) \in Rows
    BY DEF Row, Rows
  <2>2. TablesOK'
    BY <1>3, <2>1 DEF DeleteProbe, TablesOK, Flags
  <2>3. AdminOK'
    BY <1>1, <1>3 DEF DeleteProbe, AdminOK
  <2> QED
    BY <1>3, <2>2, <2>3 DEF DeleteProbe
<1>4. ASSUME NEW p \in Probes, NEW a \in Agents, NEW want \in Flags, BeginOverride(p, a, want)
      PROVE  Types'
  <2>1. probe[p].default \in BOOLEAN
    BY DEF TablesOK, Rows
  <2>2. [p |-> p, a |-> a, want |-> want, default |-> probe[p].default] \in Handler
    BY <2>1 DEF Handler
  <2>3. AdminOK'
    BY <1>1, <1>4, <2>2 DEF BeginOverride, AdminOK
  <2> QED
    BY <1>4, <2>3 DEF BeginOverride
<1>5. ASSUME NEW h \in overrides, FinishOverride(h)
      PROVE  Types'
  <2>1. h.p \in Probes /\ h.a \in Agents /\ h.want \in Flags
    BY DEF AdminOK, Handler
  <2>2. AdminOK'
    BY <1>5 DEF FinishOverride, AdminOK
  <2>3. TablesOK'
    <3>1. UNCHANGED override \/ \E x \in Flags : override' = [override EXCEPT ![h.p][h.a] = x]
      BY <1>5, <2>1 DEF FinishOverride, Flags
    <3>2. ASSUME NEW x \in Flags, override' = [override EXCEPT ![h.p][h.a] = x]
          PROVE  override' \in [Probes -> [Agents -> Flags]]
      <4>1. [override[h.p] EXCEPT ![h.a] = x] \in [Agents -> Flags]
        BY <2>1 DEF TablesOK
      <4> QED
        BY <2>1, <3>2, <4>1 DEF TablesOK
    <3> QED
      BY <1>5, <3>1, <3>2 DEF FinishOverride, TablesOK
  <2> QED
    BY <1>5, <2>2, <2>3 DEF FinishOverride
<1>6. CASE Publish
  BY <1>6, PublishedOK DEF Publish, AdminOK, BusOK
<1>7. CASE HandlerDropped
  <2>1. AdminOK' /\ FailingOK'
    BY <1>7, FaultOK DEF HandlerDropped, AdminOK, FailingOK
  <2> QED
    BY <1>7, <2>1 DEF HandlerDropped
<1>8. ASSUME NEW h \in overrides, OverrideDropped(h)
      PROVE  Types'
  <2>1. AdminOK' /\ FailingOK'
    BY <1>8, FaultOK DEF OverrideDropped, AdminOK, FailingOK
  <2> QED
    BY <1>8, <2>1 DEF OverrideDropped
<1> QED
  BY <1>2, <1>3, <1>4, <1>5, <1>6, <1>7, <1>8 DEF Finishing

\* What the scheduler is about to push is an assignment.
LEMMA EffectiveOK ==
  ASSUME SchedOK
  PROVE  Effective \in Assigned
BY DEF SchedOK, Effective, Assigned

LEMMA WithoutOK ==
  ASSUME SchedOK, NEW a \in Agents, sched.pc \in {"loop", "push"}
  PROVE  /\ Without(a) \in Ticks /\ Without(a).pc # "push" /\ Without(a).s = 0
         /\ \A p \in Probes : Without(a).rows[p].enabled => Without(a).rows[p].config \in Configs
<1>1. CASE sched.todo = {a}
  BY <1>1, RestingOK DEF Without
<1>2. CASE sched.todo # {a}
  <2>1. 0 \in 0 .. MaxSessions
    BY Bounds
  <2> DEFINE t == [sched EXCEPT !.pc = "loop", !.todo = @ \ {a}, !.a = {}, !.s = 0,
                                !.over = NoProbes]
  <2>2. /\ t \in Ticks /\ t.pc = "loop" /\ t.s = 0 /\ t.rows = sched.rows
    BY <2>1, NoProbesAssigned DEF SchedOK, Ticks
  <2>3. Without(a) = t
    BY <1>2 DEF Without
  <2> HIDE DEF t
  <2> QED
    BY <2>2, <2>3 DEF SchedOK
<1> QED
  BY <1>1, <1>2

\* The panel's scheduler.
LEMMA TickTypes ==
  ASSUME Types, Tick
  PROVE  Types'
<1> USE FrameOK DEF Types
<1>1. CASE SchedWake
  <2>1. SchedOK'
    <3> DEFINE ids == {a \in Agents : hub[a] # 0}
               t == [Resting EXCEPT !.pc = "fetch", !.todo = ids]
    <3>1. t \in Ticks /\ t.rows = Resting.rows
      <4>1. ids \in SUBSET Agents
        OBVIOUS
      <4> HIDE DEF ids
      <4> QED
        BY <4>1, RestingOK DEF Ticks
    <3>2. sched' = Resting \/ sched' = t
      BY <1>1 DEF SchedWake
    <3> HIDE DEF t
    <3> QED
      BY <3>1, <3>2, RestingOK DEF SchedOK
  <2>2. BusOK'
    BY <1>1, Bounds DEF SchedWake, BusOK
  <2>3. FailingOK'
    <3>1. unwoken' \in BOOLEAN
      BY <1>1, Zenon DEF SchedWake
    <3> QED
      BY <1>1, <3>1 DEF SchedWake, FailingOK
  <2> QED
    BY <1>1, <2>1, <2>2, <2>3 DEF SchedWake
<1>2. CASE SchedFetch
  <2> DEFINE rows == [p \in Probes |-> IF Exists(p) /\ probe[p].enabled THEN probe[p]
                                       ELSE Row("unused", FALSE, FALSE)]
             t == [sched EXCEPT !.pc = "loop", !.rows = rows]
  <2>1. Row("unused", FALSE, FALSE) \in Rows /\ ~Row("unused", FALSE, FALSE).enabled
    BY DEF Row, Rows
  <2>2. rows \in [Probes -> Rows] /\ \A p \in Probes : rows[p].enabled => rows[p].config \in Configs
    BY <2>1 DEF TablesOK, Exists
  <2> HIDE DEF rows
  <2>3. t \in Ticks /\ t.rows = rows
    BY <2>2 DEF SchedOK, Ticks
  <2>4. sched' = t
    BY <1>2 DEF SchedFetch, rows
  <2> HIDE DEF t
  <2>5. SchedOK'
    BY <2>2, <2>3, <2>4 DEF SchedOK
  <2> QED
    BY <1>2, <2>5 DEF SchedFetch
<1>3. ASSUME NEW a \in Agents, SchedRead(a)
      PROVE  Types'
  <2> DEFINE over == [p \in Probes |-> override[p][a]]
             t == [sched EXCEPT !.pc = "push", !.a = {a}, !.s = hub[a], !.over = over]
  <2>1. over \in [Probes -> Flags] /\ hub[a] \in 0 .. MaxSessions
    BY DEF TablesOK, SessionOK
  <2> HIDE DEF over
  <2>2. t \in Ticks /\ t.rows = sched.rows
    BY <2>1 DEF SchedOK, Ticks
  <2>3. sched' = Without(a) \/ sched' = t
    BY <1>3 DEF SchedRead, over
  <2> HIDE DEF t
  <2>4. SchedOK'
    BY <1>3, <2>2, <2>3, WithoutOK DEF SchedRead, SchedOK
  <2> QED
    BY <1>3, <2>4 DEF SchedRead
<1>4. ASSUME NEW a \in Agents, SchedPush(a)
      PROVE  Types'
  <2> DEFINE f == FrameFor(last[a], Effective)
  <2>1. SchedOK'
    BY <1>4, WithoutOK DEF SchedPush, SchedOK
  <2>2. CASE last[a] # NoProbes /\ Effective = last[a]
    <3>1. UNCHANGED <<last, down, hist>>
      BY <1>4, <2>2 DEF SchedPush
    <3> QED
      BY <1>4, <2>1, <3>1 DEF SchedPush
  <2>3. CASE ~(last[a] # NoProbes /\ Effective = last[a])
    <3> DEFINE current == sched.s = sess[a] /\ link[a]
    <3>1. PICK ok \in BOOLEAN :
            /\ current => ok = (Len(down[a]) < QueueCap)
            /\ last' = Recorded(a, ok)
            /\ down' = IF current /\ ok THEN [down EXCEPT ![a] = Append(@, f)] ELSE down
            /\ synced' = [synced EXCEPT ![a] = @ \/ (current /\ ok /\ f.kind = "sync")]
            /\ dropped' = IF ~current THEN dropped
                          ELSE IF ok THEN dropped \ {a} ELSE dropped \cup {a}
      BY <1>4, <2>3 DEF SchedPush
    <3>2. LastOK'
      BY <3>1, EffectiveOK DEF LastOK, Recorded
    <3>3. DownOK'
      <4>1. f \in Frame
        BY EffectiveOK, FrameTypes DEF LastOK
      <4> HIDE DEF f
      <4>2. CASE current /\ ok
        <5>1. down[a] \in Seq(Frame) /\ Len(down[a]) < QueueCap
          BY <3>1, <4>2 DEF DownOK
        <5>2. Append(down[a], f) \in Seq(Frame) /\ Len(Append(down[a], f)) <= QueueCap
          BY <4>1, <5>1, Bounds
        <5> QED
          BY <3>1, <4>2, <5>2 DEF DownOK
      <4>3. CASE ~(current /\ ok)
        BY <3>1, <4>3
      <4> QED
        BY <4>2, <4>3
    <3>4. HistOK'
      <4> HIDE DEF f
      <4>1. synced' \in [Agents -> BOOLEAN]
        BY <3>1 DEF HistOK
      <4> QED
        BY <3>1, <4>1 DEF HistOK
    <3> QED
      BY <1>4, <2>1, <3>2, <3>3, <3>4 DEF SchedPush
  <2> QED
    BY <2>2, <2>3
<1>5. CASE TickFails
  <2>1. SchedOK' /\ FailingOK'
    BY <1>5, FaultOK, RestingOK DEF TickFails, SchedOK, FailingOK
  <2> QED
    BY <1>5, <2>1 DEF TickFails
<1> QED
  BY <1>1, <1>2, <1>3, <1>4, <1>5 DEF Tick

LEMMA DetachedOK ==
  ASSUME AgentOK, NEW a \in Agents
  PROVE  Detached(a) \subseteq Probes \X Configs
BY Bounds DEF AgentOK, Detached, Assigned

\* Streams, the agent's scheduler and the ends of the two processes.
LEMMA StreamTypes ==
  ASSUME Types,
         \/ \E a \in Agents : Connect(a) \/ Disconnect(a) \/ HubEnd(a) \/ AgentRestart(a) \/ Deliver(a)
         \/ PanelRestart
  PROVE  Types'
<1> USE FrameOK DEF Types
<1>0. 0 \in 0 .. MaxSessions /\ 1 \in 0 .. BusCap /\ <<>> \in Seq(Frame) /\ Len(<<>>) <= QueueCap
  BY Bounds
<1>1. ASSUME NEW a \in Agents, down' = [down EXCEPT ![a] = <<>>]
      PROVE  DownOK'
  BY <1>0, <1>1 DEF DownOK
<1>2. ASSUME NEW a \in Agents, Connect(a)
      PROVE  Types'
  <2>1. SessionOK'
    <3>1. sess[a] + 1 \in 0 .. MaxSessions
      BY <1>2, Bounds DEF Connect, SessionOK
    <3> QED
      BY <1>2, <3>1 DEF Connect, SessionOK
  <2>2. DownOK'
    BY <1>1, <1>2 DEF Connect
  <2>3. BusOK' /\ HistOK'
    BY <1>2, PublishedOK DEF Connect, BusOK, HistOK
  <2> QED
    BY <1>2, <2>1, <2>2, <2>3 DEF Connect
<1>3. ASSUME NEW a \in Agents, Disconnect(a) \/ AgentRestart(a)
      PROVE  Types'
  <2>1. SessionOK'
    BY <1>3 DEF Disconnect, AgentRestart, SessionOK
  <2>2. DownOK'
    BY <1>1, <1>3 DEF Disconnect, AgentRestart
  <2>3. AgentOK'
    BY <1>3, DetachedOK, NoProbesAssigned DEF Disconnect, AgentRestart, AgentOK
  <2> QED
    BY <1>3, <2>1, <2>2, <2>3 DEF Disconnect, AgentRestart
<1>4. ASSUME NEW a \in Agents, HubEnd(a)
      PROVE  Types'
  BY <1>0, <1>4 DEF HubEnd, SessionOK
<1>5. ASSUME NEW a \in Agents, Deliver(a)
      PROVE  Types'
  <2>1. down[a] \in Seq(Frame) /\ down[a] # <<>> /\ Len(down[a]) <= QueueCap
    BY <1>5 DEF Deliver, DownOK
  <2>2. Tail(down[a]) \in Seq(Frame) /\ Len(Tail(down[a])) <= QueueCap /\ Head(down[a]) \in Frame
    BY <2>1, Bounds
  <2>3. DownOK'
    BY <1>5, <2>2 DEF Deliver, DownOK
  <2>4. AgentOK'
    BY <1>5, <2>2, ApplyTypes DEF Deliver, AgentOK
  <2> QED
    BY <1>5, <2>3, <2>4 DEF Deliver
<1>6. CASE PanelRestart
  <2>1. AdminOK' /\ BusOK' /\ SchedOK' /\ LastOK'
    BY <1>0, <1>6, RestingOK, NoProbesAssigned DEF PanelRestart, AdminOK, BusOK, SchedOK, LastOK
  <2>2. SessionOK' /\ DownOK'
    BY <1>0, <1>6 DEF PanelRestart, SessionOK, DownOK
  <2>3. AgentOK' /\ HistOK' /\ FailingOK'
    BY <1>6, DetachedOK, NoProbesAssigned DEF PanelRestart, AgentOK, HistOK, FailingOK
  <2> QED
    BY <1>6, <2>1, <2>2, <2>3 DEF PanelRestart
<1> QED
  BY <1>2, <1>3, <1>4, <1>5, <1>6

LEMMA NextTypes ==
  ASSUME Types, [Next]_vars
  PROVE  Types'
<1>1. CASE UNCHANGED vars
  BY <1>1, FrameOK DEF Types, vars
<1> QED
  BY <1>1, AdminTypes, TickTypes, StreamTypes DEF Next

LEMMA TypesInvariant == Spec => []Types
<1>1. Types /\ [Next]_vars => Types'
  BY NextTypes
<1> QED
  BY <1>1, InitTypes, PTL DEF Spec

\* Every variable of probe assignment keeps its type and every channel its
\* capacity; the scheduler never holds an enabled row of a probe that is gone.
THEOREM TypeCorrect == Spec => []TypeOK
<1>1. Types => TypeOK
  BY DEF Types, TypeOK, TablesOK, AdminOK, BusOK, SchedOK, LastOK, SessionOK, DownOK, AgentOK, HistOK,
         FailingOK
<1> QED
  BY <1>1, TypesInvariant, PTL

----------------------------------------------------------------------------
(* What was pushed last is what the agent has been told.                    *)

\* An agent that is not connected runs nothing for the panel; the scheduler only
\* ever pushes to a session there has been, and to the latest once that was sent a
\* Sync; and nothing is pushed before the first.
Standing ==
  /\ \A a \in Agents : (~link[a] => active[a] = NoProbes) /\ hub[a] \in {0, sess[a]}
  /\ sched.pc = "push" => \A a \in sched.a :
       sched.s \in 1 .. sess[a] /\ (synced[a] => sched.s = sess[a])
  /\ \A a \in Agents : sess[a] = 0 => last[a] = NoProbes

\* The step of agent a, if it is one.
Of(a) == Connect(a) \/ Disconnect(a) \/ HubEnd(a) \/ AgentRestart(a) \/ Deliver(a)

LEMMA OthersRest ==
  ASSUME Types, [Next]_vars, NEW a \in Agents, ~Of(a), ~SchedPush(a), ~PanelRestart
  PROVE  /\ link'[a] = link[a] /\ sess'[a] = sess[a] /\ hub'[a] = hub[a]
         /\ down'[a] = down[a] /\ active'[a] = active[a] /\ last'[a] = last[a]
         /\ synced'[a] = synced[a]
<1>1. ASSUME NEW b \in Agents, b # a, Of(b) \/ SchedPush(b)
      PROVE  /\ link'[a] = link[a] /\ sess'[a] = sess[a] /\ hub'[a] = hub[a]
             /\ down'[a] = down[a] /\ active'[a] = active[a] /\ last'[a] = last[a]
             /\ synced'[a] = synced[a]
  <2> USE DEF session, agent
  <2>1. CASE Connect(b)
    BY <1>1, <2>1 DEF Connect, Types, SessionOK, DownOK, HistOK
  <2>2. CASE Disconnect(b) \/ AgentRestart(b)
    BY <1>1, <2>2 DEF Disconnect, AgentRestart, Types, SessionOK, DownOK, AgentOK, hist
  <2>3. CASE HubEnd(b)
    BY <1>1, <2>3 DEF HubEnd, Types, SessionOK, hist
  <2>4. CASE Deliver(b)
    BY <1>1, <2>4 DEF Deliver, Types, DownOK, AgentOK, hist
  <2>5. CASE SchedPush(b)
    BY <1>1, <2>5 DEF SchedPush, Recorded, Types, DownOK, LastOK, HistOK, hist
  <2> QED
    BY <1>1, <2>1, <2>2, <2>3, <2>4, <2>5 DEF Of
<1>2. ASSUME \/ \E p \in Probes : CreateProbe(p) \/ UpdateProbe(p) \/ DeleteProbe(p)
             \/ \E p \in Probes, b \in Agents, want \in Flags : BeginOverride(p, b, want)
             \/ Finishing \/ SchedWake \/ SchedFetch \/ TickFails \/ (\E b \in Agents : SchedRead(b))
             \/ UNCHANGED vars
      PROVE  UNCHANGED <<link, sess, hub, down, active, last, synced>>
  BY <1>2 DEF CreateProbe, UpdateProbe, DeleteProbe, BeginOverride, Finishing, FinishOverride,
              OverrideDropped, Publish, HandlerDropped, SchedWake, SchedFetch, TickFails, SchedRead,
              vars, session, agent, hist
<1> QED
  BY <1>1, <1>2 DEF Next, Tick, Of

\* A push names one agent, and a session the agent has had.
LEMMA StandingPush ==
  ASSUME Types, Standing, NEW a \in Agents, SchedPush(a)
  PROVE  sched.s \in 1 .. sess[a] /\ sess[a] \in Nat \ {0}
<1>1. sched.s \in 1 .. sess[a] /\ sess[a] \in Nat
  BY DEF SchedPush, Standing, Types, SessionOK
<1> QED
  BY <1>1

LEMMA StandingStep ==
  ASSUME Types, [Next]_vars, Standing
  PROVE  Standing'
<1>0. /\ sess \in [Agents -> 0 .. MaxSessions] /\ hub \in [Agents -> 0 .. MaxSessions]
      /\ link \in [Agents -> BOOLEAN] /\ active \in [Agents -> Assigned]
      /\ last \in [Agents -> Assigned] /\ MaxSessions \in Nat
  BY Bounds DEF Types, SessionOK, AgentOK, LastOK
<1>1. ASSUME NEW a \in Agents
      PROVE  /\ (~link'[a] => active'[a] = NoProbes) /\ hub'[a] \in {0, sess'[a]}
             /\ sess'[a] = 0 => last'[a] = NoProbes
  <2>0. /\ (~link[a] => active[a] = NoProbes) /\ hub[a] \in {0, sess[a]}
        /\ sess[a] = 0 => last[a] = NoProbes
    BY DEF Standing
  <2>1. CASE Connect(a)
    <3>1. link'[a] /\ sess'[a] = sess[a] + 1 /\ hub'[a] = sess[a] + 1 /\ sess'[a] # 0
      BY <1>0, <2>1 DEF Connect
    <3> QED
      BY <1>0, <3>1
  <2>2. CASE Disconnect(a) \/ AgentRestart(a)
    BY <1>0, <2>0, <2>2 DEF Disconnect, AgentRestart
  <2>3. CASE HubEnd(a)
    BY <1>0, <2>0, <2>3 DEF HubEnd, agent
  <2>4. CASE Deliver(a)
    BY <1>0, <2>0, <2>4 DEF Deliver, session
  <2>5. CASE SchedPush(a)
    BY <1>0, <2>0, <2>5, StandingPush DEF SchedPush, session, agent
  <2>6. CASE PanelRestart
    BY <1>0, <2>6 DEF PanelRestart
  <2>7. CASE ~Of(a) /\ ~SchedPush(a) /\ ~PanelRestart
    BY <2>0, <2>7, OthersRest
  <2> QED
    BY <2>1, <2>2, <2>3, <2>4, <2>5, <2>6, <2>7 DEF Of
<1>2. ASSUME sched'.pc = "push", NEW a \in sched'.a, a \in Agents
      PROVE  sched'.s \in 1 .. sess'[a] /\ (synced'[a] => sched'.s = sess'[a])
  <2>1. CASE \E b \in Agents : SchedRead(b)
    <3>1. PICK b \in Agents : SchedRead(b)
      BY <2>1
    <3>2. Without(b).pc # "push"
      BY <3>1, WithoutOK DEF SchedRead, Types
    <3>3. hub[b] # 0 /\ sched' = [sched EXCEPT !.pc = "push", !.a = {b}, !.s = hub[b],
                                             !.over = [p \in Probes |-> override[p][b]]]
      BY <1>2, <3>1, <3>2 DEF SchedRead
    <3>4. sched'.a = {b} /\ sched'.s = hub[b]
      BY <3>3 DEF Types, SchedOK, Ticks
    <3>5. hub[b] = sess[b] /\ hub[b] \in 1 .. sess[b] /\ sess' = sess
      BY <1>0, <3>1, <3>3 DEF Standing, SchedRead, session
    <3> QED
      BY <1>2, <3>4, <3>5
  <2>2. CASE sched' = sched
    <3>1. sched.s \in 1 .. sess[a] /\ (synced[a] => sched.s = sess[a])
      BY <1>2, <2>2 DEF Standing
    <3>2. ~PanelRestart
      BY <1>2, RestingOK DEF PanelRestart
    <3>3. sess'[a] = sess[a] \/ (sess'[a] = sess[a] + 1)
      <4>1. Of(a) \/ SchedPush(a) => sess'[a] = sess[a] \/ sess'[a] = sess[a] + 1
        <5>1. Connect(a) => sess'[a] = sess[a] + 1
          BY <1>0, <1>2 DEF Connect
        <5>2. Disconnect(a) \/ HubEnd(a) \/ AgentRestart(a) \/ Deliver(a) \/ SchedPush(a)
                => sess' = sess
          BY DEF SchedPush, Disconnect, HubEnd, AgentRestart, Deliver, session
        <5> QED
          BY <5>1, <5>2 DEF Of
      <4> QED
        BY <1>2, <3>2, <4>1, OthersRest
    <3>4. synced'[a] => synced[a] /\ sess'[a] = sess[a]
      <4>1. Connect(a) => ~synced'[a]
        BY <1>2, Zenon DEF Connect, Types, HistOK
      <4>2. Disconnect(a) \/ HubEnd(a) \/ AgentRestart(a) \/ Deliver(a)
              => synced' = synced /\ sess' = sess
        BY DEF Disconnect, HubEnd, AgentRestart, Deliver, session, hist
      <4>3. ~SchedPush(a)
        BY <1>2, WithoutOK DEF SchedPush, Types
      <4> QED
        BY <1>2, <3>2, <4>1, <4>2, <4>3, OthersRest DEF Of
    <3> QED
      BY <1>0, <1>2, <2>2, <3>1, <3>3, <3>4
  <2>3. ASSUME sched' = Resting \/ SchedFetch \/ TickFails \/ (\E b \in Agents : SchedPush(b)) \/ SchedWake
        PROVE  FALSE
    <3>1. SchedFetch => sched'.pc = "loop"
      BY DEF SchedFetch, Types, SchedOK, Ticks
    <3>2. SchedWake => sched'.pc \in {"idle", "fetch"}
      BY RestingOK DEF SchedWake, Ticks
    <3>3. ASSUME NEW b \in Agents, SchedPush(b)
          PROVE  sched'.pc # "push"
      BY <3>3, WithoutOK DEF SchedPush, Types
    <3> QED
      BY <1>2, <2>3, <3>1, <3>2, <3>3, RestingOK DEF TickFails
  <2>4. ASSUME \/ \E p \in Probes : CreateProbe(p) \/ UpdateProbe(p) \/ DeleteProbe(p)
               \/ \E p \in Probes, b \in Agents, want \in Flags : BeginOverride(p, b, want)
               \/ Finishing \/ (\E b \in Agents : Of(b)) \/ UNCHANGED vars
        PROVE  sched' = sched
    BY <2>4 DEF CreateProbe, UpdateProbe, DeleteProbe, BeginOverride, Finishing, FinishOverride,
                OverrideDropped, Publish, HandlerDropped, Of, Connect, Disconnect, HubEnd, AgentRestart, Deliver, vars
  <2> QED
    BY <2>1, <2>2, <2>3, <2>4 DEF Next, Tick, Of, PanelRestart
<1>3. sched'.a \subseteq Agents
  BY NextTypes DEF Types, SchedOK, Ticks
<1> QED
  BY <1>1, <1>2, <1>3 DEF Standing

\* The frames queued to a lead from what it runs to x, and to what was pushed last.
Leads(a, x) ==
  \E run \in [0 .. Len(down[a]) -> Assigned] : Course(a, run) /\ run[Len(down[a])] = x

Led(a) == Leads(a, last[a])

\* A frame taken is the first step of the course.
LEMMA LeadsByDeliver ==
  ASSUME Types, NEW a \in Agents, NEW x, Deliver(a), Leads(a, x)
  PROVE  Leads(a, x)'
<1> DEFINE q == down[a]
<1>0. /\ q \in Seq(Frame) /\ q # <<>> /\ down'[a] = Tail(q)
      /\ active'[a] = Apply(active[a], q[1])
  <2>1. q \in Seq(Frame) /\ q # <<>>
    BY DEF Deliver, Types, DownOK
  <2>2. Head(q) = q[1]
    BY <2>1
  <2> QED
    BY <2>1, <2>2 DEF Deliver, Types, DownOK, AgentOK
<1>1. PICK run \in [0 .. Len(q) -> Assigned] :
        /\ run[0] = active[a] /\ run[Len(q)] = x
        /\ \A n \in DOMAIN q : run[n] = Apply(run[n - 1], q[n])
  BY DEF Leads, Course
<1> DEFINE t == Tail(q)
           rest == [n \in 0 .. Len(t) |-> run[n + 1]]
<1> HIDE DEF q
<1>2. /\ t \in Seq(Frame) /\ Len(t) \in Nat /\ Len(q) = Len(t) + 1 /\ DOMAIN t = 1 .. Len(t)
      /\ DOMAIN q = 1 .. Len(q) /\ \A n \in 1 .. Len(t) : t[n] = q[n + 1]
  BY <1>0
<1> HIDE DEF t
<1>3. rest \in [0 .. Len(t) -> Assigned] /\ rest[Len(t)] = x
  BY <1>1, <1>2
<1>4. rest[0] = Apply(active[a], q[1])
  <2>1. 1 \in DOMAIN q /\ 0 \in 0 .. Len(t) /\ 1 - 1 = 0 /\ 0 + 1 = 1
    BY <1>2
  <2>2. run[1] = Apply(run[1 - 1], q[1])
    BY <1>1, <2>1
  <2> QED
    BY <1>1, <2>1, <2>2
<1>5. ASSUME NEW n \in DOMAIN t
      PROVE  rest[n] = Apply(rest[n - 1], t[n])
  <2>1. /\ n \in 0 .. Len(t) /\ n - 1 \in 0 .. Len(t) /\ n + 1 \in DOMAIN q
        /\ (n - 1) + 1 = n /\ (n + 1) - 1 = n
    BY <1>2
  <2>2. rest[n] = run[n + 1] /\ rest[n - 1] = run[n] /\ t[n] = q[n + 1]
    BY <1>2, <2>1
  <2>3. run[n + 1] = Apply(run[(n + 1) - 1], q[n + 1])
    BY <1>1, <2>1
  <2> QED
    BY <2>1, <2>2, <2>3
<1> HIDE DEF rest
<1>6. down'[a] = t /\ active'[a] = Apply(active[a], q[1])
  BY <1>0 DEF t
<1> QED
  BY <1>3, <1>4, <1>5, <1>6 DEF Leads, Course

\* A frame queued for the session that is up adds its step.
LEMMA LeadsByAppend ==
  ASSUME Types, NEW a \in Agents, NEW x, Leads(a, x), NEW f \in Frame,
         down' = [down EXCEPT ![a] = Append(@, f)], UNCHANGED active
  PROVE  Leads(a, Apply(x, f))'
<1> DEFINE q == down[a]
           curr == Apply(x, f)
<1>0. /\ q \in Seq(Frame) /\ down'[a] = Append(q, f) /\ active'[a] = active[a]
  BY DEF Types, DownOK
<1>1. PICK run \in [0 .. Len(q) -> Assigned] :
        /\ run[0] = active[a] /\ run[Len(q)] = x
        /\ \A n \in DOMAIN q : run[n] = Apply(run[n - 1], q[n])
  BY DEF Leads, Course
<1> DEFINE m == Len(q) + 1
           t == Append(q, f)
           more == [n \in 0 .. m |-> IF n = m THEN curr ELSE run[n]]
<1> HIDE DEF q
<1>2. /\ t \in Seq(Frame) /\ Len(t) = m /\ DOMAIN t = 1 .. m /\ DOMAIN q = 1 .. Len(q)
      /\ t[m] = f /\ Len(q) \in Nat /\ m \in Nat /\ \A n \in 1 .. Len(q) : t[n] = q[n]
  BY <1>0
<1> HIDE DEF t
<1>3. more \in [0 .. m -> Assigned] /\ more[m] = curr /\ more[0] = active[a]
  <2>1. x \in Assigned /\ curr \in Assigned
    BY <1>1, <1>2, ApplyTypes
  <2> HIDE DEF curr
  <2> QED
    BY <1>1, <1>2, <2>1
<1>4. ASSUME NEW n \in DOMAIN t
      PROVE  more[n] = Apply(more[n - 1], t[n])
  <2>1. CASE n = m
    <3>1. n \in 0 .. m /\ n - 1 \in 0 .. m /\ n - 1 # m /\ n - 1 = Len(q)
      <4>1. Len(q) \in Nat
        BY <1>2
      <4> QED
        BY <2>1, <4>1
    <3>2. more[n] = curr /\ more[n - 1] = x
      BY <1>1, <2>1, <3>1
    <3> QED
      BY <1>0, <1>2, <2>1, <3>2
  <2>2. CASE n # m
    <3>1. n \in 0 .. m /\ n - 1 \in 0 .. m /\ n - 1 # m /\ n \in DOMAIN q
      BY <1>2, <2>2
    <3>2. more[n] = run[n] /\ more[n - 1] = run[n - 1] /\ t[n] = q[n]
      BY <1>2, <2>2, <3>1
    <3> QED
      BY <1>1, <3>1, <3>2
  <2> QED
    BY <2>1, <2>2
<1> HIDE DEF more
<1>5. down'[a] = t /\ Len(t) = m
  BY <1>0, <1>2 DEF t
<1> QED
  BY <1>0, <1>3, <1>4, <1>5 DEF Leads, Course

\* A connection starts with nothing queued and nothing running.
LEMMA LeadsByConnect ==
  ASSUME Types, Standing, NEW a \in Agents, Connect(a)
  PROVE  Leads(a, NoProbes)'
<1>1. ~link[a] /\ down'[a] = <<>> /\ active' = active
  BY DEF Connect, Types, DownOK, agent
<1>2. active'[a] = NoProbes
  BY <1>1 DEF Standing
<1> DEFINE run == [n \in 0 .. 0 |-> NoProbes]
<1>3. run \in [0 .. Len(<<>>) -> Assigned] /\ run[0] = NoProbes /\ Len(<<>>) = 0
      /\ DOMAIN <<>> = {}
  BY NoProbesAssigned
<1> HIDE DEF run
<1>4. /\ run \in [0 .. Len(down'[a]) -> Assigned] /\ run[0] = active'[a]
      /\ run[Len(down'[a])] = NoProbes /\ DOMAIN down'[a] = {}
  BY <1>1, <1>2, <1>3
<1> QED
  BY <1>4 DEF Leads, Course, NoProbes

\* A Sync leads to its set whatever the agent runs.
LEMMA SyncLeads ==
  ASSUME NEW prev, NEW curr, NEW x, FrameFor(prev, curr).kind = "sync"
  PROVE  Apply(x, FrameFor(prev, curr)) = curr
BY DEF FrameFor, Apply

\* What is queued to a connection leads somewhere.
Coursed == \A a \in Agents : link[a] => \E x \in Assigned : Leads(a, x)

\* What a push to the session that is up does to its queue.
LEMMA PushEffect ==
  ASSUME Types, NEW a \in Agents, SchedPush(a), link[a]
  PROVE  /\ link' = link /\ sess' = sess /\ active' = active
         /\ \/ /\ down' = down
               /\ sched.s = sess[a] => last'[a] = last[a]
               /\ synced'[a] => synced[a]
            \/ \E curr \in Assigned :
                 LET f == FrameFor(last[a], curr) IN
                   /\ f \in Frame
                   /\ down' = [down EXCEPT ![a] = Append(@, f)]
                   /\ last'[a] = curr
                   /\ synced'[a] => synced[a] \/ f.kind = "sync"
<1>1. link' = link /\ sess' = sess /\ active' = active
  BY DEF SchedPush, session, agent
<1>2. CASE last[a] # NoProbes /\ Effective = last[a]
  BY <1>1, <1>2 DEF SchedPush, hist
<1>3. CASE ~(last[a] # NoProbes /\ Effective = last[a])
  <2> DEFINE f == FrameFor(last[a], Effective)
             current == sched.s = sess[a]
  <2>1. PICK ok \in BOOLEAN :
          /\ last' = Recorded(a, ok)
          /\ down' = IF current /\ ok THEN [down EXCEPT ![a] = Append(@, f)] ELSE down
          /\ synced' = [synced EXCEPT ![a] = @ \/ (current /\ ok /\ f.kind = "sync")]
    BY <1>3 DEF SchedPush
  <2>2. Effective \in Assigned /\ f \in Frame
    BY EffectiveOK, FrameTypes DEF Types, LastOK
  <2>3. /\ synced'[a] => synced[a] \/ (current /\ ok /\ f.kind = "sync")
        /\ last'[a] = IF ok THEN Effective ELSE last[a]
    <3>1. last'[a] = IF ok THEN Effective ELSE last[a]
      BY <2>1 DEF Recorded, Types, LastOK
    <3>2. synced'[a] => synced[a] \/ (current /\ ok /\ f.kind = "sync")
      <4> DEFINE sync == current /\ ok /\ f.kind = "sync"
      <4>1. synced' = [synced EXCEPT ![a] = synced[a] \/ sync]
        BY <2>1
      <4> HIDE DEF sync
      <4>2. DOMAIN synced = Agents
        BY DEF Types, HistOK
      <4>3. synced'[a] = (synced[a] \/ sync)
        BY <4>1, <4>2, Zenon
      <4> QED
        BY <4>3, Zenon DEF sync
    <3> QED
      BY <3>1, <3>2
  <2>4. CASE current /\ ok
    BY <1>1, <2>1, <2>2, <2>3, <2>4
  <2>5. CASE ~(current /\ ok)
    <3>1. down' = down /\ (synced'[a] => synced[a]) /\ (current => last'[a] = last[a])
      BY <2>1, <2>3, <2>5
    <3> QED
      BY <1>1, <3>1
  <2> QED
    BY <2>4, <2>5
<1> QED
  BY <1>2, <1>3

LEMMA CoursedStep ==
  ASSUME Types, [Next]_vars, Standing, Coursed
  PROVE  Coursed'
<1> SUFFICES ASSUME NEW a \in Agents, link'[a]
             PROVE  \E x \in Assigned : Leads(a, x)'
  BY DEF Coursed
<1>1. CASE Connect(a)
  <2>1. NoProbes \in Assigned
    BY NoProbesAssigned
  <2>2. PICK x : x = NoProbes
    OBVIOUS
  <2>3. Leads(a, x)'
    BY <1>1, <2>2, LeadsByConnect
  <2> QED
    BY <2>1, <2>2, <2>3
<1>2. CASE Deliver(a)
  BY <1>2, LeadsByDeliver DEF Coursed, Deliver, session
<1>3. CASE Disconnect(a) \/ AgentRestart(a) \/ HubEnd(a) \/ PanelRestart
  BY <1>3 DEF Disconnect, AgentRestart, HubEnd, PanelRestart, Types, SessionOK
<1>4. CASE SchedPush(a)
  <2>1. link[a]
    BY <1>4 DEF SchedPush, session
  <2>2. PICK x \in Assigned : Leads(a, x)
    BY <2>1 DEF Coursed
  <2>3. active' = active
    BY <1>4, <2>1, PushEffect
  <2>4. CASE down' = down
    BY <2>2, <2>3, <2>4 DEF Leads, Course
  <2>5. ASSUME NEW f \in Frame, down' = [down EXCEPT ![a] = Append(@, f)]
        PROVE  \E y \in Assigned : Leads(a, y)'
    <3>1. Leads(a, Apply(x, f))' /\ Apply(x, f) \in Assigned
      BY <2>2, <2>3, <2>5, LeadsByAppend, ApplyTypes
    <3> QED
      BY <3>1
  <2> QED
    BY <1>4, <2>1, <2>4, <2>5, PushEffect
<1>5. CASE ~Of(a) /\ ~SchedPush(a) /\ ~PanelRestart
  BY <1>5, OthersRest DEF Coursed, Leads, Course
<1> QED
  BY <1>1, <1>2, <1>3, <1>4, <1>5 DEF Of

LEMMA LedStep ==
  ASSUME Types, [Next]_vars, Standing, Coursed, LastPushedIsTold
  PROVE  LastPushedIsTold'
<1> SUFFICES ASSUME NEW a \in Agents, link'[a], sess'[a] = 1 \/ synced'[a]
             PROVE  Led(a)'
  BY DEF LastPushedIsTold, Led, Leads
<1>0. link[a] /\ (sess[a] = 1 \/ synced[a]) => Led(a)
  BY DEF LastPushedIsTold, Led, Leads
<1>1. CASE Connect(a)
  <2>1. sess[a] = 0 /\ last' = last
    BY <1>1 DEF Connect, Types, SessionOK, HistOK
  <2>2. last'[a] = NoProbes
    BY <2>1 DEF Standing
  <2> QED
    BY <1>1, <2>2, LeadsByConnect DEF Led, Leads, NoProbes
<1>2. CASE Deliver(a)
  <2>1. Led(a) /\ last' = last
    BY <1>0, <1>2 DEF Deliver, session, hist
  <2>2. PICK x : x = last[a]
    OBVIOUS
  <2>3. Leads(a, x)'
    BY <1>2, <2>1, <2>2, LeadsByDeliver DEF Led
  <2> QED
    BY <2>1, <2>2, <2>3 DEF Led
<1>3. CASE Disconnect(a) \/ AgentRestart(a) \/ HubEnd(a) \/ PanelRestart
  BY <1>3 DEF Disconnect, AgentRestart, HubEnd, PanelRestart, Types, SessionOK
<1>4. CASE SchedPush(a)
  <2>1. link[a] /\ sess'[a] = sess[a] /\ active' = active
    BY <1>4, PushEffect DEF SchedPush, session
  <2>2. sess[a] = 1 \/ synced[a] => sched.s = sess[a]
    BY <1>4, StandingPush DEF Standing, SchedPush
  <2>3. CASE /\ down' = down
             /\ sched.s = sess[a] => last'[a] = last[a]
             /\ synced'[a] => synced[a]
    <3>1. sess[a] = 1 \/ synced[a]
      BY <2>1, <2>3
    <3>2. Led(a) /\ last'[a] = last[a]
      BY <1>0, <2>1, <2>2, <2>3, <3>1
    <3> QED
      BY <2>1, <2>3, <3>2 DEF Led, Leads, Course
  <2>4. ASSUME NEW curr \in Assigned, NEW prev \in Assigned, prev = last[a],
               FrameFor(prev, curr) \in Frame,
               down' = [down EXCEPT ![a] = Append(@, FrameFor(prev, curr))],
               last'[a] = curr,
               synced'[a] => synced[a] \/ FrameFor(prev, curr).kind = "sync"
        PROVE  Led(a)'
    <3> DEFINE f == FrameFor(prev, curr)
    <3>1. \E x \in Assigned : Leads(a, x) /\ Apply(x, f) = curr
      <4>1. CASE f.kind = "sync"
        BY <2>1, <4>1, SyncLeads DEF Coursed
      <4>2. CASE f.kind # "sync"
        <5>1. Leads(a, prev)
          BY <1>0, <2>1, <2>4, <4>2 DEF Led
        <5> QED
          BY <5>1, FrameLeads
      <4> QED
        BY <4>1, <4>2
    <3>2. PICK x \in Assigned : Leads(a, x) /\ Apply(x, f) = curr
      BY <3>1
    <3> HIDE DEF f
    <3>3. f \in Frame /\ down' = [down EXCEPT ![a] = Append(@, f)]
      BY <2>4 DEF f
    <3>4. Leads(a, Apply(x, f))'
      BY <2>1, <3>2, <3>3, LeadsByAppend
    <3>5. Leads(a, curr)'
      BY <3>2, <3>4
    <3> QED
      BY <2>4, <3>5 DEF Led
  <2>5. last[a] \in Assigned
    BY DEF Types, LastOK
  <2> QED
    BY <1>4, <2>1, <2>3, <2>4, <2>5, PushEffect
<1>5. CASE ~Of(a) /\ ~SchedPush(a) /\ ~PanelRestart
  BY <1>0, <1>5, OthersRest DEF Led, Leads, Course
<1> QED
  BY <1>1, <1>2, <1>3, <1>4, <1>5 DEF Of

\* On an agent's first connection to a process of the panel, and on every other
\* that was sent a Sync, last_pushed is what the agent will run once it has taken
\* the frames queued to it: no frame a full queue refused is counted, no frame to
\* an earlier session, and the deltas add up.
THEOREM LastPushedTold == Spec => []LastPushedIsTold
<1>1. Init => Standing /\ Coursed /\ LastPushedIsTold
  BY RestingOK DEF Init, Standing, Coursed, LastPushedIsTold
<1>2. /\ Types /\ Standing /\ Coursed /\ LastPushedIsTold /\ [Next]_vars
      => Standing' /\ Coursed' /\ LastPushedIsTold'
  BY StandingStep, CoursedStep, LedStep
<1> QED
  BY <1>1, <1>2, TypesInvariant, PTL DEF Spec
=============================================================================
