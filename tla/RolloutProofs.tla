--------------------------- MODULE RolloutProofs ---------------------------
(* The panel's guarantees for any number of agents, rollouts, sessions and  *)
(* admin requests: types, the hub hands out the live session, no rollout is *)
(* completed over a row that was never shipped, a queued frame is recorded, *)
(* every pending row has a dispatcher ahead of it, and aborts are final.    *)
EXTENDS Rollout, TLAPS

\* A component of the state that a step leaves alone keeps its type.
LEMMA FrameOK ==
  /\ TablesOK /\ UNCHANGED tables => TablesOK'
  /\ AdminOK /\ UNCHANGED admin => AdminOK'
  /\ TasksOK /\ UNCHANGED <<rollTask, agentTask>> => TasksOK'
  /\ SessionOK /\ UNCHANGED session => SessionOK'
  /\ DownOK /\ UNCHANGED down => DownOK'
  /\ UpOK /\ UNCHANGED up => UpOK'
  /\ LoopOK /\ UNCHANGED loop => LoopOK'
  /\ AgentsOK /\ UNCHANGED agents => AgentsOK'
<1>1. TablesOK /\ UNCHANGED tables => TablesOK'
  BY DEF TablesOK, tables
<1>2. AdminOK /\ UNCHANGED admin => AdminOK'
  BY DEF AdminOK, admin
<1>3. TasksOK /\ UNCHANGED <<rollTask, agentTask>> => TasksOK'
  BY DEF TasksOK
<1>4. SessionOK /\ UNCHANGED session => SessionOK'
  BY DEF SessionOK, session
<1>5. DownOK /\ UNCHANGED down => DownOK'
  BY DEF DownOK
<1>6. UpOK /\ UNCHANGED up => UpOK'
  BY DEF UpOK
<1>7. LoopOK /\ UNCHANGED loop => LoopOK'
  BY DEF LoopOK
<1>8. AgentsOK /\ UNCHANGED agents => AgentsOK'
  BY DEF AgentsOK, agents
<1> QED
  BY <1>1, <1>2, <1>3, <1>4, <1>5, <1>6, <1>7, <1>8

\* The session stream() hands out next is one of the bounded set.
LEMMA NextSession ==
  ASSUME NEW a \in Agents, SessionOK, link[a] = "auth"
  PROVE  sess[a] + 1 \in Sessions
BY RolloutAssumption DEF SessionOK, Sessions

\* AgentSession::try_send of a frame keeps the queue within its buffer.
LEMMA TrySendOK ==
  ASSUME NEW a \in Agents, NEW s, NEW f \in Frame, NEW ok \in BOOLEAN,
         DownOK, TrySend(a, s, f, ok)
  PROVE  DownOK'
<1>1. CASE down' = down
  BY <1>1 DEF DownOK
<1>2. CASE Len(down[a]) < QueueCap /\ down' = [down EXCEPT ![a] = Append(@, f)]
  <2>1. Append(down[a], f) \in Seq(Frame) /\ Len(Append(down[a], f)) <= QueueCap
    BY <1>2, RolloutAssumption DEF DownOK
  <2> QED
    BY <1>2, <2>1 DEF DownOK
<1> QED
  BY <1>1, <1>2 DEF TrySend

\* A status frame joins the upstream queue of a live session.
LEMMA SayOK ==
  ASSUME NEW a \in Agents, NEW r \in Rollouts, NEW k \in AgentStates,
         UpOK, SessionOK, link[a] = "up", Say(a, r, k)
  PROVE  UpOK'
<1> DEFINE m == [kind |-> k, r |-> r]
<1>1. m \in Status /\ sess[a] \in Sessions
  BY RolloutAssumption DEF Status, SessionOK, Sessions
<1>2. up' = [up EXCEPT ![a][sess[a]] = Append(@, m)]
  BY DEF Say
<1> HIDE DEF m
<1>3. Append(up[a][sess[a]], m) \in Seq(Hello \cup Status)
  BY <1>1 DEF UpOK
<1> QED
  BY <1>1, <1>2, <1>3 DEF UpOK

\* A lost connection leaves a prefix of its frames on the way to the panel.
LEMMA LostUpOK ==
  ASSUME NEW a \in Agents, UpOK, SessionOK, Lost(a)
  PROVE  UpOK'
<1>1. CASE link[a] = "up"
  <2>1. sess[a] \in Sessions
    BY <1>1, RolloutAssumption DEF SessionOK, Sessions
  <2>2. PICK n \in 0 .. Len(up[a][sess[a]]) :
          up' = [up EXCEPT ![a][sess[a]] = SubSeq(@, 1, n)]
    BY <1>1 DEF Lost
  <2>3. up[a][sess[a]] \in Seq(Hello \cup Status)
    BY <2>1 DEF UpOK
  <2>4. SubSeq(up[a][sess[a]], 1, n) \in Seq(Hello \cup Status)
    BY <2>2, <2>3
  <2> QED
    BY <2>1, <2>2, <2>4 DEF UpOK
<1>2. CASE link[a] # "up"
  BY <1>2 DEF Lost, UpOK
<1> QED
  BY <1>1, <1>2

\* The empty database, and agents that have not connected.
LEMMA InitTypeOK == Init => TypeOK
BY RolloutAssumption
   DEF Init, TypeOK, TablesOK, AdminOK, TasksOK, HistoryOK, SessionOK, DownOK, UpOK,
       LoopOK, AgentsOK, RolloutStates, AssignStates, AbortTasks, RollTasks, AgentTasks,
       Loops, Idle

\* The history speaks of rows of the agents.
LEMMA HistoryStep ==
  ASSUME TypeOK, [Next]_vars
  PROVE  HistoryOK'
<1> USE RolloutAssumption
<1>1. HistoryOK
  BY DEF TypeOK
<1>2. CASE UNCHANGED missed /\ (UNCHANGED failures \/ Fails)
  BY <1>1, <1>2 DEF HistoryOK, missed, Fails
<1>3. ASSUME NEW r \in Rollouts, Dispatch(r)
      PROVE  HistoryOK'
  <2>1. ASSUME NEW a \in Agents, RollSend(r, a)
        PROVE  HistoryOK'
    BY <1>1, <2>1 DEF RollSend, HistoryOK
  <2>2. CASE RollCut(r)
    <3>1. rollTask[r].sent \subseteq Agents /\ Ahead(r) \subseteq Agents
      BY DEF TypeOK, TasksOK, RollTasks, Ahead
    <3> QED
      BY <1>1, <2>2, <3>1 DEF RollCut, HistoryOK, Missed, Fails
  <2> QED
    BY <1>2, <1>3, <2>1, <2>2 DEF Dispatch, RollSelect, RollSkip, RollMark, history, missed
<1>4. ASSUME NEW a \in Agents, NEW s \in Sessions, Catchup(a, s)
      PROVE  HistoryOK'
  <2>1. ASSUME NEW r \in Rollouts, AgentSend(a, s, r)
        PROVE  HistoryOK'
    BY <1>1, <2>1 DEF AgentSend, HistoryOK
  <2>2. CASE CatchupFails(a, s)
    <3>1. agentTask[a][s].sent \subseteq Rollouts /\ agentTask[a][s].rows \subseteq Rollouts
      BY DEF TypeOK, TasksOK, AgentTasks
    <3> QED
      BY <1>1, <2>2, <3>1 DEF CatchupFails, HistoryOK, Missed, Fails
  <2> QED
    BY <1>2, <1>4, <2>1, <2>2 DEF Catchup, AgentSelect, AgentGet, AgentMark, history, missed
<1>5. ASSUME NEW r \in Rollouts, CreateRollout(r) \/ Abort(r)
      PROVE  HistoryOK'
  BY <1>2, <1>5 DEF CreateRollout, Abort, AbortSelect, AbortSend, AbortMark, AbortCut,
                    tasks, history, missed
<1>6. ASSUME NEW q \in Requests, NEW r \in Rollouts,
             BeginRequest(q, r) \/ FinishRequest(q, r) \/ DropRequest(q, r)
      PROVE  HistoryOK'
  BY <1>2, <1>6 DEF BeginRequest, FinishRequest, DropRequest, tasks, history, missed
<1>7. ASSUME NEW a \in Agents, NEW s \in Sessions, Inbound(a, s)
      PROVE  HistoryOK'
  BY <1>2, <1>7 DEF Inbound, IngestHello, IngestStatus, Attempt, CountInFlight, MarkCompleted,
                    CompletionFails, InboundEnd, tasks, history, missed
<1>8. ASSUME NEW a \in Agents, StreamAuth(a) \/ StreamRegister(a) \/ Receive(a)
      PROVE  HistoryOK'
  BY <1>2, <1>8 DEF StreamAuth, Attempt, StreamRegister, Receive, tasks, history, missed
<1>9. ASSUME NEW a \in Agents, Disconnect(a) \/ Restart(a)
      PROVE  HistoryOK'
  BY <1>1, <1>9 DEF Disconnect, Restart, Lost, Forgotten, HistoryOK
<1>10. ASSUME NEW a \in Agents, NEW w \in work[a],
              ReportStart(a, w) \/ ReportResult(a, w) \/ ReportAbort(a, w)
       PROVE  HistoryOK'
  BY <1>2, <1>10 DEF ReportStart, ReportResult, ReportAbort, tasks, history, missed
<1>11. CASE UNCHANGED vars
  BY <1>2, <1>11 DEF vars, tasks, history, missed
<1>12. CASE PanelRestart
  BY <1>1, <1>12 DEF PanelRestart, HistoryOK
<1> QED
  BY <1>3, <1>4, <1>5, <1>6, <1>7, <1>8, <1>9, <1>10, <1>11, <1>12
     DEF Next, Panel, Environment

\* Every handler keeps every table, task and queue within its type.
LEMMA NextTypeOK ==
  ASSUME TypeOK, [Next]_vars
  PROVE  TypeOK'
<1> USE RolloutAssumption
<1>0. HistoryOK'
  BY HistoryStep
<1>1. ASSUME NEW r \in Rollouts, CreateRollout(r)
       PROVE  TypeOK'
  <2>1. TablesOK'
    BY <1>1 DEF TypeOK, CreateRollout, TablesOK, RolloutStates, AssignStates
  <2>2. TasksOK'
    BY <1>1 DEF TypeOK, CreateRollout, TasksOK, RollTasks
  <2>3. UNCHANGED <<admin, session, down, up, loop, agents>>
    BY <1>1 DEF CreateRollout, wires, admin, tasks, history, missed, session, agents, tables
  <2> QED
    BY <1>0, <2>1, <2>2, <2>3, FrameOK DEF TypeOK
<1>2. ASSUME NEW r \in Rollouts, RollSelect(r)
       PROVE  TypeOK'
  <2>1. TasksOK'
    BY <1>2 DEF TypeOK, RollSelect, TasksOK, RollTasks
  <2>2. UNCHANGED <<tables, admin, session, down, up, loop, agents>>
    BY <1>2 DEF RollSelect, wires, admin, tasks, history, missed, session, agents, tables
  <2> QED
    BY <1>0, <2>1, <2>2, FrameOK DEF TypeOK
<1>3. ASSUME NEW r \in Rollouts, NEW a \in Agents, RollSkip(r, a)
       PROVE  TypeOK'
  <2>1. TasksOK'
    BY <1>3 DEF TypeOK, RollSkip, TasksOK, RollTasks
  <2>2. UNCHANGED <<tables, admin, session, down, up, loop, agents>>
    BY <1>3 DEF RollSkip, wires, admin, tasks, history, missed, session, agents, tables
  <2> QED
    BY <1>0, <2>1, <2>2, FrameOK DEF TypeOK
<1>4. ASSUME NEW r \in Rollouts, NEW a \in Agents, RollSend(r, a)
       PROVE  TypeOK'
  <2>1. TasksOK'
    <3>1. rollTask' \in [Rollouts -> RollTasks] /\ agentTask' = agentTask
      BY <1>4 DEF TypeOK, RollSend, TasksOK, RollTasks
    <3> QED
      BY <3>1 DEF TypeOK, TasksOK
  <2>2. DownOK'
    <3>1. PICK ok \in BOOLEAN : TrySend(a, hub[a], [kind |-> "update", r |-> r], ok)
      BY <1>4 DEF RollSend
    <3> QED
      BY <3>1, TrySendOK DEF TypeOK, Frame
  <2>3. UNCHANGED <<tables, admin, session, up, loop, agents>>
    BY <1>4 DEF RollSend, wires, admin, tasks, history, missed, session, agents, tables
  <2> QED
    BY <1>0, <2>1, <2>2, <2>3, FrameOK DEF TypeOK
<1>5. ASSUME NEW r \in Rollouts, NEW a \in Agents, RollMark(r, a)
       PROVE  TypeOK'
  <2>1. TablesOK'
    BY <1>5 DEF TypeOK, RollMark, TablesOK, MarkedSent, AssignStates
  <2>2. TasksOK'
    BY <1>5 DEF TypeOK, RollMark, TasksOK, RollTasks
  <2>3. UNCHANGED <<admin, session, down, up, loop, agents>>
    BY <1>5 DEF RollMark, wires, admin, tasks, history, missed, session, agents, tables
  <2> QED
    BY <1>0, <2>1, <2>2, <2>3, FrameOK DEF TypeOK
<1>6. ASSUME NEW q \in Requests, NEW r \in Rollouts, BeginRequest(q, r) \/ DropRequest(q, r)
       PROVE  TypeOK'
  <2>1. AdminOK'
    BY <1>6 DEF TypeOK, BeginRequest, DropRequest, AdminOK
  <2>2. UNCHANGED <<tables, rollTask, agentTask, session, down, up, loop, agents>>
    BY <1>6 DEF BeginRequest, DropRequest, wires, admin, tasks, history, missed, session, agents, tables
  <2> QED
    BY <1>0, <2>1, <2>2, FrameOK DEF TypeOK
<1>7. ASSUME NEW q \in Requests, NEW r \in Rollouts, FinishRequest(q, r)
       PROVE  TypeOK'
  <2>1. TablesOK'
    BY <1>7 DEF TypeOK, FinishRequest, TablesOK, Written, RolloutStates
  <2>2. AdminOK'
    BY <1>7 DEF TypeOK, FinishRequest, AdminOK, AbortTasks
  <2>3. UNCHANGED <<rollTask, agentTask, session, down, up, loop, agents>>
    BY <1>7 DEF FinishRequest, wires, admin, tasks, history, missed, session, agents, tables
  <2> QED
    BY <1>0, <2>1, <2>2, <2>3, FrameOK DEF TypeOK
<1>8. ASSUME NEW r \in Rollouts, AbortSelect(r)
       PROVE  TypeOK'
  <2>1. AdminOK'
    BY <1>8 DEF TypeOK, AbortSelect, AdminOK, AbortTasks
  <2>2. UNCHANGED <<tables, rollTask, agentTask, session, down, up, loop, agents>>
    BY <1>8 DEF AbortSelect, wires, admin, tasks, history, missed, session, agents, tables
  <2> QED
    BY <1>0, <2>1, <2>2, FrameOK DEF TypeOK
<1>9. ASSUME NEW r \in Rollouts, AbortSend(r)
       PROVE  TypeOK'
  <2>1. AdminOK'
    BY <1>9 DEF TypeOK, AbortSend, AdminOK, AbortTasks
  <2>2. DownOK'
    <3> DEFINE f == [kind |-> "abort", r |-> r]
    <3>1. \A b \in Agents : down'[b] = down[b] \/ (Len(down[b]) < QueueCap
                                                 /\ down'[b] = Append(down[b], f))
      BY <1>9 DEF AbortSend
    <3>2. f \in Frame
      BY DEF Frame
    <3> HIDE DEF f
    <3>3. ASSUME NEW b \in Agents
          PROVE  down'[b] \in Seq(Frame) /\ Len(down'[b]) <= QueueCap
      <4>1. down[b] \in Seq(Frame) /\ Len(down[b]) \in Nat /\ Len(down[b]) <= QueueCap
        BY DEF TypeOK, DownOK
      <4>2. Append(down[b], f) \in Seq(Frame) /\ Len(Append(down[b], f)) = Len(down[b]) + 1
        BY <3>2, <4>1
      <4>3. CASE down'[b] = down[b]
        BY <4>1, <4>3
      <4>4. CASE Len(down[b]) < QueueCap /\ down'[b] = Append(down[b], f)
        <5>1. QueueCap \in Nat
          BY DEF RolloutAssumption
        <5> QED
          BY <4>1, <4>2, <4>4, <5>1
      <4> QED
        BY <3>1, <4>3, <4>4
    <3>4. down' = [b \in Agents |-> down'[b]]
      BY <1>9 DEF AbortSend
    <3> QED
      BY <3>3, <3>4 DEF DownOK
  <2>3. UNCHANGED <<tables, rollTask, agentTask, session, up, loop, agents>>
    BY <1>9 DEF AbortSend, wires, admin, tasks, history, missed, session, agents, tables
  <2> QED
    BY <1>0, <2>1, <2>2, <2>3, FrameOK DEF TypeOK
<1>10. ASSUME NEW r \in Rollouts, AbortMark(r)
       PROVE  TypeOK'
  <2>1. TablesOK'
    BY <1>10 DEF TypeOK, AbortMark, TablesOK, AssignStates, InFlight
  <2>2. AdminOK'
    BY <1>10 DEF TypeOK, AbortMark, AdminOK, AbortTasks
  <2>3. UNCHANGED <<rollTask, agentTask, session, down, up, loop, agents>>
    BY <1>10 DEF AbortMark, wires, admin, tasks, history, missed, session, agents, tables
  <2> QED
    BY <1>0, <2>1, <2>2, <2>3, FrameOK DEF TypeOK
<1>11. ASSUME NEW a \in Agents, StreamAuth(a)
       PROVE  TypeOK'
  <2>1. TablesOK'
    <3>1. Correlated(a, running[a]) \in [Rollouts -> [Agents -> AssignStates]]
      BY DEF TypeOK, TablesOK, Correlated, AssignStates
    <3> QED
      BY <1>11, <3>1 DEF TypeOK, StreamAuth, Attempt, TablesOK
  <2>2. SessionOK'
    BY <1>11 DEF TypeOK, StreamAuth, Attempt, SessionOK
  <2>3. UNCHANGED <<admin, rollTask, agentTask, down, up, loop, agents>>
    BY <1>11 DEF StreamAuth, Attempt, wires, admin, tasks, history, missed, session, agents, tables
  <2> QED
    BY <1>0, <2>1, <2>2, <2>3, FrameOK DEF TypeOK
<1>12. ASSUME NEW a \in Agents, StreamRegister(a)
       PROVE  TypeOK'
  <2>1. TasksOK'
    <3>1. agentTask[a][sess[a] + 1] \in AgentTasks
      BY <1>12, NextSession DEF TypeOK, StreamRegister, TasksOK
    <3>2. [agentTask[a][sess[a] + 1] EXCEPT !.pc = "select"] \in AgentTasks
      BY <3>1 DEF AgentTasks
    <3> QED
      BY <1>12, <3>2, NextSession DEF TypeOK, StreamRegister, TasksOK, WithCatchup
  <2>2. SessionOK'
    BY <1>12 DEF TypeOK, StreamRegister, SessionOK
  <2>3. DownOK'
    BY <1>12 DEF TypeOK, StreamRegister, DownOK
  <2>4. UpOK'
    <3>1. [kind |-> "Hello", v |-> running[a]] \in Hello
      BY DEF TypeOK, AgentsOK, Hello
    <3>2. <<[kind |-> "Hello", v |-> running[a]]>> \in Seq(Hello \cup Status)
      BY <3>1
    <3> QED
      BY <1>12, <3>2, NextSession DEF TypeOK, StreamRegister, UpOK
  <2>5. UNCHANGED <<tables, admin, loop, agents>>
    BY <1>12 DEF StreamRegister, wires, admin, tasks, history, missed, session, agents, tables
  <2> QED
    BY <1>0, <2>1, <2>2, <2>3, <2>4, <2>5, FrameOK DEF TypeOK
<1>13. ASSUME NEW a \in Agents, NEW s \in Sessions, AgentSelect(a, s)
       PROVE  TypeOK'
  <2>1. TasksOK'
    BY <1>13 DEF TypeOK, AgentSelect, TasksOK, AgentTasks
  <2>2. UNCHANGED <<tables, admin, session, down, up, loop, agents>>
    BY <1>13 DEF AgentSelect, wires, admin, tasks, history, missed, session, agents, tables
  <2> QED
    BY <1>0, <2>1, <2>2, FrameOK DEF TypeOK
<1>14. ASSUME NEW a \in Agents, NEW s \in Sessions, AgentGet(a, s)
       PROVE  TypeOK'
  <2>1. TasksOK'
    <3>1. agentTask[a][s] \in AgentTasks /\ hub[a] \in 0 .. MaxSessions
      BY DEF TypeOK, TasksOK, SessionOK
    <3>2. \E t \in AgentTasks : agentTask' = [agentTask EXCEPT ![a][s] = t]
      BY <1>14, <3>1 DEF AgentGet, AgentTasks
    <3> QED
      BY <1>14, <3>2 DEF TypeOK, AgentGet, TasksOK
  <2>2. UNCHANGED <<tables, admin, session, down, up, loop, agents>>
    BY <1>14 DEF AgentGet, wires, admin, tasks, history, missed, session, agents, tables
  <2> QED
    BY <1>0, <2>1, <2>2, FrameOK DEF TypeOK
<1>15. ASSUME NEW r \in Rollouts, NEW a \in Agents, NEW s \in Sessions, AgentSend(a, s, r)
       PROVE  TypeOK'
  <2>1. TasksOK'
    <3>1. agentTask' \in [Agents -> [Sessions -> AgentTasks]] /\ rollTask' = rollTask
      <4>1. agentTask[a][s] \in AgentTasks
        BY DEF TypeOK, TasksOK
      <4> DEFINE taken == [agentTask[a][s] EXCEPT !.sent = {r}]
                 full  == [agentTask[a][s] EXCEPT !.rows = @ \ {r}]
      <4>2. taken \in AgentTasks /\ full \in AgentTasks
        BY <4>1 DEF AgentTasks
      <4>3. /\ \/ agentTask' = [agentTask EXCEPT ![a][s] = taken]
               \/ agentTask' = [agentTask EXCEPT ![a][s] = full]
            /\ rollTask' = rollTask
        BY <1>15 DEF AgentSend
      <4> HIDE DEF taken, full
      <4>4. agentTask \in [Agents -> [Sessions -> AgentTasks]]
        BY DEF TypeOK, TasksOK
      <4>5. \E t \in AgentTasks : agentTask' = [agentTask EXCEPT ![a][s] = t]
        BY <4>2, <4>3
      <4> QED
        BY <4>3, <4>4, <4>5
    <3> QED
      BY <3>1 DEF TypeOK, TasksOK
  <2>2. DownOK'
    <3>1. PICK ok \in BOOLEAN :
            TrySend(a, agentTask[a][s].to, [kind |-> "update", r |-> r], ok)
      BY <1>15 DEF AgentSend
    <3> QED
      BY <3>1, TrySendOK DEF TypeOK, Frame
  <2>3. UNCHANGED <<tables, admin, session, up, loop, agents>>
    BY <1>15 DEF AgentSend, wires, admin, tasks, history, missed, session, agents, tables
  <2> QED
    BY <1>0, <2>1, <2>2, <2>3, FrameOK DEF TypeOK
<1>16. ASSUME NEW r \in Rollouts, NEW a \in Agents, NEW s \in Sessions, AgentMark(a, s, r)
       PROVE  TypeOK'
  <2>1. TablesOK'
    BY <1>16 DEF TypeOK, AgentMark, TablesOK, MarkedSent, AssignStates
  <2>2. TasksOK'
    <3>1. agentTask[a][s] \in AgentTasks
      BY DEF TypeOK, TasksOK
    <3> DEFINE marked == [agentTask[a][s] EXCEPT !.sent = {}, !.rows = @ \ {r}]
    <3>2. marked \in AgentTasks
      BY <3>1 DEF AgentTasks
    <3>3. agentTask' = [agentTask EXCEPT ![a][s] = marked]
      BY <1>16, <3>1 DEF AgentMark, AgentTasks, TypeOK, TasksOK
    <3>4. UNCHANGED rollTask
      BY <1>16 DEF AgentMark
    <3> HIDE DEF marked
    <3> QED
      BY <3>2, <3>3, <3>4 DEF TypeOK, TasksOK
  <2>3. UNCHANGED <<admin, session, down, up, loop, agents>>
    BY <1>16 DEF AgentMark, wires, admin, tasks, history, missed, session, agents, tables
  <2> QED
    BY <1>0, <2>1, <2>2, <2>3, FrameOK DEF TypeOK
<1>17. ASSUME NEW a \in Agents, NEW s \in Sessions, IngestHello(a, s)
       PROVE  TypeOK'
  <2>1. TablesOK'
    BY <1>17 DEF TypeOK, IngestHello, Attempt, TablesOK, Correlated, AssignStates
  <2>2. UpOK'
    BY <1>17 DEF TypeOK, IngestHello, Attempt, UpOK
  <2>3. UNCHANGED <<admin, rollTask, agentTask, session, down, loop, agents>>
    BY <1>17 DEF IngestHello, Attempt, wires, admin, tasks, history, missed, session, agents, tables
  <2> QED
    BY <1>0, <2>1, <2>2, <2>3, FrameOK DEF TypeOK
<1>18. ASSUME NEW a \in Agents, NEW s \in Sessions, IngestStatus(a, s)
       PROVE  TypeOK'
  <2>1. TablesOK'
    BY <1>18 DEF TypeOK, IngestStatus, Attempt, TablesOK, Ingested, AssignStates
  <2>2. UpOK'
    BY <1>18 DEF TypeOK, IngestStatus, Attempt, UpOK
  <2>3. LoopOK'
    <3>1. Head(up[a][s]) \in Status
      BY <1>18 DEF TypeOK, UpOK, IngestStatus, Attempt, Hello
    <3>2. [pc |-> "count", of |-> {Head(up[a][s]).r}] \in Loops
      BY <3>1 DEF Loops, Status
    <3> QED
      BY <1>18, <3>2 DEF TypeOK, IngestStatus, Attempt, LoopOK
  <2>4. UNCHANGED <<admin, rollTask, agentTask, session, down, agents>>
    BY <1>18 DEF IngestStatus, Attempt, wires, admin, tasks, history, missed, session, agents, tables
  <2> QED
    BY <1>0, <2>1, <2>2, <2>3, <2>4, FrameOK DEF TypeOK
<1>19. ASSUME NEW a \in Agents, NEW s \in Sessions, CountInFlight(a, s)
       PROVE  TypeOK'
  <2>1. LoopOK'
    BY <1>19 DEF TypeOK, CountInFlight, LoopOK, Loops, Idle
  <2>2. UNCHANGED <<tables, admin, rollTask, agentTask, session, down, up, agents>>
    BY <1>19 DEF CountInFlight, wires, admin, tasks, history, missed, session, agents, tables
  <2> QED
    BY <1>0, <2>1, <2>2, FrameOK DEF TypeOK
<1>20. ASSUME NEW a \in Agents, NEW s \in Sessions, MarkCompleted(a, s)
       PROVE  TypeOK'
  <2>1. TablesOK'
    BY <1>20 DEF TypeOK, MarkCompleted, TablesOK, Completed, RolloutStates
  <2>2. LoopOK'
    BY <1>20 DEF TypeOK, MarkCompleted, LoopOK, Loops, Idle
  <2>3. UNCHANGED <<admin, rollTask, agentTask, session, down, up, agents>>
    BY <1>20 DEF MarkCompleted, wires, admin, tasks, history, missed, session, agents, tables
  <2> QED
    BY <1>0, <2>1, <2>2, <2>3, FrameOK DEF TypeOK
<1>21. ASSUME NEW a \in Agents, NEW s \in Sessions, InboundEnd(a, s)
       PROVE  TypeOK'
  <2>1. SessionOK'
    BY <1>21 DEF TypeOK, InboundEnd, SessionOK, HubAfterEnd
  <2>2. UNCHANGED <<tables, admin, rollTask, agentTask, down, up, loop, agents>>
    BY <1>21 DEF InboundEnd, wires, admin, tasks, history, missed, session, agents, tables
  <2> QED
    BY <1>0, <2>1, <2>2, FrameOK DEF TypeOK
<1>22. ASSUME NEW a \in Agents, Receive(a)
       PROVE  TypeOK'
  <2>1. DownOK'
    BY <1>22 DEF TypeOK, Receive, DownOK
  <2>2. AgentsOK'
    <3>1. Head(down[a]) \in Frame
      BY <1>22 DEF TypeOK, DownOK, Receive
    <3> DEFINE w == [r |-> Head(down[a]).r,
                     stage |-> IF Head(down[a]).kind = "update" THEN "start" ELSE "abort"]
    <3>2. w \in Work
      BY <3>1 DEF Frame, Work
    <3>3. work' = [work EXCEPT ![a] = @ \cup {w}] /\ running' = running
      BY <1>22 DEF Receive
    <3> HIDE DEF w
    <3> QED
      BY <3>2, <3>3 DEF TypeOK, AgentsOK
  <2>3. UNCHANGED <<tables, admin, rollTask, agentTask, session, up, loop>>
    BY <1>22 DEF Receive, wires, admin, tasks, history, missed, session, agents, tables
  <2> QED
    BY <1>0, <2>1, <2>2, <2>3, FrameOK DEF TypeOK
<1>23. ASSUME NEW a \in Agents, NEW w \in work[a], ReportStart(a, w)
       PROVE  TypeOK'
  <2>1. UpOK'
    <3>1. Say(a, w.r, "Downloading") /\ link[a] = "up" /\ w \in Work
      BY <1>23 DEF TypeOK, AgentsOK, ReportStart
    <3> QED
      BY <3>1, SayOK DEF TypeOK, AgentStates, Work
  <2>2. AgentsOK'
    BY <1>23 DEF TypeOK, ReportStart, AgentsOK, Work
  <2>3. UNCHANGED <<tables, admin, rollTask, agentTask, session, down, loop>>
    BY <1>23 DEF ReportStart, wires, admin, tasks, history, missed, session, agents, tables
  <2> QED
    BY <1>0, <2>1, <2>2, <2>3, FrameOK DEF TypeOK
<1>24. ASSUME NEW a \in Agents, NEW w \in work[a], ReportResult(a, w)
       PROVE  TypeOK'
  <2>1. UpOK'
    <3>1. /\ Say(a, w.r, "Staged") \/ Say(a, w.r, "Failed")
          /\ link[a] = "up" /\ w \in Work
      BY <1>24 DEF TypeOK, AgentsOK, ReportResult
    <3> QED
      BY <3>1, SayOK DEF TypeOK, AgentStates, Work
  <2>2. AgentsOK'
    BY <1>24 DEF TypeOK, ReportResult, AgentsOK, Work
  <2>3. UNCHANGED <<tables, admin, rollTask, agentTask, session, down, loop>>
    BY <1>24 DEF ReportResult, wires, admin, tasks, history, missed, session, agents, tables
  <2> QED
    BY <1>0, <2>1, <2>2, <2>3, FrameOK DEF TypeOK
<1>25. ASSUME NEW a \in Agents, NEW w \in work[a], ReportAbort(a, w)
       PROVE  TypeOK'
  <2>1. UpOK'
    <3>1. Say(a, w.r, "Failed") /\ link[a] = "up" /\ w \in Work
      BY <1>25 DEF TypeOK, AgentsOK, ReportAbort
    <3> QED
      BY <3>1, SayOK DEF TypeOK, AgentStates, Work
  <2>2. AgentsOK'
    BY <1>25 DEF TypeOK, ReportAbort, AgentsOK, Work
  <2>3. UNCHANGED <<tables, admin, rollTask, agentTask, session, down, loop>>
    BY <1>25 DEF ReportAbort, wires, admin, tasks, history, missed, session, agents, tables
  <2> QED
    BY <1>0, <2>1, <2>2, <2>3, FrameOK DEF TypeOK
<1>26. ASSUME NEW a \in Agents, Disconnect(a)
       PROVE  TypeOK'
  <2>1. SessionOK'
    BY <1>26 DEF TypeOK, Disconnect, SessionOK, Lost
  <2>2. DownOK'
    BY <1>26 DEF TypeOK, Disconnect, DownOK, Lost
  <2>3. UpOK'
    BY <1>26, LostUpOK DEF TypeOK, Disconnect
  <2>4. AgentsOK'
    BY <1>26 DEF TypeOK, Disconnect, AgentsOK, Lost
  <2>5. UNCHANGED <<tables, admin, rollTask, agentTask, loop>>
    BY <1>26 DEF Disconnect, wires, admin, tasks, history, missed, session, agents, tables
  <2> QED
    BY <1>0, <2>1, <2>2, <2>3, <2>4, <2>5, FrameOK DEF TypeOK
<1>27. ASSUME NEW a \in Agents, Restart(a)
       PROVE  TypeOK'
  <2>1. SessionOK'
    BY <1>27 DEF TypeOK, Restart, SessionOK, Lost
  <2>2. DownOK'
    BY <1>27 DEF TypeOK, Restart, DownOK, Lost
  <2>3. UpOK'
    BY <1>27, LostUpOK DEF TypeOK, Restart
  <2>4. AgentsOK'
    BY <1>27 DEF TypeOK, Restart, AgentsOK, Lost
  <2>5. UNCHANGED <<tables, admin, rollTask, agentTask, loop>>
    BY <1>27 DEF Restart, wires, admin, tasks, history, missed, session, agents, tables
  <2> QED
    BY <1>0, <2>1, <2>2, <2>3, <2>4, <2>5, FrameOK DEF TypeOK
<1>28. CASE UNCHANGED vars
  BY <1>0, <1>28, FrameOK DEF TypeOK, vars, wires, tasks
<1>29. CASE PanelRestart
  <2>1. AdminOK' /\ LoopOK' /\ UpOK' /\ DownOK'
    BY <1>29 DEF PanelRestart, TypeOK, AdminOK, AbortTasks, LoopOK, Loops, Idle, UpOK, DownOK
  <2>2. TasksOK'
    BY <1>29 DEF PanelRestart, TypeOK, TasksOK, RollTasks, AgentTasks
  <2>3. SessionOK' /\ AgentsOK'
    BY <1>29 DEF PanelRestart, TypeOK, SessionOK, AgentsOK
  <2>4. UNCHANGED tables
    BY <1>29 DEF PanelRestart
  <2> QED
    BY <1>0, <2>1, <2>2, <2>3, <2>4, FrameOK DEF TypeOK
<1>30. ASSUME NEW r \in Rollouts, RollCut(r)
       PROVE  TypeOK'
  <2>1. TasksOK'
    BY <1>30 DEF TypeOK, RollCut, TasksOK, RollTasks
  <2>2. UNCHANGED <<tables, admin, session, down, up, loop, agents>>
    BY <1>30 DEF RollCut, wires, admin, session, agents, tables
  <2> QED
    BY <1>0, <2>1, <2>2, FrameOK DEF TypeOK
<1>31. ASSUME NEW a \in Agents, NEW s \in Sessions, CatchupFails(a, s)
       PROVE  TypeOK'
  <2>1. TasksOK'
    BY <1>31 DEF TypeOK, CatchupFails, TasksOK, AgentTasks
  <2>2. UNCHANGED <<tables, admin, session, down, up, loop, agents>>
    BY <1>31 DEF CatchupFails, wires, admin, session, agents, tables
  <2> QED
    BY <1>0, <2>1, <2>2, FrameOK DEF TypeOK
<1>32. ASSUME NEW r \in Rollouts, AbortCut(r)
       PROVE  TypeOK'
  <2>1. AdminOK'
    BY <1>32 DEF TypeOK, AbortCut, AdminOK, AbortTasks
  <2>2. UNCHANGED <<tables, rollTask, agentTask, session, down, up, loop, agents>>
    BY <1>32 DEF AbortCut, wires, session, agents, tables
  <2> QED
    BY <1>0, <2>1, <2>2, FrameOK DEF TypeOK
<1>33. ASSUME NEW a \in Agents, NEW s \in Sessions, CompletionFails(a, s)
       PROVE  TypeOK'
  <2>1. LoopOK'
    BY <1>33 DEF TypeOK, CompletionFails, LoopOK, Loops, Idle
  <2>2. UNCHANGED <<tables, admin, rollTask, agentTask, session, down, up, agents>>
    BY <1>33 DEF CompletionFails, wires, admin, session, agents, tables
  <2> QED
    BY <1>0, <2>1, <2>2, FrameOK DEF TypeOK
<1> QED
  BY <1>1, <1>2, <1>3, <1>4, <1>5, <1>6, <1>7, <1>8, <1>9, <1>10, <1>11, <1>12, <1>13, <1>14, <1>15,
     <1>16, <1>17, <1>18, <1>19, <1>20, <1>21, <1>22, <1>23, <1>24, <1>25, <1>26, <1>27, <1>28,
     <1>29, <1>30, <1>31, <1>32, <1>33
     DEF Next, Panel, Environment, Dispatch, Catchup, Abort, Inbound

\* The type invariant; with it, try_send keeps the downstream queue within its
\* buffer, and the loops and tasks only hold rows of known agents.
THEOREM TypeCorrect == Spec => []TypeOK
<1>1. TypeOK /\ [Next]_vars => TypeOK'
  BY NextTypeOK
<1> QED
  BY <1>1, InitTypeOK, PTL DEF Spec

----------------------------------------------------------------------------
(* The hub.                                                                *)

\* The hub entry of a connected agent is its current session: the stale end
\* of an older stream cannot remove it (remove_if_matches).
THEOREM LiveSessionRegistered == Spec => []LiveIsRegistered
<1> USE RolloutAssumption
<1>1. Init => LiveIsRegistered
  BY DEF Init, LiveIsRegistered
<1>2. TypeOK /\ LiveIsRegistered /\ [Next]_vars => LiveIsRegistered'
  <2> SUFFICES ASSUME TypeOK, LiveIsRegistered, [Next]_vars PROVE LiveIsRegistered'
    OBVIOUS
  <2> USE DEF LiveIsRegistered
  <2>1. CASE UNCHANGED session
    BY <2>1 DEF session
  <2>2. ASSUME NEW a \in Agents, StreamAuth(a)
        PROVE  LiveIsRegistered'
    BY <2>2 DEF StreamAuth, Attempt, TypeOK, SessionOK
  <2>3. ASSUME NEW a \in Agents, StreamRegister(a)
        PROVE  LiveIsRegistered'
    BY <2>3 DEF StreamRegister, TypeOK, SessionOK
  <2>4. ASSUME NEW a \in Agents, NEW s \in Sessions, InboundEnd(a, s)
        PROVE  LiveIsRegistered'
    BY <2>4 DEF InboundEnd, HubAfterEnd, Live, TypeOK, SessionOK
  <2>5. ASSUME NEW a \in Agents, Disconnect(a) \/ Restart(a)
        PROVE  LiveIsRegistered'
    BY <2>5 DEF Disconnect, Restart, Lost, TypeOK, SessionOK
  <2>6. ASSUME NEW r \in Rollouts, CreateRollout(r) \/ Dispatch(r) \/ Abort(r)
        PROVE  UNCHANGED session
    BY <2>6 DEF CreateRollout, Dispatch, RollSelect, RollSkip, RollSend, RollMark, RollCut,
                Abort, AbortSelect, AbortSend, AbortMark, AbortCut
  <2>7. ASSUME NEW q \in Requests, NEW r \in Rollouts, BeginRequest(q, r) \/ FinishRequest(q, r) \/ DropRequest(q, r)
        PROVE  UNCHANGED session
    BY <2>7 DEF BeginRequest, FinishRequest, DropRequest
  <2>8. ASSUME NEW a \in Agents, NEW s \in Sessions, Catchup(a, s)
        PROVE  UNCHANGED session
    BY <2>8 DEF Catchup, AgentSelect, AgentGet, AgentSend, AgentMark, CatchupFails
  <2>9. ASSUME NEW a \in Agents, NEW s \in Sessions, Inbound(a, s), ~InboundEnd(a, s)
        PROVE  UNCHANGED session
    BY <2>9 DEF Inbound, IngestHello, Attempt, IngestStatus, CountInFlight, MarkCompleted, CompletionFails
  <2>10. ASSUME NEW a \in Agents, Receive(a)
         PROVE  UNCHANGED session
    BY <2>10 DEF Receive
  <2>11. ASSUME NEW a \in Agents, NEW w \in work[a],
                ReportStart(a, w) \/ ReportResult(a, w) \/ ReportAbort(a, w)
         PROVE  UNCHANGED session
    BY <2>11 DEF ReportStart, ReportResult, ReportAbort
  <2>12. CASE UNCHANGED vars
    BY <2>12 DEF vars, session
  <2>13. CASE PanelRestart
    BY <2>13 DEF PanelRestart
  <2> QED
    BY <2>1, <2>2, <2>3, <2>4, <2>5, <2>6, <2>7, <2>8, <2>9, <2>10, <2>11, <2>12, <2>13
       DEF Next, Panel, Environment
<1>3. QED
  BY <1>1, <1>2, TypeCorrect, PTL DEF Spec

----------------------------------------------------------------------------
(* Everything that names a rollout names one that was created, so a row can *)
(* only become pending before anything can complete its rollout.            *)

Created == {r \in Rollouts : rollout[r] # "none"}

TasksKnown ==
  /\ \A r \in Rollouts \ Created :
       rollTask[r] = [pc |-> "idle", rows |-> {}, sent |-> {}] /\ abortTask[r].pc = "idle"
  /\ \A a \in Agents, s \in Sessions : agentTask[a][s].rows \subseteq Created

DownKnown == \A a \in Agents : down[a] \in Seq([kind : {"update", "abort"}, r : Created])
UpKnown ==
  \A a \in Agents, s \in Sessions : up[a][s] \in Seq(Hello \cup [kind : AgentStates, r : Created])
WorkKnown == \A a \in Agents : \A w \in work[a] : w.r \in Created
LoopKnown == \A a \in Agents, s \in Sessions : loop[a][s].of \subseteq Created

Known == TasksKnown /\ DownKnown /\ UpKnown /\ WorkKnown /\ LoopKnown

Shipped(r) == \A a \in Agents : assign[r][a] # "pending"

\* A loop that has counted zero rows in flight completes a rollout that has no
\* pending row, and will not have one again.
CompletionSafe ==
  /\ \A r \in Rollouts : rollout[r] = "completed" => Shipped(r)
  /\ \A a \in Agents, s \in Sessions :
       loop[a][s].pc = "complete" => \A r \in loop[a][s].of : Shipped(r)

\* Sequences over a set are sequences over any larger set.
LEMMA SeqGrows ==
  ASSUME NEW S, NEW T, S \subseteq T, NEW q \in Seq(S)
  PROVE  q \in Seq(T)
OBVIOUS

\* A rollout row is never deleted.
LEMMA CreatedGrows ==
  ASSUME TypeOK, [Next]_vars
  PROVE  Created \subseteq Created'
<1> USE DEF Created
<1>1. CASE UNCHANGED rollout
  BY <1>1
<1>2. ASSUME NEW r \in Rollouts, CreateRollout(r)
      PROVE  Created \subseteq Created'
  BY <1>2 DEF CreateRollout, TypeOK, TablesOK
<1>3. ASSUME NEW q \in Requests, NEW r \in Rollouts, FinishRequest(q, r)
      PROVE  Created \subseteq Created'
  BY <1>3, RolloutAssumption DEF FinishRequest, Written, TypeOK, TablesOK
<1>4. ASSUME NEW a \in Agents, NEW s \in Sessions, MarkCompleted(a, s)
      PROVE  Created \subseteq Created'
  BY <1>4 DEF MarkCompleted, Completed, TypeOK, TablesOK, LoopOK, Loops
<1>5. ASSUME NEW r \in Rollouts, Dispatch(r) \/ Abort(r)
      PROVE  UNCHANGED rollout
  BY <1>5 DEF Dispatch, RollSelect, RollSkip, RollSend, RollMark, RollCut,
              Abort, AbortSelect, AbortSend, AbortMark, AbortCut, tables
<1>6. ASSUME NEW q \in Requests, NEW r \in Rollouts, BeginRequest(q, r) \/ DropRequest(q, r)
      PROVE  UNCHANGED rollout
  BY <1>6 DEF BeginRequest, DropRequest, tables
<1>7. ASSUME NEW a \in Agents, NEW s \in Sessions, Catchup(a, s)
      PROVE  UNCHANGED rollout
  BY <1>7 DEF Catchup, AgentSelect, AgentGet, AgentSend, AgentMark, CatchupFails, tables
<1>8. ASSUME NEW a \in Agents, NEW s \in Sessions, Inbound(a, s), ~MarkCompleted(a, s)
      PROVE  UNCHANGED rollout
  BY <1>8 DEF Inbound, IngestHello, Attempt, IngestStatus, CountInFlight, CompletionFails, InboundEnd, tables
<1>9. ASSUME NEW a \in Agents,
             StreamAuth(a) \/ StreamRegister(a) \/ Receive(a) \/ Disconnect(a) \/ Restart(a)
      PROVE  UNCHANGED rollout
  BY <1>9 DEF StreamAuth, Attempt, StreamRegister, Receive, Disconnect, Restart, tables
<1>10. ASSUME NEW a \in Agents, NEW w \in work[a],
              ReportStart(a, w) \/ ReportResult(a, w) \/ ReportAbort(a, w)
       PROVE  UNCHANGED rollout
  BY <1>10 DEF ReportStart, ReportResult, ReportAbort, tables
<1>11. CASE UNCHANGED vars
  BY <1>11 DEF vars, tables
<1>12. CASE PanelRestart
  BY <1>1, <1>12 DEF PanelRestart, tables
<1> QED
  BY <1>1, <1>2, <1>3, <1>4, <1>5, <1>6, <1>7, <1>8, <1>9, <1>10, <1>11, <1>12
     DEF Next, Panel, Environment

\* What a step leaves alone still names created rollouts only.
LEMMA KnownFrame ==
  ASSUME TypeOK, [Next]_vars
  PROVE  /\ DownKnown /\ UNCHANGED down => DownKnown'
         /\ UpKnown /\ UNCHANGED up => UpKnown'
         /\ WorkKnown /\ UNCHANGED work => WorkKnown'
         /\ LoopKnown /\ UNCHANGED loop => LoopKnown'
         /\ TasksKnown /\ UNCHANGED <<rollTask, abortTask, agentTask>> => TasksKnown'
<1> DEFINE F == [kind : {"update", "abort"}, r : Created]
           S == Hello \cup [kind : AgentStates, r : Created]
<1>1. Created \subseteq Created'
  BY CreatedGrows
<1>2. F \subseteq F' /\ S \subseteq S'
  BY <1>1 DEF Hello, AgentStates
<1>3. DownKnown /\ UNCHANGED down => DownKnown'
  <2> SUFFICES ASSUME DownKnown, UNCHANGED down PROVE DownKnown'
    OBVIOUS
  <2> SUFFICES ASSUME NEW a \in Agents PROVE down'[a] \in Seq(F')
    BY DEF DownKnown
  <2>1. down[a] \in Seq(F)
    BY DEF DownKnown
  <2> HIDE DEF F
  <2> QED
    BY <1>2, <2>1, SeqGrows
<1>4. UpKnown /\ UNCHANGED up => UpKnown'
  <2> SUFFICES ASSUME UpKnown, UNCHANGED up PROVE UpKnown'
    OBVIOUS
  <2> SUFFICES ASSUME NEW a \in Agents, NEW s \in Sessions PROVE up'[a][s] \in Seq(S')
    BY DEF UpKnown, Hello, AgentStates
  <2>1. up[a][s] \in Seq(S)
    BY DEF UpKnown
  <2> HIDE DEF S
  <2> QED
    BY <1>2, <2>1, SeqGrows
<1>5. WorkKnown /\ UNCHANGED work => WorkKnown'
  BY <1>1 DEF WorkKnown
<1>6. LoopKnown /\ UNCHANGED loop => LoopKnown'
  BY <1>1 DEF LoopKnown
<1>7. TasksKnown /\ UNCHANGED <<rollTask, abortTask, agentTask>> => TasksKnown'
  BY <1>1 DEF TasksKnown
<1> QED
  BY <1>3, <1>4, <1>5, <1>6, <1>7

\* Dispatchers and the abort fan-out only work for created rollouts.
LEMMA TasksKnownStep ==
  ASSUME TypeOK, TasksKnown, [Next]_vars
  PROVE  TasksKnown'
<1> USE RolloutAssumption
<1>1. CASE UNCHANGED <<rollTask, abortTask, agentTask>>
  BY <1>1, KnownFrame
<1>2. ASSUME NEW r \in Rollouts, CreateRollout(r)
      PROVE  TasksKnown'
  BY <1>2, CreatedGrows DEF CreateRollout, TasksKnown, Created, admin, TypeOK, TablesOK
<1>3. ASSUME NEW r \in Rollouts, Dispatch(r)
      PROVE  TasksKnown'
  <2>1. r \in Created
    BY <1>3 DEF Dispatch, RollSelect, RollSkip, RollSend, RollMark, RollCut, TasksKnown
  <2>2. UNCHANGED <<rollout, abortTask, agentTask>>
    BY <1>3 DEF Dispatch, RollSelect, RollSkip, RollSend, RollMark, RollCut, tables, admin
  <2>3. \A q \in Rollouts \ {r} : rollTask'[q] = rollTask[q]
    BY <1>3 DEF Dispatch, RollSelect, RollSkip, RollSend, RollMark, RollCut, TypeOK, TasksOK
  <2> QED
    BY <2>1, <2>2, <2>3 DEF TasksKnown, Created
<1>4. ASSUME NEW r \in Rollouts, Abort(r)
      PROVE  TasksKnown'
  <2>1. r \in Created
    BY <1>4 DEF Abort, AbortSelect, AbortSend, AbortMark, AbortCut, TasksKnown
  <2>2. UNCHANGED <<rollout, rollTask, agentTask>>
    BY <1>4 DEF Abort, AbortSelect, AbortSend, AbortMark, AbortCut, tables, tasks, history, missed
  <2>3. \A q \in Rollouts \ {r} : abortTask'[q] = abortTask[q]
    BY <1>4 DEF Abort, AbortSelect, AbortSend, AbortMark, AbortCut, TypeOK, AdminOK
  <2> QED
    BY <2>1, <2>2, <2>3 DEF TasksKnown, Created
<1>5. ASSUME NEW q \in Requests, NEW r \in Rollouts, FinishRequest(q, r)
      PROVE  TasksKnown'
  <2>1. r \in Created'
    BY <1>5 DEF FinishRequest, Written, Created, TypeOK, TablesOK
  <2>2. UNCHANGED <<rollTask, agentTask>>
    BY <1>5 DEF FinishRequest, tasks, history, missed
  <2>3. \A p \in Rollouts \ {r} : abortTask'[p] = abortTask[p]
    BY <1>5 DEF FinishRequest, TypeOK, AdminOK
  <2> QED
    BY <2>1, <2>2, <2>3, CreatedGrows DEF TasksKnown
<1>6. ASSUME NEW a \in Agents, StreamRegister(a)
      PROVE  TasksKnown'
  <2>1. UNCHANGED <<rollout, rollTask, abortTask>>
    BY <1>6 DEF StreamRegister, tables, admin
  <2>2. \A b \in Agents, s \in Sessions : agentTask'[b][s].rows = agentTask[b][s].rows
    BY <1>6, NextSession DEF StreamRegister, WithCatchup, TypeOK, TasksOK, AgentTasks
  <2> QED
    BY <2>1, <2>2 DEF TasksKnown, Created
<1>7. ASSUME NEW a \in Agents, NEW s \in Sessions, Catchup(a, s)
      PROVE  TasksKnown'
  <2>1. UNCHANGED <<rollout, rollTask, abortTask>>
    BY <1>7 DEF Catchup, AgentSelect, AgentGet, AgentSend, AgentMark, CatchupFails, tables, admin
  <2>2. CASE AgentSelect(a, s)
    <3>1. \A b \in Agents, t \in Sessions :
            agentTask'[b][t].rows \subseteq agentTask[b][t].rows \cup
              {r \in Rollouts : assign[r][b] = "pending" /\ rollout[r] \in Open}
      BY <2>2 DEF AgentSelect, TypeOK, TasksOK
    <3> QED
      BY <2>1, <3>1 DEF TasksKnown, Created, Open
  <2>3. CASE AgentGet(a, s)
    <3>1. \A b \in Agents, t \in Sessions :
            agentTask'[b][t].rows \subseteq agentTask[b][t].rows
      BY <2>3 DEF AgentGet, TypeOK, TasksOK
    <3> QED
      BY <2>1, <3>1 DEF TasksKnown, Created
  <2>4. ASSUME NEW r \in Rollouts, AgentSend(a, s, r)
        PROVE  TasksKnown'
    <3> DEFINE taken == [agentTask[a][s] EXCEPT !.sent = {r}]
               full  == [agentTask[a][s] EXCEPT !.rows = @ \ {r}]
    <3>1. agentTask[a][s] \in AgentTasks
      BY DEF TypeOK, TasksOK
    <3>2. taken.rows \subseteq agentTask[a][s].rows /\ full.rows \subseteq agentTask[a][s].rows
      BY <3>1 DEF AgentTasks
    <3>3. \/ agentTask' = [agentTask EXCEPT ![a][s] = taken]
          \/ agentTask' = [agentTask EXCEPT ![a][s] = full]
      BY <2>4 DEF AgentSend
    <3> HIDE DEF taken, full
    <3>4. \A b \in Agents, t \in Sessions :
            agentTask'[b][t].rows \subseteq agentTask[b][t].rows
      BY <3>2, <3>3 DEF TypeOK, TasksOK
    <3> QED
      BY <2>1, <3>4 DEF TasksKnown, Created
  <2>5. ASSUME NEW r \in Rollouts, AgentMark(a, s, r)
        PROVE  TasksKnown'
    <3> DEFINE marked == [agentTask[a][s] EXCEPT !.sent = {}, !.rows = @ \ {r}]
    <3>1. agentTask[a][s] \in AgentTasks
      BY DEF TypeOK, TasksOK
    <3>2. marked.rows \subseteq agentTask[a][s].rows
      BY <3>1 DEF AgentTasks
    <3>3. agentTask' = [agentTask EXCEPT ![a][s] = marked]
      BY <2>5, <3>1 DEF AgentMark, AgentTasks, TypeOK, TasksOK
    <3> HIDE DEF marked
    <3>4. \A b \in Agents, t \in Sessions :
            agentTask'[b][t].rows \subseteq agentTask[b][t].rows
      BY <3>2, <3>3 DEF TypeOK, TasksOK
    <3> QED
      BY <2>1, <3>4 DEF TasksKnown, Created
  <2>6. CASE CatchupFails(a, s)
    <3>1. \A b \in Agents, t \in Sessions :
            agentTask'[b][t].rows \subseteq agentTask[b][t].rows
      BY <2>6 DEF CatchupFails, TypeOK, TasksOK
    <3> QED
      BY <2>1, <3>1 DEF TasksKnown, Created
  <2> QED
    BY <1>7, <2>2, <2>3, <2>4, <2>5, <2>6 DEF Catchup
<1>8. ASSUME NEW q \in Requests, NEW r \in Rollouts, BeginRequest(q, r) \/ DropRequest(q, r)
      PROVE  UNCHANGED <<rollTask, abortTask, agentTask>>
  BY <1>8 DEF BeginRequest, DropRequest, tasks, history, missed
<1>9. ASSUME NEW a \in Agents, NEW s \in Sessions, Inbound(a, s)
      PROVE  UNCHANGED <<rollTask, abortTask, agentTask>>
  BY <1>9 DEF Inbound, IngestHello, Attempt, IngestStatus, CountInFlight, MarkCompleted, CompletionFails, InboundEnd,
              tasks, history, missed, admin
<1>10. ASSUME NEW a \in Agents, StreamAuth(a) \/ Receive(a) \/ Disconnect(a) \/ Restart(a)
       PROVE  UNCHANGED <<rollTask, abortTask, agentTask>>
  BY <1>10 DEF StreamAuth, Attempt, Receive, Disconnect, Restart, tasks, history, missed, admin
<1>11. ASSUME NEW a \in Agents, NEW w \in work[a],
              ReportStart(a, w) \/ ReportResult(a, w) \/ ReportAbort(a, w)
       PROVE  UNCHANGED <<rollTask, abortTask, agentTask>>
  BY <1>11 DEF ReportStart, ReportResult, ReportAbort, tasks, history, missed, admin
<1>12. CASE UNCHANGED vars
  BY <1>1, <1>12 DEF vars, tasks, history, missed, admin
<1>13. CASE PanelRestart
  BY <1>13 DEF PanelRestart, TasksKnown, Created, tables
<1> QED
  BY <1>1, <1>2, <1>3, <1>4, <1>5, <1>6, <1>7, <1>8, <1>9, <1>10, <1>11, <1>12, <1>13
     DEF Next, Panel, Environment

\* An update frame is queued by a dispatcher of its rollout, an abort frame by
\* the rollout's abort fan-out.
LEMMA DownKnownStep ==
  ASSUME TypeOK, TasksKnown, DownKnown, [Next]_vars
  PROVE  DownKnown'
<1> USE RolloutAssumption
<1> DEFINE F == [kind : {"update", "abort"}, r : Created]
<1>1. CASE UNCHANGED down
  BY <1>1, KnownFrame
<1>2. ASSUME UNCHANGED rollout,
             \A a \in Agents : down'[a] \in Seq(F)
      PROVE  DownKnown'
  BY <1>2 DEF DownKnown, Created
<1>3. \A a \in Agents : down[a] \in Seq(F)
  BY DEF DownKnown
<1>4. ASSUME NEW a \in Agents, NEW s, NEW r \in Created, NEW ok \in BOOLEAN,
             TrySend(a, s, [kind |-> "update", r |-> r], ok), UNCHANGED rollout
      PROVE  DownKnown'
  <2> DEFINE f == [kind |-> "update", r |-> r]
  <2>1. f \in F
    OBVIOUS
  <2>2. down' = down \/ down' = [down EXCEPT ![a] = Append(@, f)]
    BY <1>4 DEF TrySend
  <2> HIDE DEF f, F
  <2>3. Append(down[a], f) \in Seq(F)
    BY <1>3, <2>1
  <2> QED
    BY <1>2, <1>3, <1>4, <2>2, <2>3 DEF TypeOK, DownOK
<1>5. ASSUME NEW r \in Rollouts, NEW a \in Agents, RollSend(r, a)
      PROVE  DownKnown'
  BY <1>4, <1>5 DEF RollSend, TasksKnown, tables
<1>6. ASSUME NEW a \in Agents, NEW s \in Sessions, NEW r \in Rollouts, AgentSend(a, s, r)
      PROVE  DownKnown'
  BY <1>4, <1>6 DEF AgentSend, TasksKnown, tables
<1>7. ASSUME NEW r \in Rollouts, AbortSend(r)
      PROVE  DownKnown'
  <2> DEFINE f == [kind |-> "abort", r |-> r]
  <2>1. r \in Created /\ UNCHANGED rollout
    BY <1>7 DEF AbortSend, TasksKnown, tables
  <2>2. f \in F
    BY <2>1
  <2>3. \A b \in Agents : down'[b] = down[b] \/ down'[b] = Append(down[b], f)
    BY <1>7 DEF AbortSend
  <2> HIDE DEF f, F
  <2>4. ASSUME NEW b \in Agents
        PROVE  down'[b] \in Seq(F)
    BY <1>3, <2>2, <2>3
  <2> QED
    BY <1>2, <2>1, <2>4
<1>8. ASSUME NEW a \in Agents, StreamRegister(a)
      PROVE  DownKnown'
  <2>1. UNCHANGED rollout /\ down' = [down EXCEPT ![a] = <<>>]
    BY <1>8 DEF StreamRegister, tables
  <2> HIDE DEF F
  <2> QED
    BY <1>2, <1>3, <2>1 DEF TypeOK, DownOK
<1>9. ASSUME NEW a \in Agents, Receive(a)
      PROVE  DownKnown'
  <2>1. UNCHANGED rollout /\ down' = [down EXCEPT ![a] = Tail(@)] /\ down[a] # <<>>
    BY <1>9 DEF Receive, tables
  <2> HIDE DEF F
  <2>2. Tail(down[a]) \in Seq(F)
    BY <1>3, <2>1
  <2> QED
    BY <1>2, <1>3, <2>1, <2>2 DEF TypeOK, DownOK
<1>10. ASSUME NEW a \in Agents, Disconnect(a) \/ Restart(a)
       PROVE  DownKnown'
  <2>1. UNCHANGED rollout /\ down' = [down EXCEPT ![a] = <<>>]
    BY <1>10 DEF Disconnect, Restart, Lost, tables
  <2> HIDE DEF F
  <2> QED
    BY <1>2, <1>3, <2>1 DEF TypeOK, DownOK
<1>11. ASSUME NEW r \in Rollouts, NEW a \in Agents, RollSkip(r, a) \/ RollMark(r, a)
       PROVE  UNCHANGED down
  BY <1>11 DEF RollSkip, RollMark, wires
<1>12. ASSUME NEW r \in Rollouts,
              \/ CreateRollout(r) \/ RollSelect(r) \/ RollCut(r)
              \/ AbortSelect(r) \/ AbortMark(r) \/ AbortCut(r)
       PROVE  UNCHANGED down
  BY <1>12 DEF CreateRollout, RollSelect, RollCut, AbortSelect, AbortMark, AbortCut, wires
<1>13. ASSUME NEW q \in Requests, NEW r \in Rollouts, BeginRequest(q, r) \/ FinishRequest(q, r) \/ DropRequest(q, r)
       PROVE  UNCHANGED down
  BY <1>13 DEF BeginRequest, FinishRequest, DropRequest, wires
<1>14. ASSUME NEW a \in Agents, NEW s \in Sessions,
              Inbound(a, s) \/ AgentSelect(a, s) \/ AgentGet(a, s) \/ CatchupFails(a, s)
       PROVE  UNCHANGED down
  BY <1>14 DEF Inbound, IngestHello, Attempt, IngestStatus, CountInFlight, MarkCompleted, CompletionFails, InboundEnd,
               AgentSelect, AgentGet, CatchupFails, wires
<1>15. ASSUME NEW a \in Agents, NEW s \in Sessions, NEW r \in Rollouts, AgentMark(a, s, r)
       PROVE  UNCHANGED down
  BY <1>15 DEF AgentMark, wires
<1>16. ASSUME NEW a \in Agents, StreamAuth(a)
       PROVE  UNCHANGED down
  BY <1>16 DEF StreamAuth, Attempt, wires
<1>17. ASSUME NEW a \in Agents, NEW w \in work[a],
              ReportStart(a, w) \/ ReportResult(a, w) \/ ReportAbort(a, w)
       PROVE  UNCHANGED down
  BY <1>17 DEF ReportStart, ReportResult, ReportAbort
<1>18. CASE UNCHANGED vars
  BY <1>1, <1>18 DEF vars, wires
<1>19. CASE PanelRestart
  BY <1>19 DEF PanelRestart, DownKnown
<1> HIDE DEF F
<1> QED
  BY <1>1, <1>5, <1>6, <1>7, <1>8, <1>9, <1>10, <1>11, <1>12, <1>13, <1>14, <1>15, <1>16,
     <1>17, <1>18, <1>19
     DEF Next, Panel, Environment, Dispatch, Abort, Catchup

\* The agents work on rollouts they were sent a frame of, and report on those.
LEMMA WorkKnownStep ==
  ASSUME TypeOK, DownKnown, WorkKnown, [Next]_vars
  PROVE  WorkKnown'
<1>1. CASE UNCHANGED work
  BY <1>1, KnownFrame
<1>2. Created \subseteq Created'
  BY CreatedGrows
<1>3. ASSUME NEW a \in Agents, Receive(a)
      PROVE  WorkKnown'
  <2> DEFINE F == [kind : {"update", "abort"}, r : Created]
  <2>1. down[a] \in Seq(F) /\ down[a] # <<>>
    BY <1>3 DEF Receive, DownKnown
  <2>2. Head(down[a]) \in F
    <3> HIDE DEF F
    <3> QED
      BY <2>1
  <2>3. Head(down[a]).r \in Created
    BY <2>2
  <2> QED
    BY <1>2, <1>3, <2>3 DEF Receive, WorkKnown, TypeOK, AgentsOK
<1>4. ASSUME NEW a \in Agents, NEW w \in work[a],
             ReportStart(a, w) \/ ReportResult(a, w) \/ ReportAbort(a, w)
      PROVE  WorkKnown'
  <2>1. w \in Work
    BY DEF TypeOK, AgentsOK
  <2>2. [w EXCEPT !.stage = "result"].r = w.r
    BY <2>1 DEF Work
  <2> QED
    BY <1>2, <1>4, <2>2 DEF ReportStart, ReportResult, ReportAbort, WorkKnown, TypeOK, AgentsOK
<1>5. ASSUME NEW a \in Agents, Disconnect(a) \/ Restart(a)
      PROVE  WorkKnown'
  BY <1>2, <1>5 DEF Disconnect, Restart, Lost, WorkKnown, TypeOK, AgentsOK
<1>6. ASSUME NEW r \in Rollouts, CreateRollout(r) \/ Dispatch(r) \/ Abort(r)
      PROVE  UNCHANGED work
  BY <1>6 DEF CreateRollout, Dispatch, RollSelect, RollSkip, RollSend, RollMark, RollCut,
              Abort, AbortSelect, AbortSend, AbortMark, AbortCut, agents
<1>7. ASSUME NEW q \in Requests, NEW r \in Rollouts, BeginRequest(q, r) \/ FinishRequest(q, r) \/ DropRequest(q, r)
      PROVE  UNCHANGED work
  BY <1>7 DEF BeginRequest, FinishRequest, DropRequest, agents
<1>8. ASSUME NEW a \in Agents, NEW s \in Sessions, Catchup(a, s) \/ Inbound(a, s)
      PROVE  UNCHANGED work
  BY <1>8 DEF Catchup, AgentSelect, AgentGet, AgentSend, AgentMark, CatchupFails, Inbound, IngestHello, Attempt,
              IngestStatus, CountInFlight, MarkCompleted, CompletionFails, InboundEnd, agents
<1>9. ASSUME NEW a \in Agents, StreamAuth(a) \/ StreamRegister(a)
      PROVE  UNCHANGED work
  BY <1>9 DEF StreamAuth, Attempt, StreamRegister, agents
<1>10. CASE UNCHANGED vars
  BY <1>1, <1>10 DEF vars, agents
<1>11. CASE PanelRestart
  BY <1>11 DEF PanelRestart, WorkKnown
<1> QED
  BY <1>1, <1>3, <1>4, <1>5, <1>6, <1>7, <1>8, <1>9, <1>10, <1>11
     DEF Next, Panel, Environment

\* A status frame names the rollout of the agent's task that sends it.
LEMMA UpKnownStep ==
  ASSUME TypeOK, WorkKnown, UpKnown, [Next]_vars
  PROVE  UpKnown'
<1> DEFINE S == Hello \cup [kind : AgentStates, r : Created]
<1>1. CASE UNCHANGED up
  BY <1>1, KnownFrame
<1>2. ASSUME UNCHANGED rollout,
             \A a \in Agents, s \in Sessions : up'[a][s] \in Seq(S)
      PROVE  UpKnown'
  BY <1>2 DEF UpKnown, Created, Hello, AgentStates
<1>3. \A a \in Agents, s \in Sessions : up[a][s] \in Seq(S)
  BY DEF UpKnown
<1>4. ASSUME NEW a \in Agents, NEW w \in work[a], NEW k \in AgentStates,
             link[a] = "up", Say(a, w.r, k), UNCHANGED rollout
      PROVE  UpKnown'
  <2> DEFINE m == [kind |-> k, r |-> w.r]
  <2>1. m \in S /\ sess[a] \in Sessions
    BY <1>4, RolloutAssumption DEF WorkKnown, TypeOK, SessionOK, Sessions
  <2>2. up' = [up EXCEPT ![a][sess[a]] = Append(@, m)]
    BY <1>4 DEF Say
  <2> HIDE DEF m, S
  <2>3. Append(up[a][sess[a]], m) \in Seq(S)
    BY <1>3, <2>1
  <2> QED
    BY <1>2, <1>3, <1>4, <2>1, <2>2, <2>3 DEF TypeOK, UpOK
<1>5. ASSUME NEW a \in Agents, NEW w \in work[a],
             ReportStart(a, w) \/ ReportResult(a, w) \/ ReportAbort(a, w)
      PROVE  UpKnown'
  <2>1. UNCHANGED rollout
    BY <1>5 DEF ReportStart, ReportResult, ReportAbort, tables
  <2>2. \E k \in AgentStates : link[a] = "up" /\ Say(a, w.r, k)
    BY <1>5 DEF ReportStart, ReportResult, ReportAbort, AgentStates
  <2> QED
    BY <1>4, <2>1, <2>2
<1>6. ASSUME NEW a \in Agents, StreamRegister(a)
      PROVE  UpKnown'
  <2> DEFINE h == [kind |-> "Hello", v |-> running[a]]
  <2>1. UNCHANGED rollout /\ up' = [up EXCEPT ![a][sess[a] + 1] = <<h>>]
    BY <1>6 DEF StreamRegister, tables
  <2>2. h \in S
    BY DEF Hello, TypeOK, AgentsOK
  <2> HIDE DEF h, S
  <2>3. <<h>> \in Seq(S)
    BY <2>2
  <2> QED
    BY <1>2, <1>3, <2>1, <2>3 DEF TypeOK, UpOK
<1>7. ASSUME NEW a \in Agents, NEW s \in Sessions, IngestHello(a, s) \/ IngestStatus(a, s)
      PROVE  UpKnown'
  <2>1. UNCHANGED rollout /\ up' = [up EXCEPT ![a][s] = Tail(@)] /\ up[a][s] # <<>>
    BY <1>7 DEF IngestHello, Attempt, IngestStatus
  <2> HIDE DEF S
  <2>2. Tail(up[a][s]) \in Seq(S)
    BY <1>3, <2>1
  <2> QED
    BY <1>2, <1>3, <2>1, <2>2 DEF TypeOK, UpOK
<1>8. ASSUME NEW a \in Agents, Disconnect(a) \/ Restart(a)
      PROVE  UpKnown'
  <2>1. UNCHANGED rollout /\ Lost(a)
    BY <1>8 DEF Disconnect, Restart, tables
  <2>2. CASE link[a] = "up"
    <3>1. sess[a] \in Sessions
      BY <2>2, RolloutAssumption DEF TypeOK, SessionOK, Sessions
    <3>2. PICK n \in 0 .. Len(up[a][sess[a]]) :
            up' = [up EXCEPT ![a][sess[a]] = SubSeq(@, 1, n)]
      BY <2>1, <2>2 DEF Lost
    <3> HIDE DEF S
    <3>3. SubSeq(up[a][sess[a]], 1, n) \in Seq(S)
      BY <1>3, <3>1, <3>2
    <3> QED
      BY <1>2, <1>3, <2>1, <3>1, <3>2, <3>3 DEF TypeOK, UpOK
  <2>3. CASE link[a] # "up"
    BY <1>1, <2>1, <2>3 DEF Lost
  <2> QED
    BY <2>2, <2>3
<1>9. ASSUME NEW r \in Rollouts, CreateRollout(r) \/ Dispatch(r) \/ Abort(r)
      PROVE  UNCHANGED up
  BY <1>9 DEF CreateRollout, Dispatch, RollSelect, RollSkip, RollSend, RollMark, RollCut,
              Abort, AbortSelect, AbortSend, AbortMark, AbortCut, wires
<1>10. ASSUME NEW q \in Requests, NEW r \in Rollouts, BeginRequest(q, r) \/ FinishRequest(q, r) \/ DropRequest(q, r)
       PROVE  UNCHANGED up
  BY <1>10 DEF BeginRequest, FinishRequest, DropRequest, wires
<1>11. ASSUME NEW a \in Agents, NEW s \in Sessions,
              \/ Catchup(a, s) \/ CountInFlight(a, s) \/ MarkCompleted(a, s)
              \/ CompletionFails(a, s) \/ InboundEnd(a, s)
       PROVE  UNCHANGED up
  BY <1>11 DEF Catchup, AgentSelect, AgentGet, AgentSend, AgentMark, CatchupFails,
               CountInFlight, MarkCompleted, CompletionFails, InboundEnd, wires
<1>12. ASSUME NEW a \in Agents, StreamAuth(a) \/ Receive(a)
       PROVE  UNCHANGED up
  BY <1>12 DEF StreamAuth, Attempt, Receive, wires
<1>13. CASE UNCHANGED vars
  BY <1>1, <1>13 DEF vars, wires
<1>14. CASE PanelRestart
  BY <1>14 DEF PanelRestart, UpKnown
<1> HIDE DEF S
<1> QED
  BY <1>1, <1>5, <1>6, <1>7, <1>8, <1>9, <1>10, <1>11, <1>12, <1>13, <1>14
     DEF Next, Panel, Environment, Inbound

\* An inbound loop counts the rows of a rollout some status named.
LEMMA LoopKnownStep ==
  ASSUME TypeOK, UpKnown, LoopKnown, [Next]_vars
  PROVE  LoopKnown'
<1>1. CASE UNCHANGED loop
  BY <1>1, KnownFrame
<1>2. Created \subseteq Created'
  BY CreatedGrows
<1>3. ASSUME NEW a \in Agents, NEW s \in Sessions, IngestStatus(a, s)
      PROVE  LoopKnown'
  <2> DEFINE S == Hello \cup [kind : AgentStates, r : Created]
             m == Head(up[a][s])
  <2>1. up[a][s] \in Seq(S) /\ up[a][s] # <<>> /\ m.kind # "Hello"
    BY <1>3 DEF UpKnown, IngestStatus, Attempt
  <2>2. m \in S
    <3> HIDE DEF S
    <3> QED
      BY <2>1
  <2>3. m.r \in Created
    BY <2>1, <2>2 DEF Hello
  <2>4. loop' = [loop EXCEPT ![a][s] = [pc |-> "count", of |-> {m.r}]]
    BY <1>3 DEF IngestStatus
  <2> HIDE DEF m
  <2> QED
    BY <1>2, <2>3, <2>4 DEF LoopKnown, TypeOK, LoopOK
<1>4. ASSUME NEW a \in Agents, NEW s \in Sessions,
             CountInFlight(a, s) \/ MarkCompleted(a, s) \/ CompletionFails(a, s)
      PROVE  LoopKnown'
  <2>1. loop[a][s] \in Loops
    BY DEF TypeOK, LoopOK
  <2>2. PICK l : loop' = [loop EXCEPT ![a][s] = l] /\ l.of \subseteq loop[a][s].of
    <3>1. [loop[a][s] EXCEPT !.pc = "complete"].of = loop[a][s].of /\ Idle.of = {}
      BY <2>1 DEF Loops, Idle
    <3>2. \/ loop' = [loop EXCEPT ![a][s] = Idle]
          \/ loop' = [loop EXCEPT ![a][s] = [loop[a][s] EXCEPT !.pc = "complete"]]
      BY <1>4 DEF CountInFlight, MarkCompleted, CompletionFails
    <3> QED
      BY <3>1, <3>2
  <2>3. \A b \in Agents, t \in Sessions : loop'[b][t].of \subseteq loop[b][t].of
    BY <2>2 DEF TypeOK, LoopOK
  <2> QED
    BY <1>2, <2>3 DEF LoopKnown
<1>5. ASSUME NEW r \in Rollouts, CreateRollout(r) \/ Dispatch(r) \/ Abort(r)
      PROVE  UNCHANGED loop
  BY <1>5 DEF CreateRollout, Dispatch, RollSelect, RollSkip, RollSend, RollMark, RollCut,
              Abort, AbortSelect, AbortSend, AbortMark, AbortCut
<1>6. ASSUME NEW q \in Requests, NEW r \in Rollouts, BeginRequest(q, r) \/ FinishRequest(q, r) \/ DropRequest(q, r)
      PROVE  UNCHANGED loop
  BY <1>6 DEF BeginRequest, FinishRequest, DropRequest
<1>7. ASSUME NEW a \in Agents, NEW s \in Sessions,
             Catchup(a, s) \/ IngestHello(a, s) \/ InboundEnd(a, s)
      PROVE  UNCHANGED loop
  BY <1>7 DEF Catchup, AgentSelect, AgentGet, AgentSend, AgentMark, CatchupFails, IngestHello, Attempt, InboundEnd
<1>8. ASSUME NEW a \in Agents,
             StreamAuth(a) \/ StreamRegister(a) \/ Receive(a) \/ Disconnect(a) \/ Restart(a)
      PROVE  UNCHANGED loop
  BY <1>8 DEF StreamAuth, Attempt, StreamRegister, Receive, Disconnect, Restart
<1>9. ASSUME NEW a \in Agents, NEW w \in work[a],
             ReportStart(a, w) \/ ReportResult(a, w) \/ ReportAbort(a, w)
      PROVE  UNCHANGED loop
  BY <1>9 DEF ReportStart, ReportResult, ReportAbort
<1>10. CASE UNCHANGED vars
  BY <1>1, <1>10 DEF vars
<1>11. CASE PanelRestart
  BY <1>11 DEF PanelRestart, LoopKnown, Idle
<1> QED
  BY <1>1, <1>3, <1>4, <1>5, <1>6, <1>7, <1>8, <1>9, <1>10, <1>11
     DEF Next, Panel, Environment, Inbound

\* Only CreateRollout makes a row pending.
LEMMA PendingRows ==
  ASSUME TypeOK, [Next]_vars, NEW r \in Rollouts, NEW b \in Agents,
         assign'[r][b] = "pending"
  PROVE  assign[r][b] = "pending" \/ CreateRollout(r)
<1> DEFINE Goal == assign[r][b] = "pending" \/ CreateRollout(r)
<1>1. CASE UNCHANGED assign
  BY <1>1
<1>2. ASSUME NEW q \in Rollouts, CreateRollout(q)
      PROVE  Goal
  <2>1. CASE q = r
    BY <1>2, <2>1
  <2>2. CASE q # r
    BY <1>2, <2>2 DEF CreateRollout, TypeOK, TablesOK
  <2> QED
    BY <2>1, <2>2
<1>3. ASSUME NEW q \in Rollouts, NEW a \in Agents, assign' = MarkedSent(q, a)
      PROVE  Goal
  BY <1>3 DEF MarkedSent, TypeOK, TablesOK
<1>4. ASSUME NEW q \in Rollouts, AbortMark(q)
      PROVE  Goal
  BY <1>4 DEF AbortMark, TypeOK, TablesOK
<1>5. ASSUME NEW a \in Agents, NEW v, assign' = Correlated(a, v)
      PROVE  Goal
  BY <1>5 DEF Correlated, TypeOK, TablesOK
<1>6. ASSUME NEW q \in Rollouts, NEW a \in Agents, NEW k, assign' = Ingested(q, a, k)
      PROVE  Goal
  BY <1>6 DEF Ingested, TypeOK, TablesOK
<1>7. ASSUME NEW a \in Agents, NEW s \in Sessions, IngestStatus(a, s)
      PROVE  Goal
  <2>1. Head(up[a][s]) \in Status
    BY <1>7 DEF TypeOK, UpOK, IngestStatus, Attempt, Hello
  <2> QED
    BY <1>6, <1>7, <2>1 DEF IngestStatus, Attempt, Status
<1>8. ASSUME NEW q \in Rollouts, Dispatch(q)
      PROVE  Goal
  BY <1>1, <1>3, <1>8 DEF Dispatch, RollSelect, RollSkip, RollSend, RollMark, RollCut, tables
<1>9. ASSUME NEW q \in Rollouts, Abort(q)
      PROVE  Goal
  BY <1>1, <1>4, <1>9 DEF Abort, AbortSelect, AbortSend, AbortCut, tables
<1>10. ASSUME NEW q \in Requests, NEW p \in Rollouts, BeginRequest(q, p) \/ FinishRequest(q, p) \/ DropRequest(q, p)
       PROVE  UNCHANGED assign
  BY <1>10 DEF BeginRequest, FinishRequest, DropRequest, tables
<1>11. ASSUME NEW a \in Agents, NEW s \in Sessions, Catchup(a, s)
       PROVE  Goal
  BY <1>1, <1>3, <1>11 DEF Catchup, AgentSelect, AgentGet, AgentSend, AgentMark, CatchupFails, tables
<1>12. ASSUME NEW a \in Agents, NEW s \in Sessions, Inbound(a, s)
       PROVE  Goal
  BY <1>1, <1>5, <1>7, <1>12
     DEF Inbound, IngestHello, Attempt, CountInFlight, MarkCompleted, CompletionFails, InboundEnd, tables
<1>13. ASSUME NEW a \in Agents,
              StreamAuth(a) \/ StreamRegister(a) \/ Receive(a) \/ Disconnect(a) \/ Restart(a)
       PROVE  Goal
  BY <1>1, <1>5, <1>13 DEF StreamAuth, Attempt, StreamRegister, Receive, Disconnect, Restart, tables
<1>14. ASSUME NEW a \in Agents, NEW w \in work[a],
              ReportStart(a, w) \/ ReportResult(a, w) \/ ReportAbort(a, w)
       PROVE  UNCHANGED assign
  BY <1>14 DEF ReportStart, ReportResult, ReportAbort, tables
<1>15. CASE UNCHANGED vars
  BY <1>1, <1>15 DEF vars, tables
<1>16. CASE PanelRestart
  BY <1>1, <1>16 DEF PanelRestart, tables
<1> QED
  BY <1>1, <1>2, <1>8, <1>9, <1>10, <1>11, <1>12, <1>13, <1>14, <1>15, <1>16
     DEF Next, Panel, Environment

\* So what has been shipped stays shipped.
LEMMA ShippedStays ==
  ASSUME TypeOK, [Next]_vars, NEW r \in Created, Shipped(r)
  PROVE  Shipped(r)'
<1>1. r \in Rollouts /\ ~CreateRollout(r)
  BY DEF Created, CreateRollout
<1> QED
  BY <1>1, PendingRows DEF Shipped

\* A rollout is completed by an inbound loop that counted its rows.
LEMMA CompletedByLoop ==
  ASSUME TypeOK, [Next]_vars, NEW r \in Rollouts, rollout'[r] = "completed"
  PROVE  \/ rollout[r] = "completed"
         \/ \E a \in Agents, s \in Sessions : loop[a][s].pc = "complete" /\ r \in loop[a][s].of
<1> DEFINE Goal == \/ rollout[r] = "completed"
                   \/ \E a \in Agents, s \in Sessions :
                        loop[a][s].pc = "complete" /\ r \in loop[a][s].of
<1>1. CASE UNCHANGED rollout
  BY <1>1
<1>2. ASSUME NEW q \in Rollouts, CreateRollout(q)
      PROVE  Goal
  BY <1>2 DEF CreateRollout, TypeOK, TablesOK
<1>3. ASSUME NEW q \in Requests, NEW p \in Rollouts, FinishRequest(q, p)
      PROVE  Goal
  <2>1. q \in {"pause", "resume", "abort"}
    BY RolloutAssumption
  <2>2. Written[q] # "completed"
    BY <2>1 DEF Written
  <2> QED
    BY <1>3, <2>2 DEF FinishRequest, TypeOK, TablesOK
<1>4. ASSUME NEW a \in Agents, NEW s \in Sessions, MarkCompleted(a, s)
      PROVE  Goal
  BY <1>4 DEF MarkCompleted, Completed, TypeOK, TablesOK
<1>5. ASSUME NEW q \in Rollouts, Dispatch(q) \/ Abort(q)
      PROVE  UNCHANGED rollout
  BY <1>5 DEF Dispatch, RollSelect, RollSkip, RollSend, RollMark, RollCut,
              Abort, AbortSelect, AbortSend, AbortMark, AbortCut, tables
<1>6. ASSUME NEW q \in Requests, NEW p \in Rollouts, BeginRequest(q, p) \/ DropRequest(q, p)
      PROVE  UNCHANGED rollout
  BY <1>6 DEF BeginRequest, DropRequest, tables
<1>7. ASSUME NEW a \in Agents, NEW s \in Sessions, Catchup(a, s)
      PROVE  UNCHANGED rollout
  BY <1>7 DEF Catchup, AgentSelect, AgentGet, AgentSend, AgentMark, CatchupFails, tables
<1>8. ASSUME NEW a \in Agents, NEW s \in Sessions, Inbound(a, s), ~MarkCompleted(a, s)
      PROVE  UNCHANGED rollout
  BY <1>8 DEF Inbound, IngestHello, Attempt, IngestStatus, CountInFlight, CompletionFails, InboundEnd, tables
<1>9. ASSUME NEW a \in Agents,
             StreamAuth(a) \/ StreamRegister(a) \/ Receive(a) \/ Disconnect(a) \/ Restart(a)
      PROVE  UNCHANGED rollout
  BY <1>9 DEF StreamAuth, Attempt, StreamRegister, Receive, Disconnect, Restart, tables
<1>10. ASSUME NEW a \in Agents, NEW w \in work[a],
              ReportStart(a, w) \/ ReportResult(a, w) \/ ReportAbort(a, w)
       PROVE  UNCHANGED rollout
  BY <1>10 DEF ReportStart, ReportResult, ReportAbort, tables
<1>11. CASE UNCHANGED vars
  BY <1>1, <1>11 DEF vars, tables
<1>12. CASE PanelRestart
  BY <1>1, <1>12 DEF PanelRestart, tables
<1> QED
  BY <1>1, <1>2, <1>3, <1>4, <1>5, <1>6, <1>7, <1>8, <1>9, <1>10, <1>11, <1>12
     DEF Next, Panel, Environment

\* An inbound loop is about to complete a rollout only after a COUNT of zero.
LEMMA CompleteAfterCount ==
  ASSUME TypeOK, [Next]_vars, NEW a \in Agents, NEW s \in Sessions,
         loop'[a][s].pc = "complete", NEW r \in loop'[a][s].of
  PROVE  /\ r \in loop[a][s].of
         /\ loop[a][s].pc = "complete" \/ NoneInFlight(r)
<1> DEFINE Goal == /\ r \in loop[a][s].of
                   /\ loop[a][s].pc = "complete" \/ NoneInFlight(r)
<1>1. CASE UNCHANGED loop
  BY <1>1
<1>2. ASSUME NEW b \in Agents, NEW t \in Sessions, CountInFlight(b, t)
      PROVE  Goal
  <2>1. loop[b][t] \in Loops /\ loop \in [Agents -> [Sessions -> Loops]]
    BY DEF TypeOK, LoopOK
  <2>2. CASE a = b /\ s = t
    <3>1. loop'[a][s] = IF \A q \in loop[a][s].of : NoneInFlight(q)
                        THEN [loop[a][s] EXCEPT !.pc = "complete"] ELSE Idle
      BY <1>2, <2>1, <2>2 DEF CountInFlight
    <3>2. /\ \A q \in loop[a][s].of : NoneInFlight(q)
          /\ loop'[a][s] = [loop[a][s] EXCEPT !.pc = "complete"]
      BY <3>1 DEF Idle
    <3>3. loop'[a][s].of = loop[a][s].of
      BY <2>1, <2>2, <3>2 DEF Loops
    <3> QED
      BY <3>2, <3>3
  <2>3. CASE ~(a = b /\ s = t)
    <3>1. loop'[a][s] = loop[a][s]
      BY <1>2, <2>1, <2>3 DEF CountInFlight
    <3> QED
      BY <3>1
  <2> QED
    BY <2>2, <2>3
<1>3. ASSUME NEW b \in Agents, NEW t \in Sessions,
             IngestStatus(b, t) \/ MarkCompleted(b, t) \/ CompletionFails(b, t)
      PROVE  Goal
  <2>1. loop'[a][s] = loop[a][s] \/ loop'[a][s].pc # "complete"
    BY <1>3 DEF IngestStatus, Attempt, MarkCompleted, CompletionFails, Idle, TypeOK, LoopOK
  <2> QED
    BY <2>1
<1>4. ASSUME NEW q \in Rollouts, CreateRollout(q) \/ Dispatch(q) \/ Abort(q)
      PROVE  UNCHANGED loop
  BY <1>4 DEF CreateRollout, Dispatch, RollSelect, RollSkip, RollSend, RollMark, RollCut,
              Abort, AbortSelect, AbortSend, AbortMark, AbortCut
<1>5. ASSUME NEW q \in Requests, NEW p \in Rollouts, BeginRequest(q, p) \/ FinishRequest(q, p) \/ DropRequest(q, p)
      PROVE  UNCHANGED loop
  BY <1>5 DEF BeginRequest, FinishRequest, DropRequest
<1>6. ASSUME NEW b \in Agents, NEW t \in Sessions,
             Catchup(b, t) \/ IngestHello(b, t) \/ InboundEnd(b, t)
      PROVE  UNCHANGED loop
  BY <1>6 DEF Catchup, AgentSelect, AgentGet, AgentSend, AgentMark, CatchupFails, IngestHello, Attempt, InboundEnd
<1>7. ASSUME NEW b \in Agents,
             StreamAuth(b) \/ StreamRegister(b) \/ Receive(b) \/ Disconnect(b) \/ Restart(b)
      PROVE  UNCHANGED loop
  BY <1>7 DEF StreamAuth, Attempt, StreamRegister, Receive, Disconnect, Restart
<1>8. ASSUME NEW b \in Agents, NEW w \in work[b],
             ReportStart(b, w) \/ ReportResult(b, w) \/ ReportAbort(b, w)
      PROVE  UNCHANGED loop
  BY <1>8 DEF ReportStart, ReportResult, ReportAbort
<1>9. CASE UNCHANGED vars
  BY <1>1, <1>9 DEF vars
<1>10. CASE PanelRestart
  BY <1>10 DEF PanelRestart, Idle
<1> QED
  BY <1>1, <1>2, <1>3, <1>4, <1>5, <1>6, <1>7, <1>8, <1>9, <1>10
     DEF Next, Panel, Environment, Inbound

\* A rollout is never marked completed while one of its rows has not been
\* shipped: the COUNT and the UPDATE of maybe_mark_completed are two steps, but
\* no row becomes pending between them.
THEOREM NeverCompletedUnshipped == Spec => []NoPendingWhenCompleted
<1> DEFINE IInv == TypeOK /\ Known /\ CompletionSafe
<1>1. Init => IInv
  <2> SUFFICES ASSUME Init PROVE IInv
    OBVIOUS
  <2>1. Init => TypeOK
    BY InitTypeOK
  <2>2. Known
    BY DEF Init, Known, TasksKnown, DownKnown, UpKnown, WorkKnown, LoopKnown, Created, Idle
  <2>3. CompletionSafe
    BY DEF Init, CompletionSafe, Idle
  <2> QED
    BY <2>1, <2>2, <2>3
<1>2. IInv /\ [Next]_vars => IInv'
  <2> SUFFICES ASSUME TypeOK, Known, CompletionSafe, [Next]_vars PROVE IInv'
    OBVIOUS
  <2>1. TypeOK'
    BY NextTypeOK
  <2>2. Known'
    BY TasksKnownStep, DownKnownStep, UpKnownStep, WorkKnownStep, LoopKnownStep DEF Known
  <2>3. ASSUME NEW r \in Rollouts, rollout'[r] = "completed"
        PROVE  Shipped(r)'
    <3>1. r \in Created /\ Shipped(r)
      BY <2>3, CompletedByLoop DEF CompletionSafe, Known, LoopKnown, Created
    <3> QED
      BY <3>1, ShippedStays
  <2>4. ASSUME NEW a \in Agents, NEW s \in Sessions, loop'[a][s].pc = "complete",
               NEW r \in loop'[a][s].of
        PROVE  Shipped(r)'
    <3>1. r \in Created
      BY <2>4, CompleteAfterCount DEF Known, LoopKnown
    <3>2. Shipped(r)
      BY <2>4, CompleteAfterCount DEF CompletionSafe, NoneInFlight, InFlight, Shipped
    <3> QED
      BY <3>1, <3>2, ShippedStays
  <2> QED
    BY <2>1, <2>2, <2>3, <2>4 DEF CompletionSafe
<1>3. IInv => NoPendingWhenCompleted
  BY DEF CompletionSafe, Shipped, NoPendingWhenCompleted
<1>4. QED
  BY <1>1, <1>2, <1>3, PTL DEF Spec

----------------------------------------------------------------------------
(* Aborts are final.                                                        *)

\* What writes update_rollouts.state: the INSERT, an admin transition, and the
\* completion of an open rollout.
LEMMA WhatChangesState ==
  ASSUME TypeOK, [Next]_vars, NEW r \in Rollouts
  PROVE  \/ rollout'[r] = rollout[r]
         \/ CreateRollout(r) /\ rollout'[r] = "active"
         \/ \E q \in Requests : FinishRequest(q, r) /\ rollout'[r] = Written[q]
         \/ rollout[r] \in Open /\ rollout'[r] = "completed"
<1> DEFINE Goal == \/ rollout'[r] = rollout[r]
                   \/ CreateRollout(r) /\ rollout'[r] = "active"
                   \/ \E q \in Requests : FinishRequest(q, r) /\ rollout'[r] = Written[q]
                   \/ rollout[r] \in Open /\ rollout'[r] = "completed"
<1>1. CASE UNCHANGED rollout
  BY <1>1
<1>2. ASSUME NEW q \in Rollouts, CreateRollout(q)
      PROVE  Goal
  <2>1. rollout' = [rollout EXCEPT ![q] = "active"]
    BY <1>2 DEF CreateRollout
  <2> QED
    BY <1>2, <2>1 DEF TypeOK, TablesOK
<1>3. ASSUME NEW q \in Requests, NEW p \in Rollouts, FinishRequest(q, p)
      PROVE  Goal
  <2>1. rollout' = [rollout EXCEPT ![p] = Written[q]]
    BY <1>3 DEF FinishRequest
  <2> QED
    BY <1>3, <2>1 DEF TypeOK, TablesOK
<1>4. ASSUME NEW a \in Agents, NEW s \in Sessions, MarkCompleted(a, s)
      PROVE  Goal
  BY <1>4 DEF MarkCompleted, Completed, TypeOK, TablesOK
<1>5. ASSUME NEW q \in Rollouts, Dispatch(q) \/ Abort(q)
      PROVE  UNCHANGED rollout
  BY <1>5 DEF Dispatch, RollSelect, RollSkip, RollSend, RollMark, RollCut,
              Abort, AbortSelect, AbortSend, AbortMark, AbortCut, tables
<1>6. ASSUME NEW q \in Requests, NEW p \in Rollouts, BeginRequest(q, p) \/ DropRequest(q, p)
      PROVE  UNCHANGED rollout
  BY <1>6 DEF BeginRequest, DropRequest, tables
<1>7. ASSUME NEW a \in Agents, NEW s \in Sessions, Catchup(a, s)
      PROVE  UNCHANGED rollout
  BY <1>7 DEF Catchup, AgentSelect, AgentGet, AgentSend, AgentMark, CatchupFails, tables
<1>8. ASSUME NEW a \in Agents, NEW s \in Sessions, Inbound(a, s), ~MarkCompleted(a, s)
      PROVE  UNCHANGED rollout
  BY <1>8 DEF Inbound, IngestHello, Attempt, IngestStatus, CountInFlight, CompletionFails, InboundEnd, tables
<1>9. ASSUME NEW a \in Agents,
             StreamAuth(a) \/ StreamRegister(a) \/ Receive(a) \/ Disconnect(a) \/ Restart(a)
      PROVE  UNCHANGED rollout
  BY <1>9 DEF StreamAuth, Attempt, StreamRegister, Receive, Disconnect, Restart, tables
<1>10. ASSUME NEW a \in Agents, NEW w \in work[a],
              ReportStart(a, w) \/ ReportResult(a, w) \/ ReportAbort(a, w)
       PROVE  UNCHANGED rollout
  BY <1>10 DEF ReportStart, ReportResult, ReportAbort, tables
<1>11. CASE UNCHANGED vars
  BY <1>1, <1>11 DEF vars, tables
<1>12. CASE PanelRestart
  BY <1>1, <1>12 DEF PanelRestart, tables
<1> QED
  BY <1>1, <1>2, <1>3, <1>4, <1>5, <1>6, <1>7, <1>8, <1>9, <1>10, <1>11, <1>12
     DEF Next, Panel, Environment

\* Only the UPDATE of an admin transition, which looked at the state before,
\* takes a rollout out of aborted.
LEMMA AbortedStays ==
  ASSUME TypeOK, [Next]_vars, NEW r \in Rollouts,
         rollout[r] = "aborted", rollout'[r] # "aborted"
  PROVE  \E q \in Requests : <<q, r>> \in requests \ requests'
<1>1. \E q \in Requests : FinishRequest(q, r)
  BY WhatChangesState DEF Open, CreateRollout
<1> QED
  BY <1>1 DEF FinishRequest

\* Nothing but an admin request that had passed its check before the abort was
\* written takes a rollout out of aborted: no dispatcher, no late status and no
\* pending completion does.
THEOREM AbortsAreFinal == Spec => AbortedIsFinal
<1> DEFINE A == \A r \in Rollouts :
                  (rollout[r] = "aborted" /\ rollout'[r] # "aborted")
                  => \E q \in Requests : <<q, r>> \in requests \ requests'
<1>1. TypeOK /\ [Next]_vars => [A]_vars
  BY AbortedStays
<1> HIDE DEF A
<1>2. Spec => [][A]_vars
  BY <1>1, TypeCorrect, PTL DEF Spec
<1> QED
  BY <1>2 DEF A, AbortedIsFinal

----------------------------------------------------------------------------
(* The dispatchers: what they hold, and which session they hold it for.     *)

AtMostOne(S) == \A x, y \in S : x = y

RollShape(r) ==
  /\ rollTask[r].pc # "loop" => rollTask[r].sent = {} /\ rollTask[r].rows = {}
  /\ AtMostOne(rollTask[r].sent)

AgentShape(a, s) ==
  /\ agentTask[a][s].pc # "loop" => agentTask[a][s].sent = {}
  /\ AtMostOne(agentTask[a][s].sent)
  /\ s > sess[a] => agentTask[a][s].pc = "idle"

\* A dispatcher holds at most one row between try_send and its UPDATE, and the
\* one a stream spawns starts with nothing.
TaskShape ==
  /\ \A r \in Rollouts : RollShape(r)
  /\ \A a \in Agents, s \in Sessions : AgentShape(a, s)

\* The tasks that a step of the panel or of its environment leaves alone.
LEMMA TaskFrame ==
  ASSUME [Next]_vars
  PROVE  \/ UNCHANGED <<rollTask, agentTask, sess>>
         \/ \E r \in Rollouts : CreateRollout(r) \/ Dispatch(r)
         \/ \E a \in Agents : StreamRegister(a)
         \/ \E a \in Agents, s \in Sessions : Catchup(a, s)
         \/ PanelRestart
<1>1. ASSUME NEW r \in Rollouts, Abort(r)
      PROVE  UNCHANGED <<rollTask, agentTask, sess>>
  BY <1>1 DEF Abort, AbortSelect, AbortSend, AbortMark, AbortCut, tasks, history, missed, session
<1>2. ASSUME NEW q \in Requests, NEW r \in Rollouts, BeginRequest(q, r) \/ FinishRequest(q, r) \/ DropRequest(q, r)
      PROVE  UNCHANGED <<rollTask, agentTask, sess>>
  BY <1>2 DEF BeginRequest, FinishRequest, DropRequest, tasks, history, missed, session
<1>3. ASSUME NEW a \in Agents, NEW s \in Sessions, Inbound(a, s)
      PROVE  UNCHANGED <<rollTask, agentTask, sess>>
  BY <1>3 DEF Inbound, IngestHello, Attempt, IngestStatus, CountInFlight, MarkCompleted, CompletionFails, InboundEnd,
              tasks, history, missed, session
<1>4. ASSUME NEW a \in Agents, StreamAuth(a) \/ Receive(a) \/ Disconnect(a) \/ Restart(a)
      PROVE  UNCHANGED <<rollTask, agentTask, sess>>
  BY <1>4 DEF StreamAuth, Attempt, Receive, Disconnect, Restart, tasks, history, missed, session
<1>5. ASSUME NEW a \in Agents, NEW w \in work[a],
             ReportStart(a, w) \/ ReportResult(a, w) \/ ReportAbort(a, w)
      PROVE  UNCHANGED <<rollTask, agentTask, sess>>
  BY <1>5 DEF ReportStart, ReportResult, ReportAbort, tasks, history, missed, session
<1>6. CASE UNCHANGED vars
  BY <1>6 DEF vars, tasks, history, missed, session
<1> QED
  BY <1>1, <1>2, <1>3, <1>4, <1>5, <1>6 DEF Next, Panel, Environment

\* What a step of the create request's dispatcher does to its task.
LEMMA RollStep ==
  ASSUME TypeOK, NEW r \in Rollouts, Dispatch(r)
  PROVE  /\ UNCHANGED <<agentTask, sess>>
         /\ \A q \in Rollouts \ {r} : rollTask'[q] = rollTask[q]
         /\ rollTask'[r] \in RollTasks
         /\ \/ /\ rollTask[r].pc = "select" /\ rollTask'[r].pc = "loop"
               /\ rollTask'[r].sent = {}
               /\ rollTask'[r].rows = {a \in Agents : assign[r][a] = "pending" /\ rollout[r] \in Open}
            \/ /\ rollTask[r].sent = {} /\ rollTask'[r].pc = rollTask[r].pc
               /\ \E a \in rollTask[r].rows :
                    \/ /\ rollTask'[r].sent = {}
                       /\ rollTask'[r].rows = rollTask[r].rows \ {a}
                       /\ RollSkip(r, a) \/ RollSend(r, a)
                    \/ /\ rollTask'[r].sent = {a}
                       /\ rollTask'[r].rows = rollTask[r].rows
                       /\ RollSend(r, a)
            \/ /\ rollTask'[r].pc = rollTask[r].pc
               /\ \E a \in rollTask[r].sent :
                    /\ rollTask'[r].sent = {}
                    /\ rollTask'[r].rows = rollTask[r].rows \ {a}
                    /\ RollMark(r, a)
            \/ /\ rollTask'[r].pc = "idle" /\ rollTask'[r].sent = {} /\ rollTask'[r].rows = {}
               /\ RollCut(r)
<1> DEFINE T == rollTask[r]
<1>0. rollTask \in [Rollouts -> RollTasks] /\ T \in RollTasks
  BY DEF TypeOK, TasksOK
<1>1. CASE RollSelect(r)
  BY <1>0, <1>1 DEF RollSelect, RollTasks, tasks, history, missed, session
<1>2. ASSUME NEW a \in Agents, RollSkip(r, a)
      PROVE  /\ UNCHANGED <<agentTask, sess>> /\ a \in T.rows /\ T.sent = {}
             /\ rollTask' = [rollTask EXCEPT ![r].rows = @ \ {a}]
  BY <1>2 DEF RollSkip, session
<1>3. ASSUME NEW a \in Agents, RollSend(r, a)
      PROVE  /\ UNCHANGED <<agentTask, sess>> /\ a \in T.rows /\ T.sent = {}
             /\ \/ rollTask' = [rollTask EXCEPT ![r].rows = @ \ {a}]
                \/ rollTask' = [rollTask EXCEPT ![r].sent = {a}]
  BY <1>3 DEF RollSend, session
<1>4. ASSUME NEW a \in Agents, RollMark(r, a)
      PROVE  /\ UNCHANGED <<agentTask, sess>> /\ a \in T.sent
             /\ rollTask' = [rollTask EXCEPT ![r].sent = {}, ![r].rows = @ \ {a}]
  BY <1>4 DEF RollMark, session
<1>5. ASSUME NEW a \in Agents, rollTask' = [rollTask EXCEPT ![r].rows = @ \ {a}]
      PROVE  /\ \A q \in Rollouts \ {r} : rollTask'[q] = rollTask[q]
             /\ rollTask'[r] \in RollTasks
             /\ rollTask'[r].pc = T.pc /\ rollTask'[r].sent = T.sent
             /\ rollTask'[r].rows = T.rows \ {a}
  BY <1>0, <1>5 DEF RollTasks
<1>6. ASSUME NEW a \in Agents, rollTask' = [rollTask EXCEPT ![r].sent = {a}]
      PROVE  /\ \A q \in Rollouts \ {r} : rollTask'[q] = rollTask[q]
             /\ rollTask'[r] \in RollTasks
             /\ rollTask'[r].pc = T.pc /\ rollTask'[r].sent = {a}
             /\ rollTask'[r].rows = T.rows
  BY <1>0, <1>6 DEF RollTasks
<1>7. ASSUME NEW a \in Agents, rollTask' = [rollTask EXCEPT ![r].sent = {}, ![r].rows = @ \ {a}]
      PROVE  /\ \A q \in Rollouts \ {r} : rollTask'[q] = rollTask[q]
             /\ rollTask'[r] \in RollTasks
             /\ rollTask'[r].pc = T.pc /\ rollTask'[r].sent = {}
             /\ rollTask'[r].rows = T.rows \ {a}
  BY <1>0, <1>7 DEF RollTasks
<1>8. ASSUME NEW a \in Agents, RollSkip(r, a) \/ RollSend(r, a) \/ RollMark(r, a)
      PROVE  /\ UNCHANGED <<agentTask, sess>>
             /\ \A q \in Rollouts \ {r} : rollTask'[q] = rollTask[q]
             /\ rollTask'[r] \in RollTasks
             /\ rollTask'[r].pc = T.pc
  BY <1>2, <1>3, <1>4, <1>5, <1>6, <1>7, <1>8
<1>9. CASE RollCut(r)
  BY <1>0, <1>9 DEF RollCut, RollTasks, session
<1> HIDE DEF T
<1> QED
  BY <1>1, <1>2, <1>3, <1>4, <1>5, <1>6, <1>7, <1>8, <1>9 DEF Dispatch, T

\* What a step of the dispatcher that a stream spawned does to its task.
LEMMA CatchupStep ==
  ASSUME TypeOK, NEW a \in Agents, NEW s \in Sessions, Catchup(a, s)
  PROVE  /\ UNCHANGED <<rollTask, sess>>
         /\ \A b \in Agents, t \in Sessions :
              ~(b = a /\ t = s) => agentTask'[b][t] = agentTask[b][t]
         /\ agentTask'[a][s] \in AgentTasks
         /\ agentTask[a][s].pc # "idle" \/ agentTask[a][s].sent # {}
         /\ \/ /\ agentTask[a][s].pc = "select" /\ agentTask'[a][s].pc = "get"
               /\ agentTask'[a][s].sent = {}
               /\ agentTask'[a][s].rows =
                    {r \in Rollouts : assign[r][a] = "pending" /\ rollout[r] \in Open}
               /\ UNCHANGED <<assign, down>>
            \/ /\ agentTask[a][s].pc = "get" /\ agentTask'[a][s].pc = "loop"
               /\ agentTask'[a][s].sent = {} /\ agentTask'[a][s].to = hub[a]
               /\ agentTask'[a][s].rows = IF hub[a] = 0 THEN {} ELSE agentTask[a][s].rows
               /\ UNCHANGED <<assign, down>>
            \/ /\ agentTask[a][s].pc = "loop" /\ agentTask'[a][s].pc = "loop"
               /\ agentTask[a][s].sent = {} /\ agentTask'[a][s].to = agentTask[a][s].to
               /\ \E r \in agentTask[a][s].rows :
                    /\ AgentSend(a, s, r)
                    /\ \/ /\ agentTask'[a][s].sent = {}
                          /\ agentTask'[a][s].rows = agentTask[a][s].rows \ {r}
                       \/ /\ agentTask'[a][s].sent = {r}
                          /\ agentTask'[a][s].rows = agentTask[a][s].rows
            \/ /\ agentTask'[a][s].pc = agentTask[a][s].pc
               /\ agentTask'[a][s].to = agentTask[a][s].to
               /\ \E r \in agentTask[a][s].sent :
                    /\ agentTask'[a][s].sent = {}
                    /\ agentTask'[a][s].rows = agentTask[a][s].rows \ {r}
                    /\ AgentMark(a, s, r)
            \/ /\ agentTask'[a][s].pc = "loop" /\ agentTask'[a][s].to = 0
               /\ agentTask'[a][s].sent = {} /\ agentTask'[a][s].rows = {}
               /\ CatchupFails(a, s)
<1> DEFINE T == agentTask[a][s]
<1>0. agentTask \in [Agents -> [Sessions -> AgentTasks]] /\ T \in AgentTasks
  BY DEF TypeOK, TasksOK
<1>1. CASE AgentSelect(a, s)
  <2> DEFINE rows == {r \in Rollouts : assign[r][a] = "pending" /\ rollout[r] \in Open}
             read == [pc |-> "get", sent |-> {}, to |-> 0, rows |-> rows]
  <2>1. agentTask' = [agentTask EXCEPT ![a][s] = read]
    BY <1>1 DEF AgentSelect
  <2>2. read \in AgentTasks
    BY RolloutAssumption DEF AgentTasks
  <2>3. read.pc = "get" /\ read.sent = {} /\ read.rows = rows
    OBVIOUS
  <2>4. UNCHANGED <<rollTask, sess, assign, down>> /\ T.pc = "select"
    BY <1>1 DEF AgentSelect, tables, session, wires
  <2> HIDE DEF read
  <2>5. /\ agentTask'[a][s] = read
        /\ \A b \in Agents, t \in Sessions :
             ~(b = a /\ t = s) => agentTask'[b][t] = agentTask[b][t]
    BY <1>0, <2>1
  <2> QED
    BY <2>2, <2>3, <2>4, <2>5
<1>2. CASE AgentGet(a, s)
  <2> DEFINE got == [pc |-> "loop", sent |-> {}, to |-> hub[a],
                     rows |-> IF hub[a] = 0 THEN {} ELSE T.rows]
  <2>1. agentTask' = [agentTask EXCEPT ![a][s] = got]
    BY <1>2 DEF AgentGet
  <2>2. got \in AgentTasks
    BY <1>0 DEF AgentTasks, TypeOK, SessionOK
  <2>3. /\ got.pc = "loop" /\ got.sent = {} /\ got.to = hub[a]
        /\ got.rows = IF hub[a] = 0 THEN {} ELSE T.rows
    OBVIOUS
  <2>4. UNCHANGED <<rollTask, sess, assign, down>> /\ T.pc = "get"
    BY <1>2 DEF AgentGet, tables, session, wires
  <2> HIDE DEF got
  <2>5. /\ agentTask'[a][s] = got
        /\ \A b \in Agents, t \in Sessions :
             ~(b = a /\ t = s) => agentTask'[b][t] = agentTask[b][t]
    BY <1>0, <2>1
  <2> QED
    BY <2>2, <2>3, <2>4, <2>5
<1>3. ASSUME NEW r \in Rollouts, AgentSend(a, s, r)
      PROVE  /\ UNCHANGED <<rollTask, sess>> /\ r \in T.rows /\ T.sent = {} /\ T.pc = "loop"
             /\ \/ agentTask' = [agentTask EXCEPT ![a][s].rows = @ \ {r}]
                \/ agentTask' = [agentTask EXCEPT ![a][s].sent = {r}]
  BY <1>3 DEF AgentSend, session
<1>4. ASSUME NEW r \in Rollouts, AgentMark(a, s, r)
      PROVE  /\ UNCHANGED <<rollTask, sess>> /\ r \in T.sent
             /\ agentTask' = [agentTask EXCEPT ![a][s].sent = {}, ![a][s].rows = @ \ {r}]
  BY <1>4 DEF AgentMark, session
<1>5. ASSUME NEW r \in Rollouts, agentTask' = [agentTask EXCEPT ![a][s].rows = @ \ {r}]
      PROVE  /\ \A b \in Agents, t \in Sessions :
                  ~(b = a /\ t = s) => agentTask'[b][t] = agentTask[b][t]
             /\ agentTask'[a][s] \in AgentTasks
             /\ agentTask'[a][s].pc = T.pc /\ agentTask'[a][s].to = T.to
             /\ agentTask'[a][s].sent = T.sent /\ agentTask'[a][s].rows = T.rows \ {r}
  BY <1>0, <1>5 DEF AgentTasks
<1>6. ASSUME NEW r \in Rollouts, agentTask' = [agentTask EXCEPT ![a][s].sent = {r}]
      PROVE  /\ \A b \in Agents, t \in Sessions :
                  ~(b = a /\ t = s) => agentTask'[b][t] = agentTask[b][t]
             /\ agentTask'[a][s] \in AgentTasks
             /\ agentTask'[a][s].pc = T.pc /\ agentTask'[a][s].to = T.to
             /\ agentTask'[a][s].sent = {r} /\ agentTask'[a][s].rows = T.rows
  BY <1>0, <1>6 DEF AgentTasks
<1>7. ASSUME NEW r \in Rollouts,
             agentTask' = [agentTask EXCEPT ![a][s].sent = {}, ![a][s].rows = @ \ {r}]
      PROVE  /\ \A b \in Agents, t \in Sessions :
                  ~(b = a /\ t = s) => agentTask'[b][t] = agentTask[b][t]
             /\ agentTask'[a][s] \in AgentTasks
             /\ agentTask'[a][s].pc = T.pc /\ agentTask'[a][s].to = T.to
             /\ agentTask'[a][s].sent = {} /\ agentTask'[a][s].rows = T.rows \ {r}
  BY <1>0, <1>7 DEF AgentTasks
<1>8. ASSUME NEW r \in Rollouts, AgentSend(a, s, r) \/ AgentMark(a, s, r)
      PROVE  /\ UNCHANGED <<rollTask, sess>>
             /\ \A b \in Agents, t \in Sessions :
                  ~(b = a /\ t = s) => agentTask'[b][t] = agentTask[b][t]
             /\ agentTask'[a][s] \in AgentTasks
             /\ agentTask'[a][s].pc = T.pc /\ agentTask'[a][s].to = T.to
  BY <1>3, <1>4, <1>5, <1>6, <1>7, <1>8
<1>9. T.pc # "idle" \/ T.sent # {}
  BY <1>3, <1>4 DEF Catchup, AgentSelect, AgentGet, CatchupFails
<1>10. CASE CatchupFails(a, s)
  <2> DEFINE ended == [pc |-> "loop", rows |-> {}, sent |-> {}, to |-> 0]
  <2>1. agentTask' = [agentTask EXCEPT ![a][s] = ended] /\ UNCHANGED <<rollTask, sess>>
    BY <1>10 DEF CatchupFails, session
  <2>2. ended \in AgentTasks
    BY RolloutAssumption DEF AgentTasks
  <2>3. ended.pc = "loop" /\ ended.to = 0 /\ ended.sent = {} /\ ended.rows = {}
    OBVIOUS
  <2> HIDE DEF ended
  <2>4. /\ agentTask'[a][s] = ended
        /\ \A b \in Agents, t \in Sessions :
             ~(b = a /\ t = s) => agentTask'[b][t] = agentTask[b][t]
    BY <1>0, <2>1
  <2> QED
    BY <1>9, <1>10, <2>1, <2>2, <2>3, <2>4
<1> HIDE DEF T
<1> QED
  BY <1>1, <1>2, <1>3, <1>4, <1>5, <1>6, <1>7, <1>8, <1>9, <1>10 DEF Catchup, T

\* The dispatchers keep that shape.
LEMMA TaskShapeStep ==
  ASSUME TypeOK, TasksKnown, TaskShape, [Next]_vars
  PROVE  TaskShape'
<1> USE DEF RollShape, AgentShape
<1>1. CASE UNCHANGED <<rollTask, agentTask, sess>>
  BY <1>1 DEF TaskShape
<1>2. ASSUME NEW r \in Rollouts, CreateRollout(r)
      PROVE  TaskShape'
  <2>1. UNCHANGED <<agentTask, sess>> /\ r \notin Created
    BY <1>2 DEF CreateRollout, session, Created
  <2>2. rollTask'[r].sent = rollTask[r].sent /\ rollTask'[r].rows = rollTask[r].rows
    BY <1>2 DEF CreateRollout, TypeOK, TasksOK, RollTasks
  <2>3. rollTask'[r].sent = {} /\ rollTask'[r].rows = {}
    BY <2>1, <2>2 DEF TasksKnown
  <2>4. \A q \in Rollouts \ {r} : rollTask'[q] = rollTask[q]
    BY <1>2 DEF CreateRollout, TypeOK, TasksOK
  <2> QED
    BY <2>1, <2>3, <2>4 DEF TaskShape, AtMostOne
<1>3. ASSUME NEW r \in Rollouts, Dispatch(r)
      PROVE  TaskShape'
  <2>1. /\ UNCHANGED <<agentTask, sess>>
        /\ \A q \in Rollouts \ {r} : rollTask'[q] = rollTask[q]
    BY <1>3, RollStep
  <2>2. RollShape(r)
    BY DEF TaskShape
  <2>3. \/ rollTask'[r].sent = {} /\ rollTask'[r].rows = {}
        \/ /\ rollTask'[r].pc = "loop" /\ rollTask'[r].sent = {}
        \/ /\ rollTask'[r].pc = "loop"
           /\ \E a \in Agents : rollTask'[r].sent = {a}
    BY <1>3, <2>2, RollStep DEF TypeOK, TasksOK, RollTasks
  <2>4. RollShape(r)'
    BY <2>2, <2>3 DEF AtMostOne
  <2> QED
    BY <2>1, <2>4 DEF TaskShape
<1>4. ASSUME NEW a \in Agents, NEW s \in Sessions, Catchup(a, s)
      PROVE  TaskShape'
  <2>1. /\ UNCHANGED <<rollTask, sess>>
        /\ \A b \in Agents, t \in Sessions :
             ~(b = a /\ t = s) => agentTask'[b][t] = agentTask[b][t]
    BY <1>4, CatchupStep
  <2>2. AgentShape(a, s)
    BY DEF TaskShape
  <2>3. AgentShape(a, s)'
    <3>1. ~(s > sess[a])
      BY <1>4, <2>2, CatchupStep
    <3>2. \/ agentTask'[a][s].sent = {}
          \/ /\ agentTask'[a][s].pc = "loop"
             /\ \E r \in agentTask[a][s].rows : agentTask'[a][s].sent = {r}
      BY <1>4, CatchupStep
    <3> QED
      BY <2>1, <3>1, <3>2 DEF AtMostOne
  <2> QED
    BY <2>1, <2>3 DEF TaskShape
<1>5. ASSUME NEW a \in Agents, StreamRegister(a)
      PROVE  TaskShape'
  <2> DEFINE s == sess[a] + 1
  <2>1. s \in Sessions
    BY <1>5, NextSession DEF StreamRegister, TypeOK
  <2>2. /\ UNCHANGED rollTask
        /\ sess' = [sess EXCEPT ![a] = s]
        /\ agentTask' = [agentTask EXCEPT ![a][s].pc = "select"]
    BY <1>5 DEF StreamRegister, WithCatchup
  <2>3. sess[a] \in Nat /\ sess'[a] = s
    BY <2>2, RolloutAssumption DEF TypeOK, SessionOK
  <2>4. agentTask[a][s].sent = {}
    BY <2>1, <2>3 DEF TaskShape
  <2>5. agentTask'[a][s].sent = {}
    BY <2>1, <2>2, <2>4 DEF TypeOK, TasksOK, AgentTasks
  <2>6. \A b \in Agents, t \in Sessions :
          ~(b = a /\ t = s) => agentTask'[b][t] = agentTask[b][t]
    BY <2>2 DEF TypeOK, TasksOK
  <2>7. ASSUME NEW b \in Agents, NEW t \in Sessions
        PROVE  AgentShape(b, t)'
    <3>1. CASE b = a /\ t = s
      BY <2>3, <2>5, <3>1 DEF AtMostOne
    <3>2. CASE ~(b = a /\ t = s)
      <4>1. sess'[b] \in Nat /\ sess[b] \in Nat /\ t \in Nat /\ sess'[b] >= sess[b]
        BY <2>2, <2>3, RolloutAssumption DEF TypeOK, SessionOK, Sessions
      <4> HIDE DEF s
      <4> QED
        BY <2>6, <3>2, <4>1 DEF TaskShape
    <3> QED
      BY <3>1, <3>2
  <2> QED
    BY <2>2, <2>7 DEF TaskShape
<1>6. CASE PanelRestart
  BY <1>6 DEF PanelRestart, TaskShape, AtMostOne
<1> HIDE DEF RollShape, AgentShape
<1> QED
  BY <1>1, <1>2, <1>3, <1>4, <1>5, <1>6, TaskFrame

----------------------------------------------------------------------------
(* A queued frame is recorded.                                              *)

\* A dispatcher has queued the frame and is about to write 'sent'.
Recording(r, a) ==
  \/ a \in rollTask[r].sent
  \/ \E s \in Sessions : r \in agentTask[a][s].sent

\* The UPDATE of a dispatcher leaves no pending row behind.
LEMMA MarkedNotPending ==
  ASSUME TypeOK, NEW r \in Rollouts, NEW a \in Agents, assign' = MarkedSent(r, a)
  PROVE  assign'[r][a] # "pending"
BY DEF MarkedSent, TypeOK, TablesOK

\* A dispatcher that has queued a frame lets go of the row by its UPDATE, or by
\* ending early.
LEMMA RecordingEnds ==
  ASSUME TypeOK, TasksKnown, TaskShape, [Next]_vars, ~PanelRestart,
         NEW r \in Rollouts, NEW a \in Agents, Recording(r, a), assign'[r][a] = "pending",
         link[a] = "up"
  PROVE  Recording(r, a)' \/ <<r, a>> \in unmarked'
<1> USE DEF Recording
<1>1. CASE UNCHANGED <<rollTask, agentTask, sess>>
  BY <1>1
<1>2. ASSUME NEW q \in Rollouts, CreateRollout(q)
      PROVE  Recording(r, a)'
  <2>1. UNCHANGED agentTask /\ rollTask'[r].sent = rollTask[r].sent
    BY <1>2 DEF CreateRollout, TypeOK, TasksOK, RollTasks
  <2> QED
    BY <2>1
<1>3. ASSUME NEW q \in Rollouts, Dispatch(q)
      PROVE  Recording(r, a)' \/ <<r, a>> \in unmarked'
  <2>1. /\ UNCHANGED agentTask
        /\ \A p \in Rollouts \ {q} : rollTask'[p] = rollTask[p]
    BY <1>3, RollStep
  <2>2. CASE a \in rollTask[r].sent /\ q = r
    <3>1. RollShape(r)
      BY DEF TaskShape
    <3>2. RollCut(r) \/ \E b \in rollTask[r].sent : RollMark(r, b)
      BY <1>3, <2>2, <3>1, RollStep DEF RollShape
    <3>3. RollCut(r) \/ RollMark(r, a)
      BY <2>2, <3>1, <3>2 DEF RollShape, AtMostOne
    <3>4. RollCut(r) => <<r, a>> \in unmarked'
      BY <2>2 DEF RollCut, Missed
    <3> QED
      BY <3>3, <3>4, MarkedNotPending DEF RollMark
  <2> QED
    BY <2>1, <2>2
<1>4. ASSUME NEW b \in Agents, NEW s \in Sessions, Catchup(b, s)
      PROVE  Recording(r, a)' \/ <<r, a>> \in unmarked'
  <2>1. /\ UNCHANGED rollTask
        /\ \A c \in Agents, t \in Sessions :
             ~(c = b /\ t = s) => agentTask'[c][t] = agentTask[c][t]
    BY <1>4, CatchupStep
  <2>2. CASE r \in agentTask[a][s].sent /\ b = a
    <3>1. AgentShape(a, s)
      BY DEF TaskShape
    <3>2. CatchupFails(a, s) \/ \E q \in agentTask[a][s].sent : AgentMark(a, s, q)
      BY <1>4, <2>2, <3>1, CatchupStep DEF AgentShape
    <3>3. CatchupFails(a, s) \/ AgentMark(a, s, r)
      BY <2>2, <3>1, <3>2 DEF AgentShape, AtMostOne
    <3>4. CatchupFails(a, s) => <<r, a>> \in unmarked'
      BY <2>2 DEF CatchupFails, Missed
    <3> QED
      BY <3>3, <3>4, MarkedNotPending DEF AgentMark
  <2> QED
    BY <2>1, <2>2
<1>5. ASSUME NEW b \in Agents, StreamRegister(b)
      PROVE  Recording(r, a)'
  <2>1. UNCHANGED rollTask /\ agentTask' = [agentTask EXCEPT ![b][sess[b] + 1].pc = "select"]
    BY <1>5 DEF StreamRegister, WithCatchup
  <2>2. \A t \in Sessions : agentTask'[a][t].sent = agentTask[a][t].sent
    BY <2>1 DEF TypeOK, TasksOK, AgentTasks
  <2> QED
    BY <2>1, <2>2
<1> HIDE DEF Recording
<1> QED
  BY <1>1, <1>2, <1>3, <1>4, <1>5, TaskFrame

\* What a queue holds after an Append or a Tail.
LEMMA AppendHolds ==
  ASSUME NEW S, NEW q \in Seq(S), NEW f \in S, NEW i \in 1 .. Len(Append(q, f))
  PROVE  \/ Append(q, f)[i] = f
         \/ i \in 1 .. Len(q) /\ Append(q, f)[i] = q[i]
OBVIOUS

LEMMA TailHolds ==
  ASSUME NEW S, NEW q \in Seq(S), q # <<>>, NEW i \in 1 .. Len(Tail(q))
  PROVE  i + 1 \in 1 .. Len(q) /\ Tail(q)[i] = q[i + 1]
OBVIOUS

\* An update frame of rollout r is in agent a's queue.
UpdateQueued(r, a) ==
  \E i \in 1 .. Len(down[a]) : down[a][i].kind = "update" /\ down[a][i].r = r

\* An update frame enters a queue together with the dispatcher's promise to
\* record it.
LEMMA QueuedByDispatcher ==
  ASSUME TypeOK, [Next]_vars, NEW r \in Rollouts, NEW a \in Agents, UpdateQueued(r, a)'
  PROVE  UpdateQueued(r, a) \/ Recording(r, a)'
<1> USE DEF UpdateQueued
<1> DEFINE Goal == UpdateQueued(r, a) \/ Recording(r, a)'
<1>0. down \in [Agents -> Seq(Frame)]
  BY DEF TypeOK, DownOK
<1>1. CASE UNCHANGED down
  BY <1>1
<1>2. ASSUME NEW b \in Agents, NEW f \in Frame, down' = [down EXCEPT ![b] = Append(@, f)],
             (b = a /\ f.kind = "update" /\ f.r = r) => Goal
      PROVE  Goal
  <2>1. CASE b # a
    BY <1>0, <1>2, <2>1
  <2>2. CASE b = a
    <3>1. down'[a] = Append(down[a], f) /\ down[a] \in Seq(Frame)
      BY <1>0, <1>2, <2>2
    <3> HIDE DEF Goal
    <3>2. PICK i \in 1 .. Len(down'[a]) : down'[a][i].kind = "update" /\ down'[a][i].r = r
      OBVIOUS
    <3>3. down'[a][i] = f \/ (i \in 1 .. Len(down[a]) /\ down'[a][i] = down[a][i])
      BY <3>1, AppendHolds
    <3> QED
      BY <1>2, <2>2, <3>2, <3>3 DEF Goal
  <2> QED
    BY <2>1, <2>2
<1>3. ASSUME NEW b \in Agents, NEW s, NEW q \in Rollouts, NEW ok \in BOOLEAN,
             TrySend(b, s, [kind |-> "update", r |-> q], ok),
             ok /\ b = a /\ q = r => Recording(r, a)'
      PROVE  Goal
  <2> DEFINE f == [kind |-> "update", r |-> q]
  <2>1. f \in Frame /\ f.r = q
    BY DEF Frame
  <2>2. down' = down \/ (ok /\ down' = [down EXCEPT ![b] = Append(@, f)])
    BY <1>3 DEF TrySend
  <2> HIDE DEF f, UpdateQueued
  <2>3. CASE down' = down
    BY <1>1, <2>3
  <2>4. CASE ok /\ down' = [down EXCEPT ![b] = Append(@, f)]
    BY <1>2, <1>3, <2>1, <2>4
  <2> QED
    BY <2>2, <2>3, <2>4
<1> HIDE DEF UpdateQueued
<1>4. ASSUME NEW q \in Rollouts, NEW b \in Agents, RollSend(q, b)
      PROVE  Goal
  <2>1. PICK ok \in BOOLEAN :
          /\ TrySend(b, hub[b], [kind |-> "update", r |-> q], ok)
          /\ ok => rollTask' = [rollTask EXCEPT ![q].sent = {b}]
    BY <1>4 DEF RollSend
  <2>2. ok /\ b = a /\ q = r => a \in rollTask'[r].sent
    BY <2>1 DEF TypeOK, TasksOK, RollTasks
  <2>3. ok /\ b = a /\ q = r => Recording(r, a)'
    BY <2>2 DEF Recording
  <2> QED
    BY <1>3, <2>1, <2>3
<1>5. ASSUME NEW b \in Agents, NEW s \in Sessions, NEW q \in Rollouts, AgentSend(b, s, q)
      PROVE  Goal
  <2>1. PICK ok \in BOOLEAN :
          /\ TrySend(b, agentTask[b][s].to, [kind |-> "update", r |-> q], ok)
          /\ ok => agentTask' = [agentTask EXCEPT ![b][s].sent = {q}]
    BY <1>5 DEF AgentSend
  <2>2. ok /\ b = a /\ q = r => r \in agentTask'[a][s].sent
    BY <2>1 DEF TypeOK, TasksOK, AgentTasks
  <2>3. ok /\ b = a /\ q = r => Recording(r, a)'
    BY <2>2 DEF Recording
  <2> QED
    BY <1>3, <2>1, <2>3
<1>6. ASSUME NEW q \in Rollouts, AbortSend(q)
      PROVE  Goal
  <2> DEFINE f == [kind |-> "abort", r |-> q]
  <2>1. f \in Frame /\ f.kind # "update"
    BY DEF Frame
  <2>2. down'[a] = down[a] \/ down'[a] = Append(down[a], f)
    BY <1>6 DEF AbortSend
  <2> HIDE DEF f
  <2>3. PICK i \in 1 .. Len(down'[a]) : down'[a][i].kind = "update" /\ down'[a][i].r = r
    BY DEF UpdateQueued
  <2>4. down[a] \in Seq(Frame)
    BY <1>0
  <2>5. down'[a][i] = f \/ (i \in 1 .. Len(down[a]) /\ down'[a][i] = down[a][i])
    BY <2>1, <2>2, <2>4, AppendHolds
  <2> QED
    BY <2>1, <2>3, <2>5 DEF UpdateQueued
<1>7. ASSUME NEW b \in Agents, down' = [down EXCEPT ![b] = <<>>]
      PROVE  Goal
  BY <1>0, <1>7 DEF UpdateQueued
<1>8. ASSUME NEW b \in Agents, Receive(b)
      PROVE  Goal
  <2>1. down[b] # <<>> /\ down' = [down EXCEPT ![b] = Tail(@)]
    BY <1>8 DEF Receive
  <2>2. CASE b = a
    <3>1. down'[a] = Tail(down[a]) /\ down[a] \in Seq(Frame) /\ down[a] # <<>>
      BY <1>0, <2>1, <2>2
    <3>2. PICK i \in 1 .. Len(down'[a]) : down'[a][i].kind = "update" /\ down'[a][i].r = r
      BY DEF UpdateQueued
    <3>3. i + 1 \in 1 .. Len(down[a]) /\ down'[a][i] = down[a][i + 1]
      BY <3>1, TailHolds
    <3> QED
      BY <3>2, <3>3 DEF UpdateQueued
  <2>3. CASE b # a
    BY <1>0, <2>1, <2>3 DEF UpdateQueued
  <2> QED
    BY <2>2, <2>3
<1>9. ASSUME NEW b \in Agents, StreamRegister(b) \/ Disconnect(b) \/ Restart(b)
      PROVE  Goal
  BY <1>7, <1>9 DEF StreamRegister, Disconnect, Restart, Lost
<1>10. CASE PanelRestart
  BY <1>10 DEF PanelRestart, UpdateQueued
<1>11. ASSUME NEW q \in Rollouts,
              \/ CreateRollout(q) \/ RollSelect(q) \/ AbortSelect(q) \/ AbortMark(q)
              \/ RollCut(q) \/ AbortCut(q)
              \/ \E b \in Agents : RollSkip(q, b) \/ RollMark(q, b)
       PROVE  UNCHANGED down
  BY <1>11 DEF CreateRollout, RollSelect, RollSkip, RollMark, RollCut, AbortSelect, AbortMark,
               AbortCut, wires
<1>12. ASSUME NEW k \in Requests, NEW q \in Rollouts, BeginRequest(k, q) \/ FinishRequest(k, q) \/ DropRequest(k, q)
       PROVE  UNCHANGED down
  BY <1>12 DEF BeginRequest, FinishRequest, DropRequest, wires
<1>13. ASSUME NEW b \in Agents, NEW s \in Sessions,
              \/ Inbound(b, s) \/ AgentSelect(b, s) \/ AgentGet(b, s)
              \/ CatchupFails(b, s)
              \/ \E q \in Rollouts : AgentMark(b, s, q)
       PROVE  UNCHANGED down
  BY <1>13 DEF Inbound, IngestHello, Attempt, IngestStatus, CountInFlight, MarkCompleted, CompletionFails, InboundEnd,
               AgentSelect, AgentGet, AgentMark, CatchupFails, wires
<1>14. ASSUME NEW b \in Agents, StreamAuth(b)
       PROVE  UNCHANGED down
  BY <1>14 DEF StreamAuth, Attempt, wires
<1>15. ASSUME NEW b \in Agents, NEW w \in work[b],
              ReportStart(b, w) \/ ReportResult(b, w) \/ ReportAbort(b, w)
       PROVE  UNCHANGED down
  BY <1>15 DEF ReportStart, ReportResult, ReportAbort
<1>16. CASE UNCHANGED vars
  BY <1>16, <1>1 DEF vars, wires
<1> QED
  BY <1>1, <1>4, <1>5, <1>6, <1>8, <1>9, <1>10, <1>11, <1>12, <1>13, <1>14, <1>15, <1>16
     DEF Next, Panel, Environment, Dispatch, Abort, Catchup

\* A history variable only grows, but that a connection which dies is forgotten.
Grows == skipped \subseteq skipped' /\ cut \subseteq cut' /\ unmarked \subseteq unmarked'

LEMMA HistoryGrows ==
  ASSUME [Next]_vars
  PROVE  /\ everPaused \subseteq everPaused'
         /\ Grows \/ PanelRestart \/ \E a \in Agents : Disconnect(a) \/ Restart(a)
<1> DEFINE Goal == everPaused \subseteq everPaused' /\ Grows
<1> USE DEF Grows
<1>1. ASSUME NEW r \in Rollouts, CreateRollout(r) \/ Dispatch(r) \/ Abort(r)
      PROVE  Goal
  BY <1>1 DEF CreateRollout, Dispatch, RollSelect, RollSkip, RollSend, RollMark, RollCut,
              Abort, AbortSelect, AbortSend, AbortMark, AbortCut, admin, tasks, history, missed
<1>2. ASSUME NEW q \in Requests, NEW r \in Rollouts,
             BeginRequest(q, r) \/ FinishRequest(q, r) \/ DropRequest(q, r)
      PROVE  Goal
  BY <1>2 DEF BeginRequest, FinishRequest, DropRequest, tasks, history, missed
<1>3. ASSUME NEW a \in Agents, NEW s \in Sessions, Catchup(a, s)
      PROVE  Goal
  BY <1>3 DEF Catchup, AgentSelect, AgentGet, AgentSend, AgentMark, CatchupFails, admin,
              history, missed
<1>4. ASSUME NEW a \in Agents, NEW s \in Sessions, Inbound(a, s)
      PROVE  Goal
  BY <1>4 DEF Inbound, IngestHello, IngestStatus, CountInFlight, MarkCompleted,
              CompletionFails, InboundEnd, admin, tasks, history, missed
<1>5. ASSUME NEW a \in Agents, StreamAuth(a) \/ StreamRegister(a) \/ Receive(a)
      PROVE  Goal
  BY <1>5 DEF StreamAuth, StreamRegister, Receive, admin, tasks, history, missed
<1>6. ASSUME NEW a \in Agents, Disconnect(a) \/ Restart(a)
      PROVE  everPaused \subseteq everPaused'
  BY <1>6 DEF Disconnect, Restart, admin
<1>7. ASSUME NEW a \in Agents, NEW w \in work[a],
             ReportStart(a, w) \/ ReportResult(a, w) \/ ReportAbort(a, w)
      PROVE  Goal
  BY <1>7 DEF ReportStart, ReportResult, ReportAbort, admin, tasks, history, missed
<1>8. CASE PanelRestart
  BY <1>8 DEF PanelRestart
<1>9. CASE UNCHANGED vars
  BY <1>9 DEF vars, admin, tasks, history, missed
<1> HIDE DEF Grows
<1> QED
  BY <1>1, <1>2, <1>3, <1>4, <1>5, <1>6, <1>7, <1>8, <1>9 DEF Next, Panel, Environment

\* What the history says of a row holds as long as its agent's connection.
LEMMA MissedStays ==
  ASSUME TypeOK, [Next]_vars, NEW r \in Rollouts, NEW a \in Agents
  PROVE  /\ <<r, a>> \in skipped \cup cut => <<r, a>> \in skipped' \cup cut' \/ link'[a] # "up"
         /\ <<r, a>> \in unmarked => <<r, a>> \in unmarked' \/ down'[a] = <<>>
<1>1. ASSUME NEW b \in Agents, Disconnect(b) \/ Restart(b)
      PROVE  /\ skipped' = Forgotten(skipped, b) /\ cut' = Forgotten(cut, b)
             /\ unmarked' = Forgotten(unmarked, b)
             /\ a = b => link'[a] = "down" /\ down'[a] = <<>>
  BY <1>1 DEF Disconnect, Restart, Lost, TypeOK, SessionOK, DownOK
<1>2. CASE PanelRestart
  BY <1>2 DEF PanelRestart
<1> QED
  BY <1>1, <1>2, HistoryGrows DEF Forgotten, Grows

\* Frames wait only for an agent whose connection is up.
DownUp == \A a \in Agents : down[a] # <<>> => link[a] = "up"

LEMMA DownUpStep ==
  ASSUME TypeOK, DownUp, [Next]_vars
  PROVE  DownUp'
<1>0. down \in [Agents -> Seq(Frame)] /\ link \in [Agents -> {"down", "auth", "up"}]
  BY DEF TypeOK, DownOK, SessionOK
<1>1. CASE UNCHANGED <<down, link>>
  BY <1>1 DEF DownUp
<1>2. ASSUME UNCHANGED link, \A a \in Agents : down'[a] = down[a] \/ link[a] = "up"
      PROVE  DownUp'
  BY <1>2 DEF DownUp
<1>3. ASSUME NEW a \in Agents, NEW s, NEW f, NEW ok \in BOOLEAN, TrySend(a, s, f, ok)
      PROVE  \A b \in Agents : down'[b] = down[b] \/ link[b] = "up"
  BY <1>0, <1>3 DEF TrySend
<1>4. ASSUME NEW r \in Rollouts, NEW a \in Agents, RollSend(r, a)
      PROVE  DownUp'
  <2>1. UNCHANGED link /\ \E ok \in BOOLEAN : TrySend(a, hub[a], [kind |-> "update", r |-> r], ok)
    BY <1>4 DEF RollSend, session
  <2> QED
    BY <1>2, <1>3, <2>1
<1>5. ASSUME NEW r \in Rollouts, NEW a \in Agents, NEW s \in Sessions, AgentSend(a, s, r)
      PROVE  DownUp'
  <2>1. /\ UNCHANGED link
        /\ \E ok \in BOOLEAN : TrySend(a, agentTask[a][s].to, [kind |-> "update", r |-> r], ok)
    BY <1>5 DEF AgentSend, session
  <2> QED
    BY <1>2, <1>3, <2>1
<1>6. ASSUME NEW r \in Rollouts, AbortSend(r)
      PROVE  DownUp'
  BY <1>2, <1>6 DEF AbortSend, session, Live
<1>7. ASSUME NEW a \in Agents, Receive(a)
      PROVE  DownUp'
  BY <1>0, <1>2, <1>7 DEF Receive, session
<1>8. ASSUME NEW a \in Agents, StreamRegister(a)
      PROVE  DownUp'
  BY <1>0, <1>8 DEF StreamRegister, DownUp
<1>9. ASSUME NEW a \in Agents, StreamAuth(a)
      PROVE  DownUp'
  <2>1. down' = down /\ link[a] = "down" /\ link' = [link EXCEPT ![a] = "auth"]
    BY <1>9 DEF StreamAuth, wires
  <2> QED
    BY <1>0, <2>1 DEF DownUp
<1>10. ASSUME NEW a \in Agents, Disconnect(a) \/ Restart(a)
       PROVE  DownUp'
  <2>1. down' = [down EXCEPT ![a] = <<>>] /\ link' = [link EXCEPT ![a] = "down"]
    BY <1>10 DEF Disconnect, Restart, Lost
  <2> QED
    BY <1>0, <2>1 DEF DownUp
<1>11. CASE PanelRestart
  BY <1>11 DEF PanelRestart, DownUp
<1>12. ASSUME NEW r \in Rollouts,
              \/ CreateRollout(r) \/ RollSelect(r) \/ RollCut(r)
              \/ AbortSelect(r) \/ AbortMark(r) \/ AbortCut(r)
              \/ \E a \in Agents : RollSkip(r, a) \/ RollMark(r, a)
       PROVE  UNCHANGED <<down, link>>
  BY <1>12 DEF CreateRollout, RollSelect, RollSkip, RollMark, RollCut, AbortSelect, AbortMark,
               AbortCut, wires, session
<1>13. ASSUME NEW q \in Requests, NEW r \in Rollouts,
              BeginRequest(q, r) \/ FinishRequest(q, r) \/ DropRequest(q, r)
       PROVE  UNCHANGED <<down, link>>
  BY <1>13 DEF BeginRequest, FinishRequest, DropRequest, wires, session
<1>14. ASSUME NEW a \in Agents, NEW s \in Sessions,
              \/ Inbound(a, s) \/ AgentSelect(a, s) \/ AgentGet(a, s) \/ CatchupFails(a, s)
              \/ \E r \in Rollouts : AgentMark(a, s, r)
       PROVE  UNCHANGED <<down, link>>
  BY <1>14 DEF Inbound, IngestHello, IngestStatus, CountInFlight, MarkCompleted,
               CompletionFails, InboundEnd, AgentSelect, AgentGet, AgentMark, CatchupFails,
               wires, session
<1>15. ASSUME NEW a \in Agents, NEW w \in work[a],
              ReportStart(a, w) \/ ReportResult(a, w) \/ ReportAbort(a, w)
       PROVE  UNCHANGED <<down, link>>
  BY <1>15 DEF ReportStart, ReportResult, ReportAbort, session
<1>16. CASE UNCHANGED vars
  BY <1>1, <1>16 DEF vars, wires, session
<1> QED
  BY <1>1, <1>4, <1>5, <1>6, <1>7, <1>8, <1>9, <1>10, <1>11, <1>12, <1>13, <1>14, <1>15,
     <1>16 DEF Next, Panel, Environment, Dispatch, Abort, Catchup

\* Every update frame on its way to an agent is of a rollout that was created,
\* and its row is recorded or about to be, or was left by a dispatcher that ended.
QueuedOK ==
  \A r \in Rollouts, a \in Agents :
    UpdateQueued(r, a) /\ assign[r][a] = "pending"
      => Recording(r, a) \/ <<r, a>> \in unmarked

LEMMA QueuedStep ==
  ASSUME TypeOK, TasksKnown, DownKnown, TaskShape, DownUp, QueuedOK, [Next]_vars
  PROVE  QueuedOK'
<1>1. CASE PanelRestart
  BY <1>1 DEF PanelRestart, QueuedOK, UpdateQueued
<1>2. ASSUME ~PanelRestart, NEW r \in Rollouts, NEW a \in Agents,
             UpdateQueued(r, a)', assign'[r][a] = "pending", ~Recording(r, a)',
             <<r, a>> \notin unmarked'
      PROVE  FALSE
  <2>1. UpdateQueued(r, a)
    BY <1>2, QueuedByDispatcher
  <2>2. PICK i \in 1 .. Len(down[a]) : down[a][i].r = r
    BY <2>1 DEF UpdateQueued
  <2>3. down[a][i] \in [kind : {"update", "abort"}, r : Created]
    <3> DEFINE F == [kind : {"update", "abort"}, r : Created]
    <3>1. down[a] \in Seq(F)
      BY DEF DownKnown
    <3> HIDE DEF F
    <3>2. down[a][i] \in F
      BY <2>2, <3>1
    <3> QED
      BY <3>2 DEF F
  <2>4. ~CreateRollout(r)
    BY <2>2, <2>3 DEF CreateRollout, Created
  <2>5. Recording(r, a) \/ <<r, a>> \in unmarked
    BY <1>2, <2>1, <2>4, PendingRows DEF QueuedOK
  <2>6. link[a] = "up" /\ down'[a] # <<>>
    BY <1>2, <2>2 DEF DownUp, UpdateQueued
  <2>7. <<r, a>> \notin unmarked
    BY <1>2, <2>6, MissedStays
  <2> QED
    BY <1>2, <2>5, <2>6, <2>7, RecordingEnds
<1> QED
  BY <1>1, <1>2 DEF QueuedOK

\* A frame an agent may act on has its row marked sent, or the dispatcher that
\* queued it is about to mark it, or that dispatcher ended before it could (a
\* request dropped, a statement failed): of every other frame no reconnection
\* ships a second one.
THEOREM QueuedFramesRecorded == Spec => []QueuedIsRecorded
<1> DEFINE IInv == TypeOK /\ Known /\ TaskShape /\ DownUp /\ QueuedOK
<1>1. Init => IInv
  <2> SUFFICES ASSUME Init PROVE IInv
    OBVIOUS
  <2>1. TypeOK /\ Known
    BY InitTypeOK
       DEF Init, Known, TasksKnown, DownKnown, UpKnown, WorkKnown, LoopKnown, Created, Idle
  <2>2. TaskShape
    BY DEF Init, TaskShape, RollShape, AgentShape, AtMostOne
  <2>3. QueuedOK /\ DownUp
    BY DEF Init, QueuedOK, UpdateQueued, DownUp
  <2> QED
    BY <2>1, <2>2, <2>3
<1>2. IInv /\ [Next]_vars => IInv'
  BY NextTypeOK, TasksKnownStep, DownKnownStep, UpKnownStep, WorkKnownStep, LoopKnownStep,
     TaskShapeStep, DownUpStep, QueuedStep DEF Known
<1>3. IInv => QueuedIsRecorded
  <2> SUFFICES ASSUME IInv, NEW a \in Agents, NEW i \in 1 .. Len(down[a]),
                      down[a][i].kind = "update", assign[down[a][i].r][a] = "pending"
               PROVE  Recording(down[a][i].r, a) \/ <<down[a][i].r, a>> \in unmarked
    BY DEF QueuedIsRecorded, Recording
  <2>1. down[a][i] \in Frame
    BY DEF TypeOK, DownOK
  <2>2. down[a][i].r \in Rollouts
    BY <2>1 DEF Frame
  <2>3. UpdateQueued(down[a][i].r, a)
    BY DEF UpdateQueued
  <2> QED
    BY <2>2, <2>3 DEF QueuedOK
<1>4. QED
  BY <1>1, <1>2, <1>3, PTL DEF Spec

----------------------------------------------------------------------------
(* Every pending row has a dispatcher ahead of it.                          *)

\* What is paused, or has passed the check of a resume, has been paused.
PausesKnown ==
  \A r \in Rollouts :
    rollout[r] = "paused" \/ <<"resume", r>> \in requests => r \in everPaused

\* Only BeginRequest adds an admin request.
LEMMA WhatAddsRequests ==
  ASSUME [Next]_vars, NEW q \in Requests, NEW r \in Rollouts, <<q, r>> \in requests'
  PROVE  <<q, r>> \in requests \/ rollout[r] \in AllowedFrom[q]
<1> DEFINE Goal == <<q, r>> \in requests \/ rollout[r] \in AllowedFrom[q]
<1>1. CASE UNCHANGED requests
  BY <1>1
<1>2. ASSUME NEW k \in Requests, NEW p \in Rollouts, BeginRequest(k, p) \/ FinishRequest(k, p) \/ DropRequest(k, p)
      PROVE  Goal
  BY <1>2 DEF BeginRequest, FinishRequest, DropRequest
<1>3. ASSUME NEW p \in Rollouts, CreateRollout(p) \/ Dispatch(p) \/ Abort(p)
      PROVE  UNCHANGED requests
  BY <1>3 DEF CreateRollout, Dispatch, RollSelect, RollSkip, RollSend, RollMark, RollCut,
              Abort, AbortSelect, AbortSend, AbortMark, AbortCut, admin
<1>4. ASSUME NEW a \in Agents, NEW s \in Sessions, Catchup(a, s) \/ Inbound(a, s)
      PROVE  UNCHANGED requests
  BY <1>4 DEF Catchup, AgentSelect, AgentGet, AgentSend, AgentMark, CatchupFails, Inbound, IngestHello, Attempt,
              IngestStatus, CountInFlight, MarkCompleted, CompletionFails, InboundEnd, admin
<1>5. ASSUME NEW a \in Agents,
             StreamAuth(a) \/ StreamRegister(a) \/ Receive(a) \/ Disconnect(a) \/ Restart(a)
      PROVE  UNCHANGED requests
  BY <1>5 DEF StreamAuth, Attempt, StreamRegister, Receive, Disconnect, Restart, admin
<1>6. ASSUME NEW a \in Agents, NEW w \in work[a],
             ReportStart(a, w) \/ ReportResult(a, w) \/ ReportAbort(a, w)
      PROVE  UNCHANGED requests
  BY <1>6 DEF ReportStart, ReportResult, ReportAbort, admin
<1>7. CASE PanelRestart
  BY <1>7 DEF PanelRestart
<1>8. CASE UNCHANGED vars
  BY <1>1, <1>8 DEF vars, admin
<1> QED
  BY <1>1, <1>2, <1>3, <1>4, <1>5, <1>6, <1>7, <1>8 DEF Next, Panel, Environment

LEMMA PausesKnownStep ==
  ASSUME TypeOK, PausesKnown, [Next]_vars
  PROVE  PausesKnown'
<1> SUFFICES ASSUME NEW r \in Rollouts,
                    rollout'[r] = "paused" \/ <<"resume", r>> \in requests'
             PROVE  r \in everPaused'
  BY DEF PausesKnown
<1>1. CASE rollout'[r] = "paused"
  <2>1. ASSUME NEW q \in Requests, FinishRequest(q, r), rollout'[r] = Written[q]
        PROVE  q = "pause"
    BY <1>1, <2>1, RolloutAssumption DEF Written
  <2>2. ASSUME FinishRequest("pause", r)
        PROVE  r \in everPaused'
    BY <2>2 DEF FinishRequest
  <2> QED
    BY <1>1, <2>1, <2>2, WhatChangesState, HistoryGrows DEF PausesKnown
<1>2. CASE <<"resume", r>> \in requests'
  <2>1. "resume" \in Requests
    BY <1>2, NextTypeOK DEF TypeOK, AdminOK
  <2>2. <<"resume", r>> \in requests \/ rollout[r] = "paused"
    BY <1>2, <2>1, WhatAddsRequests DEF AllowedFrom
  <2> QED
    BY <2>2, HistoryGrows DEF PausesKnown
<1> QED
  BY <1>1, <1>2

\* The dispatcher that the current stream spawned sends to the current
\* session: it looked the session up after registering.
AddressedOK ==
  /\ \A a \in Agents : hub[a] \in {0, sess[a]}
  /\ \A a \in Agents, s \in Sessions :
       s = sess[a] /\ agentTask[a][s].pc = "loop"
         => agentTask[a][s].rows = {} \/ agentTask[a][s].to = s

LEMMA HubFrame ==
  ASSUME [Next]_vars
  PROVE  \/ UNCHANGED <<sess, hub>>
         \/ \E a \in Agents : StreamRegister(a)
         \/ UNCHANGED sess /\ \E a \in Agents : hub' = [hub EXCEPT ![a] = 0]
         \/ PanelRestart
<1>1. ASSUME NEW r \in Rollouts, CreateRollout(r) \/ Dispatch(r) \/ Abort(r)
      PROVE  UNCHANGED <<sess, hub>>
  BY <1>1 DEF CreateRollout, Dispatch, RollSelect, RollSkip, RollSend, RollMark, RollCut,
              Abort, AbortSelect, AbortSend, AbortMark, AbortCut, session
<1>2. ASSUME NEW q \in Requests, NEW r \in Rollouts, BeginRequest(q, r) \/ FinishRequest(q, r) \/ DropRequest(q, r)
      PROVE  UNCHANGED <<sess, hub>>
  BY <1>2 DEF BeginRequest, FinishRequest, DropRequest, session
<1>3. ASSUME NEW a \in Agents, NEW s \in Sessions, Catchup(a, s)
      PROVE  UNCHANGED <<sess, hub>>
  BY <1>3 DEF Catchup, AgentSelect, AgentGet, AgentSend, AgentMark, CatchupFails, session
<1>4. ASSUME NEW a \in Agents, NEW s \in Sessions, Inbound(a, s), ~InboundEnd(a, s)
      PROVE  UNCHANGED <<sess, hub>>
  BY <1>4 DEF Inbound, IngestHello, Attempt, IngestStatus, CountInFlight, MarkCompleted, CompletionFails, session
<1>5. ASSUME NEW a \in Agents, NEW s \in Sessions, InboundEnd(a, s)
      PROVE  UNCHANGED sess /\ hub' = [hub EXCEPT ![a] = 0]
  BY <1>5 DEF InboundEnd, HubAfterEnd
<1>6. ASSUME NEW a \in Agents, StreamAuth(a) \/ Receive(a) \/ Disconnect(a) \/ Restart(a)
      PROVE  UNCHANGED <<sess, hub>>
  BY <1>6 DEF StreamAuth, Attempt, Receive, Disconnect, Restart, session
<1>7. ASSUME NEW a \in Agents, NEW w \in work[a],
             ReportStart(a, w) \/ ReportResult(a, w) \/ ReportAbort(a, w)
      PROVE  UNCHANGED <<sess, hub>>
  BY <1>7 DEF ReportStart, ReportResult, ReportAbort, session
<1>8. CASE UNCHANGED vars
  BY <1>8 DEF vars, session
<1> QED
  BY <1>1, <1>2, <1>3, <1>4, <1>5, <1>6, <1>7, <1>8 DEF Next, Panel, Environment

LEMMA AddressedStep ==
  ASSUME TypeOK, TaskShape, AddressedOK, [Next]_vars
  PROVE  AddressedOK'
<1>1. ASSUME NEW a \in Agents
      PROVE  hub'[a] \in {0, sess'[a]}
  <2>1. ASSUME NEW b \in Agents, StreamRegister(b)
        PROVE  hub'[a] \in {0, sess'[a]}
    BY <2>1 DEF StreamRegister, AddressedOK, TypeOK, SessionOK
  <2>2. ASSUME NEW b \in Agents, UNCHANGED sess, hub' = [hub EXCEPT ![b] = 0]
        PROVE  hub'[a] \in {0, sess'[a]}
    BY <2>2 DEF AddressedOK, TypeOK, SessionOK
  <2>3. CASE PanelRestart
    BY <2>3 DEF PanelRestart
  <2> QED
    BY <2>1, <2>2, <2>3, HubFrame DEF AddressedOK
<1>2. ASSUME NEW a \in Agents, NEW s \in Sessions, s = sess'[a], agentTask'[a][s].pc = "loop"
      PROVE  agentTask'[a][s].rows = {} \/ agentTask'[a][s].to = s
  <2> DEFINE Goal == agentTask'[a][s].rows = {} \/ agentTask'[a][s].to = s
  <2>1. CASE UNCHANGED <<agentTask, sess>>
    BY <1>2, <2>1 DEF AddressedOK
  <2>2. ASSUME NEW r \in Rollouts, CreateRollout(r) \/ Dispatch(r)
        PROVE  UNCHANGED <<agentTask, sess>>
    BY <2>2, RollStep DEF CreateRollout, session
  <2>3. ASSUME NEW b \in Agents, StreamRegister(b)
        PROVE  Goal
    <3>1. /\ sess' = [sess EXCEPT ![b] = sess[b] + 1]
          /\ agentTask' = [agentTask EXCEPT ![b][sess[b] + 1].pc = "select"]
      BY <2>3 DEF StreamRegister, WithCatchup
    <3>2. CASE b = a
      <4>1. s = sess[b] + 1
        BY <1>2, <3>1, <3>2 DEF TypeOK, SessionOK
      <4>2. agentTask'[a][s].pc = "select"
        BY <3>1, <3>2, <4>1 DEF TypeOK, TasksOK, AgentTasks
      <4> QED
        BY <1>2, <4>2
    <3>3. CASE b # a
      BY <1>2, <3>1, <3>3 DEF TypeOK, TasksOK, SessionOK, AddressedOK
    <3> QED
      BY <3>2, <3>3
  <2>4. ASSUME NEW b \in Agents, NEW t \in Sessions, Catchup(b, t)
        PROVE  Goal
    <3>1. /\ UNCHANGED sess
          /\ ~(a = b /\ s = t) => agentTask'[a][s] = agentTask[a][s]
      BY <2>4, CatchupStep
    <3>2. CASE a = b /\ s = t
      <4>1. AgentShape(a, s)
        BY DEF TaskShape
      <4>2. \/ /\ agentTask[a][s].pc = "loop" /\ agentTask'[a][s].to = agentTask[a][s].to
               /\ agentTask'[a][s].rows \subseteq agentTask[a][s].rows
            \/ /\ agentTask'[a][s].to = hub[a]
               /\ hub[a] = 0 => agentTask'[a][s].rows = {}
            \/ agentTask'[a][s].rows = {}
        BY <1>2, <2>4, <3>2, <4>1, CatchupStep DEF AgentShape
      <4> QED
        BY <1>2, <3>1, <4>2 DEF AddressedOK
    <3> QED
      BY <1>2, <3>1, <3>2 DEF AddressedOK
  <2>5. CASE PanelRestart
    BY <1>2, <2>5 DEF PanelRestart
  <2> QED
    BY <2>1, <2>2, <2>3, <2>4, <2>5, TaskFrame
<1> QED
  BY <1>1, <1>2 DEF AddressedOK

\* The row of a connected agent that waits for its frame.
Waiting(r, a) ==
  /\ rollout[r] = "active" /\ r \notin everPaused
  /\ assign[r][a] = "pending"
  /\ link[a] = "up" /\ <<r, a>> \notin skipped \cup cut

\* A stream comes up only by registering.
LEMMA LinkComesUp ==
  ASSUME TypeOK, [Next]_vars, NEW a \in Agents, link'[a] = "up"
  PROVE  link[a] = "up" \/ StreamRegister(a)
<1> DEFINE Goal == link[a] = "up" \/ StreamRegister(a)
<1>1. CASE UNCHANGED link
  BY <1>1
<1>2. ASSUME NEW r \in Rollouts, CreateRollout(r) \/ Dispatch(r) \/ Abort(r)
      PROVE  UNCHANGED link
  BY <1>2 DEF CreateRollout, Dispatch, RollSelect, RollSkip, RollSend, RollMark, RollCut,
              Abort, AbortSelect, AbortSend, AbortMark, AbortCut, session
<1>3. ASSUME NEW q \in Requests, NEW r \in Rollouts, BeginRequest(q, r) \/ FinishRequest(q, r) \/ DropRequest(q, r)
      PROVE  UNCHANGED link
  BY <1>3 DEF BeginRequest, FinishRequest, DropRequest, session
<1>4. ASSUME NEW b \in Agents, NEW s \in Sessions, Catchup(b, s) \/ Inbound(b, s)
      PROVE  UNCHANGED link
  BY <1>4 DEF Catchup, AgentSelect, AgentGet, AgentSend, AgentMark, CatchupFails, Inbound, IngestHello, Attempt,
              IngestStatus, CountInFlight, MarkCompleted, CompletionFails, InboundEnd, session
<1>5. ASSUME NEW b \in Agents, StreamRegister(b)
      PROVE  Goal
  <2>1. link' = [link EXCEPT ![b] = "up"]
    BY <1>5 DEF StreamRegister
  <2> QED
    BY <1>5, <2>1 DEF TypeOK, SessionOK
<1>6. ASSUME NEW b \in Agents, StreamAuth(b) \/ Receive(b) \/ Disconnect(b) \/ Restart(b)
      PROVE  Goal
  BY <1>6 DEF StreamAuth, Attempt, Receive, Disconnect, Restart, Lost, session, TypeOK, SessionOK
<1>7. ASSUME NEW b \in Agents, NEW w \in work[b],
             ReportStart(b, w) \/ ReportResult(b, w) \/ ReportAbort(b, w)
      PROVE  UNCHANGED link
  BY <1>7 DEF ReportStart, ReportResult, ReportAbort, session
<1>8. CASE PanelRestart
  BY <1>8 DEF PanelRestart
<1>9. CASE UNCHANGED vars
  BY <1>1, <1>9 DEF vars, session
<1> QED
  BY <1>1, <1>2, <1>3, <1>4, <1>5, <1>6, <1>7, <1>8, <1>9 DEF Next, Panel, Environment

\* A row starts to wait when its rollout is created or its agent connects.
LEMMA StartsToWait ==
  ASSUME TypeOK, PausesKnown, [Next]_vars, NEW r \in Rollouts, NEW a \in Agents, Waiting(r, a)'
  PROVE  Waiting(r, a) \/ CreateRollout(r) \/ StreamRegister(a)
<1>1. ASSUME NEW q \in Requests, FinishRequest(q, r), rollout'[r] = Written[q]
      PROVE  FALSE
  <2>1. q = "resume" /\ <<q, r>> \in requests
    BY <1>1, RolloutAssumption DEF FinishRequest, Written, Waiting
  <2> QED
    BY <2>1, HistoryGrows DEF PausesKnown, Waiting
<1>2. rollout[r] = "active" \/ CreateRollout(r)
  BY <1>1, WhatChangesState DEF Waiting
<1>3. assign[r][a] = "pending" \/ CreateRollout(r)
  BY PendingRows DEF Waiting
<1>4. link[a] = "up" \/ StreamRegister(a)
  BY LinkComesUp DEF Waiting
<1> QED
  BY <1>2, <1>3, <1>4, HistoryGrows, MissedStays DEF Waiting

\* A dispatcher passes over a waiting row only by marking it, by finding the
\* queue of the live session full or by ending early.
LEMMA StaysCovered ==
  ASSUME TypeOK, TaskShape, AddressedOK, LiveIsRegistered, [Next]_vars, ~PanelRestart,
         NEW r \in Rollouts, NEW a \in Agents, ~StreamRegister(a),
         Waiting(r, a), Waiting(r, a)', Covered(r, a)
  PROVE  Covered(r, a)'
<1>0. /\ sess[a] \in Sessions /\ hub[a] = sess[a] /\ hub[a] # 0 /\ link[a] = "up"
      /\ assign'[r][a] = "pending" /\ assign[r][a] = "pending"
      /\ <<r, a>> \notin skipped' /\ <<r, a>> \notin cut'
  BY RolloutAssumption DEF Waiting, LiveIsRegistered, TypeOK, SessionOK, Sessions
<1>1. CASE UNCHANGED <<rollTask, agentTask, sess>>
  BY <1>1 DEF Covered
<1>2. ASSUME NEW q \in Rollouts, CreateRollout(q)
      PROVE  Covered(r, a)'
  <2>1. UNCHANGED <<agentTask, sess>>
    BY <1>2 DEF CreateRollout, session
  <2>2. rollTask'[r].rows = rollTask[r].rows /\ (rollTask[r].pc = "select" => rollTask'[r].pc = "select")
    BY <1>2 DEF CreateRollout, TypeOK, TasksOK, RollTasks
  <2> QED
    BY <2>1, <2>2 DEF Covered
<1>3. ASSUME NEW q \in Rollouts, Dispatch(q)
      PROVE  Covered(r, a)'
  <2>1. /\ UNCHANGED <<agentTask, sess>>
        /\ q # r => rollTask'[r] = rollTask[r]
    BY <1>3, RollStep
  <2>2. ASSUME q = r, rollTask[r].pc = "select"
        PROVE  a \in rollTask'[r].rows
    <3>1. ~RollCut(r)
      BY <1>0, <2>2 DEF RollCut, Missed, Ahead
    <3> QED
      BY <1>3, <2>2, <3>1, RollStep DEF TaskShape, RollShape, Waiting, Open
  <2>3. ASSUME q = r, rollTask[r].pc # "select", a \in rollTask[r].rows
        PROVE  a \in rollTask'[r].rows
    <3>1. ~RollSkip(r, a)
      BY <1>0 DEF RollSkip
    <3>2. RollSend(r, a) => rollTask'[r].rows = rollTask[r].rows
      BY <1>0 DEF RollSend, Live, TypeOK, TasksOK, RollTasks
    <3>3. ~RollMark(r, a)
      BY <1>0, MarkedNotPending DEF RollMark
    <3>4. ~RollCut(r)
      BY <1>0, <2>3 DEF RollCut, Missed, Ahead
    <3> QED
      BY <1>3, <2>3, <3>1, <3>2, <3>3, <3>4, RollStep
  <2> QED
    BY <2>1, <2>2, <2>3 DEF Covered
<1>4. ASSUME NEW b \in Agents, NEW s \in Sessions, Catchup(b, s)
      PROVE  Covered(r, a)'
  <2>1. /\ UNCHANGED <<rollTask, sess>>
        /\ ~(a = b /\ sess[a] = s) => agentTask'[a][sess[a]] = agentTask[a][sess[a]]
    BY <1>0, <1>4, CatchupStep
  <2>2. ASSUME a = b, sess[a] = s, agentTask[a][s].pc = "select"
        PROVE  r \in agentTask'[a][s].rows
    <3>1. ~CatchupFails(a, s)
      BY <1>0, <2>2 DEF CatchupFails, Missed
    <3> QED
      BY <1>4, <2>2, <3>1, CatchupStep DEF TaskShape, AgentShape, Waiting, Open
  <2>3. ASSUME a = b, sess[a] = s, agentTask[a][s].pc # "select", r \in agentTask[a][s].rows
        PROVE  r \in agentTask'[a][s].rows
    <3>1. AgentSend(a, s, r) => agentTask'[a][s].rows = agentTask[a][s].rows
      <4>1. AgentSend(a, s, r) => agentTask[a][s].to = s
        BY <2>3 DEF AgentSend, AddressedOK
      <4> QED
        BY <1>0, <2>3, <4>1 DEF AgentSend, Live, TypeOK, TasksOK, AgentTasks
    <3>2. ~AgentMark(a, s, r)
      BY <1>0, MarkedNotPending DEF AgentMark
    <3>3. ~CatchupFails(a, s)
      BY <1>0, <2>3 DEF CatchupFails, Missed
    <3> QED
      BY <1>0, <1>4, <2>3, <3>1, <3>2, <3>3, CatchupStep
  <2> QED
    BY <2>1, <2>2, <2>3 DEF Covered
<1>5. ASSUME NEW b \in Agents, StreamRegister(b)
      PROVE  Covered(r, a)'
  <2>1. b # a
    BY <1>5
  <2>2. UNCHANGED rollTask /\ sess'[a] = sess[a] /\ agentTask'[a] = agentTask[a]
    BY <1>5, <2>1 DEF StreamRegister, WithCatchup, TypeOK, SessionOK, TasksOK
  <2> QED
    BY <2>2 DEF Covered
<1> QED
  BY <1>1, <1>2, <1>3, <1>4, <1>5, TaskFrame

\* Whichever of CREATE and CONNECT comes second, its dispatcher finds the row.
LEMMA CoversStep ==
  ASSUME TypeOK, TaskShape, PausesKnown, AddressedOK, LiveIsRegistered, DispatchCovers,
         [Next]_vars
  PROVE  DispatchCovers'
<1> SUFFICES ASSUME NEW r \in Rollouts, NEW a \in Agents, Waiting(r, a)'
             PROVE  Covered(r, a)'
  BY DEF DispatchCovers, Waiting
<1>1. CASE CreateRollout(r)
  BY <1>1 DEF CreateRollout, Covered, TypeOK, TasksOK, RollTasks
<1>2. CASE StreamRegister(a)
  <2>1. sess[a] + 1 \in Sessions
    BY <1>2, NextSession DEF StreamRegister, TypeOK
  <2>2. sess'[a] = sess[a] + 1 /\ agentTask'[a][sess[a] + 1].pc = "select"
    BY <1>2, <2>1 DEF StreamRegister, WithCatchup, TypeOK, SessionOK, TasksOK, AgentTasks
  <2> QED
    BY <2>2 DEF Covered
<1>3. ~PanelRestart
  BY DEF PanelRestart, Waiting
<1>4. CASE Waiting(r, a) /\ ~StreamRegister(a)
  BY <1>3, <1>4, StaysCovered DEF DispatchCovers, Waiting
<1> QED
  BY <1>1, <1>2, <1>4, StartsToWait

\* No missed wake-up between creating a rollout, an agent connecting and the end
\* of a dispatcher: a pending row of a connected agent has a dispatcher ahead of
\* it unless one was cut off, or met a full queue, during this very connection.
THEOREM PendingRowsCovered == Spec => []DispatchCovers
<1> DEFINE IInv == TypeOK /\ TasksKnown /\ TaskShape /\ PausesKnown /\ AddressedOK
                   /\ DispatchCovers
<1>1. Init => IInv
  <2> SUFFICES ASSUME Init PROVE IInv
    OBVIOUS
  <2>1. TypeOK /\ TasksKnown
    BY InitTypeOK DEF Init, TasksKnown, Created
  <2>2. TaskShape
    BY DEF Init, TaskShape, RollShape, AgentShape, AtMostOne
  <2>3. PausesKnown /\ AddressedOK /\ DispatchCovers
    BY DEF Init, PausesKnown, AddressedOK, DispatchCovers
  <2> QED
    BY <2>1, <2>2, <2>3
<1>2. IInv /\ LiveIsRegistered /\ [Next]_vars => IInv'
  BY NextTypeOK, TasksKnownStep, TaskShapeStep, PausesKnownStep, AddressedStep, CoversStep
<1>3. IInv => DispatchCovers
  OBVIOUS
<1>4. QED
  BY <1>1, <1>2, <1>3, LiveSessionRegistered, PTL DEF Spec
============================================================================
