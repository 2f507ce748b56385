------------------------------ MODULE Rollout ------------------------------
(***************************************************************************)
(* The panel's half of the self-update pipeline: the tables                *)
(* update_rollouts and update_assignments, the two dispatchers that turn   *)
(* pending rows into UpdateAgent frames, the admin transitions, the abort  *)
(* fan-out, the session hub and the inbound loop that folds the agents'    *)
(* Hello and UpdateStatus frames back into the tables.                     *)
(*                                                                         *)
(* Every SQL statement is atomic; every await between two statements is a  *)
(* place where another task may run, so a handler of several statements    *)
(* is several actions, and one that may end at any of its awaits: the      *)
(* endpoints dispatch inside the request, which a client that leaves       *)
(* drops, and a statement that fails ends any dispatcher.  The agents and  *)
(* their supervisors are the environment: they take frames, report on      *)
(* rollouts they were told of, lose connections and restart on any release.*)
(***************************************************************************)
EXTENDS Naturals, Sequences, FiniteSets

CONSTANTS
  Agents,       \* agent ids that have registered
  Rollouts,     \* ids update_rollouts may hand out
  Releases,     \* builds of the agent
  Target,       \* Target[r]: the release rollout r ships
  Tag,          \* Tag[v]: the tag stored in update_rollouts.version
  Reported,     \* Reported[v]: the version string a running agent sends
  MaxSessions,  \* bound: connections one agent opens
  QueueCap,     \* DOWNSTREAM_BUFFER, scaled down
  UpCap,        \* bound: frames an agent has in flight upstream
  Requests,     \* admin endpoints in use
  MaxRequests,  \* bound: admin requests in flight together
  MaxFailures   \* bound: statements that fail and requests that are dropped

ASSUME RolloutAssumption ==
  /\ Target \in [Rollouts -> Releases]
  /\ DOMAIN Tag = Releases
  /\ DOMAIN Reported = Releases
  /\ Requests \subseteq {"pause", "resume", "abort"}
  /\ MaxSessions \in Nat
  /\ QueueCap \in Nat
  /\ UpCap \in Nat
  /\ MaxRequests \in Nat
  /\ MaxFailures \in Nat

VARIABLES
  rollout,    \* update_rollouts.state, "none" before the INSERT
  assign,     \* update_assignments.state, "none" when there is no row
  requests,   \* admin transitions between their SELECT and their UPDATE
  abortTask,  \* dispatch_aborts_for_rollout, per rollout
  rollTask,   \* dispatch_pending_for_rollout, per rollout
  agentTask,  \* dispatch_pending_for_agent, per agent and session
  link,       \* the agent's stream: "down", "auth" (not yet in the hub), "up"
  sess,       \* number of the agent's latest session
  hub,        \* SessionHub: the registered session, 0 for none
  down,       \* frames queued to the latest session
  up,         \* frames on their way to the inbound loop of each session
  loop,       \* inbound loop of each session, inside ingest_update_status
  running,    \* release each agent runs
  work,       \* update and abort tasks each agent's stream has spawned
  skipped,    \* history: rows whose frame met a full queue of this connection
  cut,        \* history: rows left by a dispatcher that ended early while the
              \* agent's present connection was up
  unmarked,   \* history: rows it left with their frame in the queue
  failures,   \* history: failed statements and dropped requests
  everPaused  \* history: rollouts a pause has been written to

tables  == <<rollout, assign>>
admin   == <<requests, abortTask, everPaused>>
missed  == <<skipped, cut, unmarked>>
history == <<missed, failures>>
tasks   == <<rollTask, agentTask, history>>
session == <<link, sess, hub>>
wires   == <<down, up>>
agents  == <<running, work>>
vars    == <<tables, admin, tasks, session, wires, loop, agents>>

Sessions   == 1 .. MaxSessions
Open       == {"pending", "active"}              \* dispatch and completion filter
InFlight   == {"pending", "sent"}
AgentStates == {"Downloading", "Staged", "Failed"}  \* all an agent ever sends
Work       == [r : Rollouts, stage : {"start", "result", "abort"}]

RolloutStates == {"none", "pending", "active", "paused", "completed", "aborted"}
AssignStates  == {"none", "pending", "sent", "succeeded", "failed"}
AbortTasks == [pc : {"idle", "select", "send", "mark"}, rows : SUBSET Agents]
RollTasks  == [pc : {"idle", "select", "loop"}, rows : SUBSET Agents,
               sent : SUBSET Agents]
AgentTasks == [pc : {"idle", "select", "get", "loop"}, to : 0 .. MaxSessions,
               rows : SUBSET Rollouts, sent : SUBSET Rollouts]
Loops      == [pc : {"idle", "count", "complete"}, of : SUBSET Rollouts]
Frame  == [kind : {"update", "abort"}, r : Rollouts]
Hello  == [kind : {"Hello"}, v : Releases]
Status == [kind : AgentStates, r : Rollouts]
Idle   == [pc |-> "idle", of |-> {}]

\* allowed_from and the state written, per admin endpoint.
AllowedFrom == [pause |-> {"active"}, resume |-> {"paused"},
                abort |-> {"pending", "active", "paused"}]
Written     == [pause |-> "paused", resume |-> "active", abort |-> "aborted"]

Init ==
  /\ rollout = [r \in Rollouts |-> "none"]
  /\ assign = [r \in Rollouts |-> [a \in Agents |-> "none"]]
  /\ requests = {}
  /\ abortTask = [r \in Rollouts |-> [pc |-> "idle", rows |-> {}]]
  /\ rollTask = [r \in Rollouts |-> [pc |-> "idle", rows |-> {}, sent |-> {}]]
  /\ agentTask = [a \in Agents |-> [s \in Sessions |->
                    [pc |-> "idle", rows |-> {}, sent |-> {}, to |-> 0]]]
  /\ link = [a \in Agents |-> "down"]
  /\ sess = [a \in Agents |-> 0]
  /\ hub = [a \in Agents |-> 0]
  /\ down = [a \in Agents |-> <<>>]
  /\ up = [a \in Agents |-> [s \in Sessions |-> <<>>]]
  /\ loop = [a \in Agents |-> [s \in Sessions |-> Idle]]
  /\ running \in [Agents -> Releases]
  /\ work = [a \in Agents |-> {}]
  /\ skipped = {} /\ cut = {} /\ unmarked = {} /\ failures = 0
  /\ everPaused = {}

\* A statement fails, or the request it runs in is dropped.
Fails == failures < MaxFailures /\ failures' = failures + 1

----------------------------------------------------------------------------
(* SQL statements, as the new value of the table they write.               *)

\* mark_assignments_for_version.
Correlated(a, v) ==
  [r \in Rollouts |->
    IF /\ Tag[Target[r]] = Reported[v]
       /\ rollout[r] \in Open \cup {"paused"}
       /\ assign[r][a] \in InFlight
    THEN [assign[r] EXCEPT ![a] = "succeeded"]
    ELSE assign[r]]

\* Mutant: the mark also asks that the rollout still be open.
MarkedSent_IfOpen(r, a) ==
  IF assign[r][a] = "pending" /\ rollout[r] \in Open
  THEN [assign EXCEPT ![r][a] = "sent"] ELSE assign

\* The UPDATE .. SET state = 'sent' .. AND state = 'pending' of a dispatcher.
MarkedSent(r, a) ==
  IF assign[r][a] = "pending" THEN [assign EXCEPT ![r][a] = "sent"] ELSE assign

\* The UPDATE of ingest_update_status: it does not look at the old state, and
\* a status with no target state writes only last_status_message.
Ingested(r, a, k) ==
  IF assign[r][a] = "none" \/ k = "Staged" THEN assign
  ELSE [assign EXCEPT ![r][a] = IF k = "Failed" THEN "failed" ELSE "sent"]

\* Mutant: an unbounded downstream channel.
TrySend_Unbounded(a, s, f, ok) ==
  IF s = sess[a] /\ link[a] = "up"
  THEN ok /\ down' = [down EXCEPT ![a] = Append(@, f)]
  ELSE down' = down

\* AgentSession::try_send of frame f to session s of agent a.  A session whose
\* connection is gone may still take the frame into a buffer nobody reads.
TrySend(a, s, f, ok) ==
  IF s = sess[a] /\ link[a] = "up"
  THEN /\ ok = (Len(down[a]) < QueueCap)
       /\ down' = IF ok THEN [down EXCEPT ![a] = Append(@, f)] ELSE down
  ELSE down' = down

Live(a, s) == link[a] = "up" /\ sess[a] = s

----------------------------------------------------------------------------
(* POST /api/updates/rollout: create_rollout commits the rollout and its   *)
(* assignments in one transaction, then the handler dispatches, in the     *)
(* request itself.                                                         *)

CreateRollout(r) ==
  /\ rollout[r] = "none"
  /\ \E S \in SUBSET Agents \ {{}} :
       assign' = [assign EXCEPT ![r] = [a \in Agents |-> IF a \in S THEN "pending"
                                                         ELSE "none"]]
  /\ rollout' = [rollout EXCEPT ![r] = "active"]
  /\ rollTask' = [rollTask EXCEPT ![r].pc = "select"]
  /\ UNCHANGED <<admin, agentTask, history, session, wires, loop, agents>>

RollSelect(r) ==
  /\ rollTask[r].pc = "select"
  /\ rollTask' = [rollTask EXCEPT ![r] =
       [pc |-> "loop", sent |-> {},
        rows |-> {a \in Agents : assign[r][a] = "pending" /\ rollout[r] \in Open}]]
  /\ UNCHANGED <<tables, admin, agentTask, history, session, wires, loop, agents>>

RollSkip(r, a) ==
  /\ rollTask[r].sent = {} /\ a \in rollTask[r].rows
  /\ hub[a] = 0
  /\ rollTask' = [rollTask EXCEPT ![r].rows = @ \ {a}]
  /\ UNCHANGED <<tables, admin, agentTask, history, session, wires, loop, agents>>

RollSend(r, a) ==
  /\ rollTask[r].sent = {} /\ a \in rollTask[r].rows
  /\ hub[a] # 0
  /\ \E ok \in BOOLEAN :
       /\ TrySend(a, hub[a], [kind |-> "update", r |-> r], ok)
       /\ rollTask' = IF ok THEN [rollTask EXCEPT ![r].sent = {a}]
                      ELSE [rollTask EXCEPT ![r].rows = @ \ {a}]
       /\ skipped' = IF ~ok /\ Live(a, hub[a]) THEN skipped \cup {<<r, a>>} ELSE skipped
  /\ UNCHANGED <<tables, admin, agentTask, cut, unmarked, failures, session, up, loop,
                 agents>>

RollMark(r, a) ==
  /\ a \in rollTask[r].sent
  /\ assign' = MarkedSent(r, a)
  /\ rollTask' = [rollTask EXCEPT ![r].sent = {}, ![r].rows = @ \ {a}]
  /\ UNCHANGED <<rollout, admin, agentTask, history, session, wires, loop, agents>>

\* Of the rows a dispatcher leaves, those of connected agents.
Missed(R, A) == {<<r, a>> : r \in R, a \in {b \in A : link[b] = "up"}}

\* The rows a dispatcher of rollout r has not come to: before its SELECT every
\* pending row.
Ahead(r) ==
  IF rollTask[r].pc = "select" THEN {a \in Agents : assign[r][a] = "pending"}
  ELSE rollTask[r].rows

\* The request is dropped at an await, or a statement fails and the handler
\* logs "assignments stay pending".
RollCut(r) ==
  /\ Fails
  /\ rollTask[r].pc = "select" \/ rollTask[r].rows # {}
  /\ rollTask' = [rollTask EXCEPT ![r] = [pc |-> "idle", rows |-> {}, sent |-> {}]]
  /\ cut' = cut \cup Missed({r}, Ahead(r))
  /\ unmarked' = unmarked \cup Missed({r}, rollTask[r].sent)
  /\ UNCHANGED <<tables, admin, agentTask, skipped, session, wires, loop, agents>>

----------------------------------------------------------------------------
(* Admin transitions: SELECT and check, then an UPDATE by id alone.        *)

BeginRequest(q, r) ==
  /\ <<q, r>> \notin requests
  /\ Cardinality(requests) < MaxRequests
  /\ rollout[r] \in AllowedFrom[q]
  /\ requests' = requests \cup {<<q, r>>}
  /\ UNCHANGED <<tables, abortTask, everPaused, tasks, session, wires, loop, agents>>

FinishRequest(q, r) ==
  /\ <<q, r>> \in requests
  /\ q = "abort" => abortTask[r].pc = "idle"
  /\ requests' = requests \ {<<q, r>>}
  /\ rollout' = [rollout EXCEPT ![r] = Written[q]]
  /\ abortTask' = IF q = "abort" THEN [abortTask EXCEPT ![r].pc = "select"] ELSE abortTask
  /\ everPaused' = IF q = "pause" THEN everPaused \cup {r} ELSE everPaused
  /\ UNCHANGED <<assign, tasks, session, wires, loop, agents>>

\* The request is dropped before its UPDATE, or the UPDATE fails.
DropRequest(q, r) ==
  /\ Fails
  /\ <<q, r>> \in requests
  /\ requests' = requests \ {<<q, r>>}
  /\ UNCHANGED <<tables, abortTask, everPaused, rollTask, agentTask, missed, session, wires,
                 loop, agents>>

AbortSelect(r) ==
  /\ abortTask[r].pc = "select"
  /\ abortTask' = [abortTask EXCEPT ![r] =
       [pc |-> "send", rows |-> {a \in Agents : assign[r][a] \in InFlight}]]
  /\ UNCHANGED <<tables, requests, everPaused, tasks, session, wires, loop, agents>>

\* No await inside the loop: every frame is tried in one step.
AbortSend(r) ==
  /\ abortTask[r].pc = "send"
  /\ abortTask' = [abortTask EXCEPT ![r] = [pc |-> "mark", rows |-> {}]]
  /\ down' = [a \in Agents |->
       IF /\ a \in abortTask[r].rows
          /\ hub[a] # 0 /\ Live(a, hub[a])
          /\ Len(down[a]) < QueueCap
       THEN Append(down[a], [kind |-> "abort", r |-> r])
       ELSE down[a]]
  /\ UNCHANGED <<tables, requests, everPaused, tasks, session, up, loop, agents>>

AbortMark(r) ==
  /\ abortTask[r].pc = "mark"
  /\ abortTask' = [abortTask EXCEPT ![r].pc = "idle"]
  /\ assign' = [assign EXCEPT ![r] =
       [a \in Agents |-> IF @[a] \in InFlight THEN "failed" ELSE @[a]]]
  /\ UNCHANGED <<rollout, requests, everPaused, tasks, session, wires, loop, agents>>

\* The fan-out runs in the abort request and ends with it, like a dispatch.
AbortCut(r) ==
  /\ Fails
  /\ abortTask[r].pc # "idle"
  /\ abortTask' = [abortTask EXCEPT ![r] = [pc |-> "idle", rows |-> {}]]
  /\ UNCHANGED <<tables, requests, everPaused, rollTask, agentTask, missed, session, wires,
                 loop, agents>>

----------------------------------------------------------------------------
(* The Stream RPC.                                                         *)

\* A statement of a stream, whose failure is logged and passed over.
Attempt(written) ==
  \/ assign' = written /\ UNCHANGED failures
  \/ Fails /\ UNCHANGED assign

\* stream() authenticates and correlates the metadata version ...
StreamAuth(a) ==
  /\ link[a] = "down" /\ sess[a] < MaxSessions
  /\ link' = [link EXCEPT ![a] = "auth"]
  /\ Attempt(Correlated(a, running[a]))
  /\ UNCHANGED <<rollout, admin, rollTask, agentTask, missed, sess, hub, wires, loop, agents>>

\* Mutant: a reconnecting agent gets no catch-up dispatch.
WithCatchup_None(a, s) == agentTask

\* The spawn of dispatch_pending_for_agent.
WithCatchup(a, s) == [agentTask EXCEPT ![a][s].pc = "select"]

\* ... then registers the session and spawns dispatch_pending_for_agent.  The
\* agent's first frame on a stream is its Hello.
StreamRegister(a) ==
  /\ link[a] = "auth"
  /\ LET s == sess[a] + 1 IN
       /\ link' = [link EXCEPT ![a] = "up"]
       /\ sess' = [sess EXCEPT ![a] = s]
       /\ hub' = [hub EXCEPT ![a] = s]
       /\ down' = [down EXCEPT ![a] = <<>>]
       /\ up' = [up EXCEPT ![a][s] = <<[kind |-> "Hello", v |-> running[a]]>>]
       /\ agentTask' = WithCatchup(a, s)
  /\ UNCHANGED <<tables, admin, rollTask, history, loop, agents>>

AgentSelect(a, s) ==
  /\ agentTask[a][s].pc = "select"
  /\ agentTask' = [agentTask EXCEPT ![a][s] =
       [pc |-> "get", sent |-> {}, to |-> 0,
        rows |-> {r \in Rollouts : assign[r][a] = "pending" /\ rollout[r] \in Open}]]
  /\ UNCHANGED <<tables, admin, rollTask, history, session, wires, loop, agents>>

\* hub.get after the SELECT; with no session the task returns.
AgentGet(a, s) ==
  /\ agentTask[a][s].pc = "get"
  /\ agentTask' = [agentTask EXCEPT ![a][s] =
       [pc |-> "loop", sent |-> {}, to |-> hub[a],
        rows |-> IF hub[a] = 0 THEN {} ELSE @.rows]]
  /\ UNCHANGED <<tables, admin, rollTask, history, session, wires, loop, agents>>

AgentSend(a, s, r) ==
  /\ agentTask[a][s].pc = "loop"
  /\ agentTask[a][s].sent = {} /\ r \in agentTask[a][s].rows
  /\ \E ok \in BOOLEAN :
       /\ TrySend(a, agentTask[a][s].to, [kind |-> "update", r |-> r], ok)
       /\ agentTask' = IF ok THEN [agentTask EXCEPT ![a][s].sent = {r}]
                       ELSE [agentTask EXCEPT ![a][s].rows = @ \ {r}]
       /\ skipped' = IF ~ok /\ Live(a, agentTask[a][s].to)
                     THEN skipped \cup {<<r, a>>} ELSE skipped
  /\ UNCHANGED <<tables, admin, rollTask, cut, unmarked, failures, session, up, loop,
                 agents>>

AgentMark(a, s, r) ==
  /\ r \in agentTask[a][s].sent
  /\ assign' = MarkedSent(r, a)
  /\ agentTask' = [agentTask EXCEPT ![a][s].sent = {}, ![a][s].rows = @ \ {r}]
  /\ UNCHANGED <<rollout, admin, rollTask, history, session, wires, loop, agents>>

\* A statement of the spawned task fails; what it leaves is counted when it
\* was working for the agent's current connection.
CatchupFails(a, s) ==
  /\ Fails
  /\ agentTask[a][s].pc = "select" \/ agentTask[a][s].sent # {}
  /\ agentTask' = [agentTask EXCEPT ![a][s] =
       [pc |-> "loop", rows |-> {}, sent |-> {}, to |-> 0]]
  /\ LET left == IF agentTask[a][s].pc = "select"
                 THEN {r \in Rollouts : assign[r][a] = "pending"}
                 ELSE agentTask[a][s].rows
     IN cut' = cut \cup Missed(left, {a})
  /\ unmarked' = unmarked \cup Missed(agentTask[a][s].sent, {a})
  /\ UNCHANGED <<tables, admin, rollTask, skipped, session, wires, loop, agents>>

----------------------------------------------------------------------------
(* The inbound loop of session s: one frame at a time, to the end.         *)

IngestHello(a, s) ==
  /\ loop[a][s] = Idle /\ up[a][s] # <<>> /\ Head(up[a][s]).kind = "Hello"
  /\ Attempt(Correlated(a, Head(up[a][s]).v))
  /\ up' = [up EXCEPT ![a][s] = Tail(@)]
  /\ UNCHANGED <<rollout, admin, rollTask, agentTask, missed, session, down, loop, agents>>

IngestStatus(a, s) ==
  /\ loop[a][s] = Idle /\ up[a][s] # <<>> /\ Head(up[a][s]).kind # "Hello"
  /\ LET m == Head(up[a][s]) IN
       /\ Attempt(Ingested(m.r, a, m.kind))
       /\ loop' = [loop EXCEPT ![a][s] = [pc |-> "count", of |-> {m.r}]]
  /\ up' = [up EXCEPT ![a][s] = Tail(@)]
  /\ UNCHANGED <<rollout, admin, rollTask, agentTask, missed, session, down, agents>>

\* Mutant: the COUNT looks at sent rows only.
NoneInFlight_Sent(r) == \A a \in Agents : assign[r][a] # "sent"

\* maybe_mark_completed: the COUNT, and, when it is zero, the guarded UPDATE.
NoneInFlight(r) == \A a \in Agents : assign[r][a] \notin InFlight

CountInFlight(a, s) ==
  /\ loop[a][s].pc = "count"
  /\ loop' = [loop EXCEPT ![a][s] =
       IF \A r \in @.of : NoneInFlight(r) THEN [@ EXCEPT !.pc = "complete"] ELSE Idle]
  /\ UNCHANGED <<tables, admin, tasks, session, wires, agents>>

\* Mutant: the completing UPDATE has no guard on the state.
Completed_Always(r) == [rollout EXCEPT ![r] = "completed"]

Completed(r) ==
  IF rollout[r] \in Open THEN [rollout EXCEPT ![r] = "completed"] ELSE rollout

MarkCompleted(a, s) ==
  /\ loop[a][s].pc = "complete"
  /\ \E r \in loop[a][s].of : rollout' = Completed(r)
  /\ loop' = [loop EXCEPT ![a][s] = Idle]
  /\ UNCHANGED <<assign, admin, tasks, session, wires, agents>>

\* The COUNT or the UPDATE of maybe_mark_completed fails.
CompletionFails(a, s) ==
  /\ Fails
  /\ loop[a][s].pc \in {"count", "complete"}
  /\ loop' = [loop EXCEPT ![a][s] = Idle]
  /\ UNCHANGED <<tables, admin, rollTask, agentTask, missed, session, wires, agents>>

\* Mutant: the ending stream removes whatever session is registered.
HubAfterEnd_Always(a, s) == [hub EXCEPT ![a] = 0]

\* remove_if_matches, after the last frame of a dead connection.
HubAfterEnd(a, s) == IF hub[a] = s THEN [hub EXCEPT ![a] = 0] ELSE hub

InboundEnd(a, s) ==
  /\ s <= sess[a] /\ ~Live(a, s)
  /\ up[a][s] = <<>> /\ loop[a][s] = Idle
  /\ hub' = HubAfterEnd(a, s)
  /\ hub' # hub
  /\ UNCHANGED <<tables, admin, tasks, link, sess, wires, loop, agents>>

----------------------------------------------------------------------------
(* The agents.                                                             *)

\* handle_panel_msg spawns a task per frame.
Receive(a) ==
  /\ link[a] = "up" /\ down[a] # <<>>
  /\ LET f == Head(down[a]) IN
       work' = [work EXCEPT ![a] = @ \cup
         {[r |-> f.r, stage |-> IF f.kind = "update" THEN "start" ELSE "abort"]}]
  /\ down' = [down EXCEPT ![a] = Tail(@)]
  /\ UNCHANGED <<tables, admin, tasks, session, up, loop, running>>

Say(a, r, k) ==
  /\ Len(up[a][sess[a]]) < UpCap
  /\ up' = [up EXCEPT ![a][sess[a]] = Append(@, [kind |-> k, r |-> r])]

\* handle_update: Downloading first, then what the supervisor answered.
ReportStart(a, w) ==
  /\ link[a] = "up" /\ w \in work[a] /\ w.stage = "start"
  /\ Say(a, w.r, "Downloading")
  /\ work' = [work EXCEPT ![a] = (@ \ {w}) \cup {[w EXCEPT !.stage = "result"]}]
  /\ UNCHANGED <<tables, admin, tasks, session, down, loop, running>>

ReportResult(a, w) ==
  /\ link[a] = "up" /\ w \in work[a] /\ w.stage = "result"
  /\ \E k \in {"Staged", "Failed"} : Say(a, w.r, k)
  /\ work' = [work EXCEPT ![a] = @ \ {w}]
  /\ UNCHANGED <<tables, admin, tasks, session, down, loop, running>>

\* handle_abort ends in Failed whatever the supervisor answered.
ReportAbort(a, w) ==
  /\ link[a] = "up" /\ w \in work[a] /\ w.stage = "abort"
  /\ Say(a, w.r, "Failed")
  /\ work' = [work EXCEPT ![a] = @ \ {w}]
  /\ UNCHANGED <<tables, admin, tasks, session, down, loop, running>>

\* What a dispatcher left is no matter of the next connection, whose own comes.
Forgotten(rows, a) == {p \in rows : p[2] # a}

\* A connection dies: queued frames are lost, of those on their way up the
\* panel gets a prefix, and what the agent's tasks report later goes nowhere.
Lost(a) ==
  /\ link' = [link EXCEPT ![a] = "down"]
  /\ down' = [down EXCEPT ![a] = <<>>]
  /\ work' = [work EXCEPT ![a] = {}]
  /\ skipped' = Forgotten(skipped, a)
  /\ cut' = Forgotten(cut, a) /\ unmarked' = Forgotten(unmarked, a)
  /\ IF link[a] = "up"
     THEN \E n \in 0 .. Len(up[a][sess[a]]) :
            up' = [up EXCEPT ![a][sess[a]] = SubSeq(@, 1, n)]
     ELSE up' = up

Disconnect(a) ==
  /\ link[a] # "down"
  /\ Lost(a)
  /\ UNCHANGED <<tables, admin, rollTask, agentTask, failures, sess, hub, loop, running>>

\* The supervisor replaces the process: a swap, a rollback or a crash, so the
\* agent may come back on another release.
Restart(a) ==
  /\ link[a] # "down"
  /\ Lost(a)
  /\ \E v \in Releases : running' = [running EXCEPT ![a] = v]
  /\ UNCHANGED <<tables, admin, rollTask, agentTask, failures, sess, hub, loop>>

\* The panel's process ends and starts again: the tables survive, the hub and
\* every task and connection do not.
PanelRestart ==
  /\ requests' = {}
  /\ abortTask' = [r \in Rollouts |-> [pc |-> "idle", rows |-> {}]]
  /\ rollTask' = [r \in Rollouts |-> [pc |-> "idle", rows |-> {}, sent |-> {}]]
  /\ agentTask' = [a \in Agents |-> [s \in Sessions |->
                     [pc |-> "idle", rows |-> {}, sent |-> {}, to |-> 0]]]
  /\ link' = [a \in Agents |-> "down"]
  /\ hub' = [a \in Agents |-> 0]
  /\ down' = [a \in Agents |-> <<>>]
  /\ up' = [a \in Agents |-> [s \in Sessions |-> <<>>]]
  /\ loop' = [a \in Agents |-> [s \in Sessions |-> Idle]]
  /\ work' = [a \in Agents |-> {}]
  /\ skipped' = {} /\ cut' = {} /\ unmarked' = {}
  /\ UNCHANGED <<tables, sess, running, failures, everPaused>>

----------------------------------------------------------------------------
Dispatch(r) ==
  \/ RollSelect(r)
  \/ \E a \in Agents : RollSkip(r, a) \/ RollSend(r, a) \/ RollMark(r, a)
  \/ RollCut(r)

Catchup(a, s) ==
  \/ AgentSelect(a, s) \/ AgentGet(a, s)
  \/ \E r \in Rollouts : AgentSend(a, s, r) \/ AgentMark(a, s, r)
  \/ CatchupFails(a, s)

Abort(r) == AbortSelect(r) \/ AbortSend(r) \/ AbortMark(r) \/ AbortCut(r)

Inbound(a, s) ==
  \/ IngestHello(a, s) \/ IngestStatus(a, s)
  \/ CountInFlight(a, s) \/ MarkCompleted(a, s) \/ CompletionFails(a, s)
  \/ InboundEnd(a, s)

Panel ==
  \/ \E r \in Rollouts : CreateRollout(r) \/ Dispatch(r) \/ Abort(r)
  \/ \E q \in Requests, r \in Rollouts :
       BeginRequest(q, r) \/ FinishRequest(q, r) \/ DropRequest(q, r)
  \/ \E a \in Agents : StreamRegister(a)
  \/ \E a \in Agents, s \in Sessions : Catchup(a, s) \/ Inbound(a, s)

Environment ==
  \/ PanelRestart
  \/ \E a \in Agents : StreamAuth(a) \/ Receive(a) \/ Disconnect(a) \/ Restart(a)
  \/ \E a \in Agents : \E w \in work[a] :
       ReportStart(a, w) \/ ReportResult(a, w) \/ ReportAbort(a, w)

Next == Panel \/ Environment

Spec == Init /\ [][Next]_vars

\* The panel's tasks are scheduled by tokio: a task or a request that can take
\* its next statement eventually does, or ends.  Nothing obliges an admin or an
\* agent.
PanelFairness ==
  /\ \A r \in Rollouts : WF_vars(Dispatch(r)) /\ WF_vars(Abort(r))
  /\ \A q \in Requests, r \in Rollouts : WF_vars(FinishRequest(q, r) \/ DropRequest(q, r))
  /\ \A a \in Agents : WF_vars(StreamRegister(a)) /\ WF_vars(Receive(a))
  /\ \A a \in Agents, s \in Sessions : WF_vars(Catchup(a, s)) /\ WF_vars(Inbound(a, s))

FairSpec == Spec /\ PanelFairness

----------------------------------------------------------------------------
(* Properties.                                                             *)

TablesOK ==
  /\ rollout \in [Rollouts -> RolloutStates]
  /\ assign \in [Rollouts -> [Agents -> AssignStates]]

AdminOK ==
  /\ requests \subseteq Requests \X Rollouts
  /\ abortTask \in [Rollouts -> AbortTasks]
  /\ everPaused \subseteq Rollouts

TasksOK ==
  /\ rollTask \in [Rollouts -> RollTasks]
  /\ agentTask \in [Agents -> [Sessions -> AgentTasks]]

HistoryOK ==
  /\ skipped \subseteq Rollouts \X Agents
  /\ cut \subseteq Rollouts \X Agents /\ unmarked \subseteq Rollouts \X Agents
  /\ failures \in 0 .. MaxFailures

SessionOK ==
  /\ link \in [Agents -> {"down", "auth", "up"}]
  /\ sess \in [Agents -> 0 .. MaxSessions]
  /\ hub \in [Agents -> 0 .. MaxSessions]
  /\ \A a \in Agents : link[a] = "auth" => sess[a] < MaxSessions
  /\ \A a \in Agents : link[a] = "up" => sess[a] # 0

DownOK ==
  /\ down \in [Agents -> Seq(Frame)]
  /\ \A a \in Agents : Len(down[a]) <= QueueCap

UpOK == up \in [Agents -> [Sessions -> Seq(Hello \cup Status)]]

LoopOK == loop \in [Agents -> [Sessions -> Loops]]

AgentsOK ==
  /\ running \in [Agents -> Releases]
  /\ work \in [Agents -> SUBSET Work]

\* Every variable keeps its type.  In particular a downstream queue never
\* outgrows the channel AgentSession::try_send writes to, and a connection
\* that is up has a session number.
TypeOK ==
  /\ TablesOK /\ AdminOK /\ TasksOK /\ HistoryOK /\ SessionOK
  /\ DownOK /\ UpOK /\ LoopOK /\ AgentsOK

\* A connection that is up is the one the hub hands out: the late end of an
\* older stream's inbound loop must not evict the session that replaced it
\* (remove_if_matches).
LiveIsRegistered == \A a \in Agents : link[a] = "up" => hub[a] = sess[a]

\* A rollout is never marked completed over a row that was never shipped: the
\* dispatchers skip completed rollouts, so such a row would stay pending for
\* ever.  (The COUNT and the UPDATE of maybe_mark_completed are two steps.)
NoPendingWhenCompleted ==
  \A r \in Rollouts : rollout[r] = "completed" =>
    \A a \in Agents : assign[r][a] # "pending"

\* Some dispatcher still has the row <<r, a>> ahead of it.
Covered(r, a) ==
  \/ rollTask[r].pc = "select"
  \/ a \in rollTask[r].rows
  \/ agentTask[a][sess[a]].pc = "select"
  \/ r \in agentTask[a][sess[a]].rows

\* No missed wake-up between creating a rollout, an agent connecting and a
\* dispatcher that ends early: while the row of a connected agent is pending, the
\* dispatcher of the create request or the one its stream spawned will still come
\* to it, unless on this connection the agent's queue was full or its dispatcher
\* was cut off, or the rollout was paused.  So what a dropped create request or a
\* failed statement left pending is the next connection's to ship.
DispatchCovers ==
  \A r \in Rollouts, a \in Agents :
    /\ rollout[r] = "active" /\ r \notin everPaused
    /\ assign[r][a] = "pending"
    /\ link[a] = "up" /\ <<r, a>> \notin skipped \cup cut
    => Covered(r, a)

\* Once an UpdateAgent frame is queued its row stops being pending as soon as
\* the dispatcher that queued it takes its next step, whatever an admin does
\* to the rollout meanwhile, unless that step is its end: then the row stays
\* pending with its frame in the queue, and the next connection ships it again.
QueuedIsRecorded ==
  \A a \in Agents : \A i \in 1 .. Len(down[a]) :
    LET f == down[a][i] IN
      (f.kind = "update" /\ assign[f.r][a] = "pending") =>
        \/ a \in rollTask[f.r].sent
        \/ \E s \in Sessions : f.r \in agentTask[a][s].sent
        \/ <<f.r, a>> \in unmarked

\* "Aborts are terminal": nothing takes a rollout out of aborted, neither a late
\* MarkCompleted nor a dispatcher, except an admin request that had passed the
\* SELECT of transition before the abort was written.
AbortedIsFinal ==
  [][\A r \in Rollouts :
       (rollout[r] = "aborted" /\ rollout'[r] # "aborted")
       => \E q \in Requests : <<q, r>> \in requests \ requests']_vars

\* "Aborts are terminal": the same with no request excepted.  The code does not
\* keep it: a transition checks the state it has read and writes by id.
AbortsAreTerminal ==
  [][\A r \in Rollouts : rollout[r] = "aborted" => rollout'[r] = "aborted"]_vars

\* "no further UpdateAgent commands are issued" for an aborted rollout.
NothingShipsAfterAbort ==
  [][\A r \in Rollouts, a \in Agents :
       (rollout[r] = "aborted" /\ Len(down'[a]) > Len(down[a]))
       => down'[a][Len(down'[a])] # [kind |-> "update", r |-> r]]_vars

\* "When every assignment for a rollout is terminal, the rollout itself
\* transitions to completed."
CompletesWhenTerminal ==
  \A r \in Rollouts :
    (rollout[r] = "active" /\ NoneInFlight(r))
    ~> (rollout[r] # "active" \/ ~NoneInFlight(r))
============================================================================
