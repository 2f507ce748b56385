----------------------------- MODULE ProbeSync -----------------------------
(***************************************************************************)
(* Probe assignment: the admin endpoints that write probes and             *)
(* probe_agent_overrides and then wake the panel's scheduler, the scheduler *)
(* that diffs each connected agent's effective set against the one it      *)
(* pushed last, and the agent's own scheduler, which turns the Sync and    *)
(* Delta frames into one task per probe and starts afresh on every stream. *)
(*                                                                         *)
(* A probe's row is its configuration and its two flags; "none" stands for *)
(* no configuration.  Ids are never reused, so a row is "unused" before it *)
(* is created and "gone" after it is deleted.                              *)
(***************************************************************************)
EXTENDS Naturals, Sequences, FiniteSets

CONSTANTS
  Agents,       \* registered agents
  Probes,       \* ids probes may hand out
  Configs,      \* configurations probe_differs tells apart
  MaxSessions,  \* bound: connections of an agent to one process of the panel
  QueueCap,     \* DOWNSTREAM_BUFFER, scaled down
  BusCap,       \* capacity of the assignment bus
  MaxHandlers,  \* bound: admin handlers between two of their statements
  MaxEdits,     \* bound: admin requests
  Faults,       \* what may go wrong: "drop" a request, "fail" a statement
  MaxFaults     \* bound: how often it does

ASSUME ProbeSyncAssumption ==
  /\ {"none", "unused", "gone"} \cap Configs = {}
  /\ MaxSessions \in Nat /\ QueueCap \in Nat /\ BusCap \in Nat \ {0}
  /\ MaxHandlers \in Nat /\ MaxEdits \in Nat
  /\ Faults \subseteq {"drop", "fail"} /\ MaxFaults \in Nat

VARIABLES
  probe,      \* table probes
  override,   \* table probe_agent_overrides: "none" is no row
  overrides,  \* set_override handlers between their SELECTs and their write
  written,    \* handlers that have written and not yet published
  edits,      \* history: admin requests so far
  bus,        \* wake-ups in the scheduler's receiver
  sched,      \* the scheduler's tick
  last,       \* last_pushed
  link,       \* the agent's stream is up
  sess,       \* number of the agent's latest session
  hub,        \* SessionHub: the registered session, 0 for none
  down,       \* frames queued to the latest session
  active,     \* the agent's Scheduler.tasks, of the current connection
  detached,   \* probe loops of earlier connections that still run
  synced,     \* history: a Sync was queued to the latest session
  dropped,    \* history: agents whose last frame this connection's queue refused
  unwoken,    \* history: since the last tick began, a tick failed or a handler
              \* wrote and was dropped before it published
  faults      \* history: requests dropped and statements failed

tables  == <<probe, override>>
admin   == <<overrides, written, edits>>
session == <<link, sess, hub>>
agent   == <<active, detached>>
hist    == <<synced, dropped>>
failing == <<unwoken, faults>>
vars    == <<tables, admin, bus, sched, last, session, down, agent, hist, failing>>

NoProbes == [p \in Probes |-> "none"]
Assigned == [Probes -> Configs \cup {"none"}]
Row(c, on, dflt) == [config |-> c, enabled |-> on, default |-> dflt]
Rows     == [config : Configs \cup {"unused", "gone"}, enabled : BOOLEAN, default : BOOLEAN]
Flags    == {"none", "on", "off"}
Flag(b)  == IF b THEN "on" ELSE "off"
Handler  == [p : Probes, a : Agents, want : Flags, default : BOOLEAN]
Frame    == [kind : {"sync", "delta"}, set : Assigned, removed : SUBSET Probes]
Ticks    == [pc : {"idle", "fetch", "loop", "push"}, todo : SUBSET Agents,
             rows : [Probes -> Rows], a : SUBSET Agents, s : 0 .. MaxSessions,
             over : [Probes -> Flags]]
Resting  == [pc |-> "idle", todo |-> {}, a |-> {}, s |-> 0,
             rows |-> [p \in Probes |-> Row("unused", FALSE, FALSE)],
             over |-> NoProbes]

Exists(p) == probe[p].config \in Configs

\* At startup the scheduler ticks once of its own accord.
Init ==
  /\ probe = [p \in Probes |-> Row("unused", FALSE, FALSE)]
  /\ override = [p \in Probes |-> [a \in Agents |-> "none"]]
  /\ overrides = {} /\ written = 0 /\ edits = 0
  /\ bus = 1 /\ sched = Resting
  /\ last = [a \in Agents |-> NoProbes]
  /\ link = [a \in Agents |-> FALSE]
  /\ sess = [a \in Agents |-> 0] /\ hub = [a \in Agents |-> 0]
  /\ down = [a \in Agents |-> <<>>]
  /\ active = [a \in Agents |-> NoProbes] /\ detached = [a \in Agents |-> {}]
  /\ synced = [a \in Agents |-> FALSE] /\ dropped = {}
  /\ unwoken = FALSE /\ faults = 0

\* A request is dropped, its client gone, or a statement fails.
Fault(kind) == kind \in Faults /\ faults < MaxFaults /\ faults' = faults + 1

----------------------------------------------------------------------------
(* Admin endpoints.  Each writes, awaits the audit record and publishes; a *)
(* handler dropped at that await has written and publishes nothing.         *)

Handlers == Cardinality(overrides) + written

Edit ==
  /\ edits < MaxEdits /\ edits' = edits + 1
  /\ Handlers < MaxHandlers

CreateProbe(p) ==
  /\ probe[p].config = "unused"
  /\ Edit /\ written' = written + 1
  /\ \E c \in Configs, on, dflt \in BOOLEAN : probe' = [probe EXCEPT ![p] = Row(c, on, dflt)]
  /\ UNCHANGED <<override, overrides, bus, sched, last, session, down, agent, hist, failing>>

UpdateProbe(p) ==
  /\ Exists(p)
  /\ Edit /\ written' = written + 1
  /\ \E c \in Configs, on, dflt \in BOOLEAN : probe' = [probe EXCEPT ![p] = Row(c, on, dflt)]
  /\ UNCHANGED <<override, overrides, bus, sched, last, session, down, agent, hist, failing>>

\* The overrides go with the row.
DeleteProbe(p) ==
  /\ Exists(p)
  /\ Edit /\ written' = written + 1
  /\ probe' = [probe EXCEPT ![p] = Row("gone", FALSE, FALSE)]
  /\ override' = [override EXCEPT ![p] = [a \in Agents |-> "none"]]
  /\ UNCHANGED <<overrides, bus, sched, last, session, down, agent, hist, failing>>

\* set_override reads the default ...
BeginOverride(p, a, want) ==
  /\ Exists(p)
  /\ Edit
  /\ overrides' = overrides \cup {[p |-> p, a |-> a, want |-> want,
                                   default |-> probe[p].default]}
  /\ UNCHANGED <<tables, written, bus, sched, last, session, down, agent, hist, failing>>

\* ... and writes: no row when the default is wanted or nothing is.  The INSERT
\* fails when the probe has been deleted meanwhile.
FinishOverride(h) ==
  /\ h \in overrides /\ overrides' = overrides \ {h}
  /\ LET cleared == h.want \in {"none", Flag(h.default)} IN
       IF ~cleared /\ ~Exists(h.p)
       THEN UNCHANGED <<override, written>>
       ELSE /\ override' = [override EXCEPT ![h.p][h.a] = IF cleared THEN "none" ELSE h.want]
            /\ written' = written + 1
  /\ UNCHANGED <<probe, edits, bus, sched, last, session, down, agent, hist, failing>>

\* Mutant: a wake-up that finds the scheduler at work is not queued.
Published_IfIdle == IF sched.pc = "idle" THEN 1 ELSE bus

\* Mutant: the bus keeps every wake-up.
Published_Unbounded == bus + 1

\* AssignmentBus::publish; a lagged receiver still gets one wake-up.
Published == IF bus < BusCap THEN bus + 1 ELSE bus

Publish ==
  /\ written > 0 /\ written' = written - 1
  /\ bus' = Published
  /\ UNCHANGED <<tables, overrides, edits, sched, last, session, down, agent, hist, failing>>

HandlerDropped ==
  /\ Fault("drop")
  /\ written > 0 /\ written' = written - 1
  /\ unwoken' = TRUE
  /\ UNCHANGED <<tables, overrides, edits, bus, sched, last, session, down, agent, hist>>

\* ... or, in set_override, before its write, which may also fail.
OverrideDropped(h) ==
  /\ Fault("drop") \/ Fault("fail")
  /\ h \in overrides /\ overrides' = overrides \ {h}
  /\ UNCHANGED <<tables, written, edits, bus, sched, last, session, down, agent, hist, unwoken>>

----------------------------------------------------------------------------
(* The panel's scheduler: Scheduler::tick, one await at a time.            *)

\* agent_ids, and the end of the tick when nobody is connected.
SchedWake ==
  /\ sched.pc = "idle" /\ bus > 0 /\ bus' = bus - 1
  /\ LET ids == {a \in Agents : hub[a] # 0} IN
       sched' = IF ids = {} THEN Resting ELSE [Resting EXCEPT !.pc = "fetch", !.todo = ids]
  /\ unwoken' = FALSE
  /\ UNCHANGED <<tables, admin, last, session, down, agent, hist, faults>>

\* fetch_enabled_probes.
SchedFetch ==
  /\ sched.pc = "fetch"
  /\ sched' = [sched EXCEPT !.pc = "loop",
       !.rows = [p \in Probes |-> IF Exists(p) /\ probe[p].enabled THEN probe[p]
                                  ELSE Row("unused", FALSE, FALSE)]]
  /\ UNCHANGED <<tables, admin, bus, last, session, down, agent, hist, failing>>

\* The tick with agent a done.
Without(a) == IF sched.todo = {a} THEN Resting
              ELSE [sched EXCEPT !.pc = "loop", !.todo = @ \ {a}, !.a = {}, !.s = 0,
                                 !.over = NoProbes]

\* reconcile: hub.get, then the SELECT of the agent's overrides.
SchedRead(a) ==
  /\ sched.pc = "loop" /\ a \in sched.todo
  /\ sched' = IF hub[a] = 0 THEN Without(a)
              ELSE [sched EXCEPT !.pc = "push", !.a = {a}, !.s = hub[a],
                                 !.over = [p \in Probes |-> override[p][a]]]
  /\ UNCHANGED <<tables, admin, bus, last, session, down, agent, hist, failing>>

\* The override wins over the default.
On(p, dflt, over) == IF over[p] = "none" THEN dflt ELSE over[p] = "on"

Effective ==
  [p \in Probes |-> IF sched.rows[p].enabled /\ On(p, sched.rows[p].default, sched.over)
                    THEN sched.rows[p].config ELSE "none"]

\* A Sync when nothing was pushed before, else the difference.
FrameFor(prev, curr) ==
  IF prev = NoProbes THEN [kind |-> "sync", set |-> curr, removed |-> {}]
  ELSE [kind |-> "delta",
        set |-> [p \in Probes |-> IF curr[p] # prev[p] THEN curr[p] ELSE "none"],
        removed |-> {p \in Probes : prev[p] # "none" /\ curr[p] = "none"}]

\* Mutant: last_pushed is written whether or not the frame was queued.
Recorded_Always(a, ok) == [last EXCEPT ![a] = Effective]

Recorded(a, ok) == IF ok THEN [last EXCEPT ![a] = Effective] ELSE last

\* try_send to the session found before the SELECT: a session whose connection
\* is gone may still take the frame into a buffer nobody reads.
SchedPush(a) ==
  /\ sched.pc = "push" /\ sched.a = {a}
  /\ sched' = Without(a)
  /\ LET f == FrameFor(last[a], Effective)
         current == sched.s = sess[a] /\ link[a]
     IN IF last[a] # NoProbes /\ Effective = last[a]
        THEN UNCHANGED <<last, down, hist>>
        ELSE \E ok \in BOOLEAN :
               /\ current => ok = (Len(down[a]) < QueueCap)
               /\ last' = Recorded(a, ok)
               /\ down' = IF current /\ ok THEN [down EXCEPT ![a] = Append(@, f)] ELSE down
               /\ synced' = [synced EXCEPT ![a] = @ \/ (current /\ ok /\ f.kind = "sync")]
               /\ dropped' = IF ~current THEN dropped
                             ELSE IF ok THEN dropped \ {a} ELSE dropped \cup {a}
  /\ UNCHANGED <<tables, admin, bus, session, agent, failing>>

\* A SELECT of the tick fails: the error is logged, and what is left of the tick
\* waits for the next wake-up.
TickFails ==
  /\ Fault("fail")
  /\ sched.pc \in {"fetch", "loop"} /\ sched' = Resting
  /\ unwoken' = TRUE
  /\ UNCHANGED <<tables, admin, bus, last, session, down, agent, hist>>

----------------------------------------------------------------------------
(* Streams.                                                                *)

\* hub.register and the wake-up of the scheduler, with no await between.
Connect(a) ==
  /\ ~link[a] /\ sess[a] < MaxSessions
  /\ link' = [link EXCEPT ![a] = TRUE]
  /\ sess' = [sess EXCEPT ![a] = @ + 1]
  /\ hub' = [hub EXCEPT ![a] = sess[a] + 1]
  /\ down' = [down EXCEPT ![a] = <<>>]
  /\ synced' = [synced EXCEPT ![a] = FALSE] /\ dropped' = dropped \ {a}
  /\ bus' = Published
  /\ UNCHANGED <<tables, admin, sched, last, agent, failing>>

\* run_once returns: the Scheduler is dropped, its loops are not aborted.
Detached(a) ==
  detached[a] \cup {<<p, active[a][p]>> : p \in {q \in Probes : active[a][q] # "none"}}

Disconnect(a) ==
  /\ link[a]
  /\ link' = [link EXCEPT ![a] = FALSE]
  /\ down' = [down EXCEPT ![a] = <<>>]
  /\ active' = [active EXCEPT ![a] = NoProbes]
  /\ detached' = [detached EXCEPT ![a] = Detached(a)]
  /\ UNCHANGED <<tables, admin, bus, sched, last, sess, hub, hist, failing>>

\* remove_if_matches, at the end of the dead stream's inbound loop.
HubEnd(a) ==
  /\ ~link[a] /\ hub[a] # 0
  /\ hub' = [hub EXCEPT ![a] = 0]
  /\ UNCHANGED <<tables, admin, bus, sched, last, link, sess, down, agent, hist, failing>>

\* The agent's process ends, and every loop with it.
AgentRestart(a) ==
  /\ link' = [link EXCEPT ![a] = FALSE]
  /\ down' = [down EXCEPT ![a] = <<>>]
  /\ active' = [active EXCEPT ![a] = NoProbes]
  /\ detached' = [detached EXCEPT ![a] = {}]
  /\ UNCHANGED <<tables, admin, bus, sched, last, sess, hub, hist, failing>>

\* The panel's process ends and starts again: only the tables survive.
PanelRestart ==
  /\ overrides' = {} /\ written' = 0
  /\ bus' = 1 /\ sched' = Resting
  /\ last' = [a \in Agents |-> NoProbes]
  /\ link' = [a \in Agents |-> FALSE]
  /\ sess' = [a \in Agents |-> 0] /\ hub' = [a \in Agents |-> 0]
  /\ down' = [a \in Agents |-> <<>>]
  /\ active' = [a \in Agents |-> NoProbes]
  /\ detached' = [a \in Agents |-> Detached(a)]
  /\ synced' = [a \in Agents |-> FALSE] /\ dropped' = {} /\ unwoken' = FALSE
  /\ UNCHANGED <<tables, edits, faults>>

----------------------------------------------------------------------------
(* The agent's scheduler.                                                  *)

\* apply_delta: cancel the removed, upsert the added and the updated.
ApplyDelta(act, f) ==
  [p \in Probes |-> IF f.set[p] # "none" THEN f.set[p]
                    ELSE IF p \in f.removed THEN "none" ELSE act[p]]

\* replace_all cancels what is not in the set and upserts what is.
Apply(act, f) == IF f.kind = "sync" THEN f.set ELSE ApplyDelta(act, f)

Deliver(a) ==
  /\ link[a] /\ down[a] # <<>>
  /\ active' = [active EXCEPT ![a] = Apply(@, Head(down[a]))]
  /\ down' = [down EXCEPT ![a] = Tail(@)]
  /\ UNCHANGED <<tables, admin, bus, sched, last, session, detached, hist, failing>>

----------------------------------------------------------------------------
Tick == SchedWake \/ SchedFetch \/ TickFails \/ \E a \in Agents : SchedRead(a) \/ SchedPush(a)

Finishing ==
  \/ Publish \/ HandlerDropped
  \/ \E h \in overrides : FinishOverride(h) \/ OverrideDropped(h)

Next ==
  \/ \E p \in Probes : CreateProbe(p) \/ UpdateProbe(p) \/ DeleteProbe(p)
  \/ \E p \in Probes, a \in Agents, want \in Flags : BeginOverride(p, a, want)
  \/ Finishing \/ Tick
  \/ \E a \in Agents :
       Connect(a) \/ Disconnect(a) \/ HubEnd(a) \/ AgentRestart(a) \/ Deliver(a)
  \/ PanelRestart

Spec == Init /\ [][Next]_vars

\* The scheduler's task and a live stream go on; a handler that has begun comes
\* to an end, its own or the one a client that leaves gives it.
FairSpec ==
  /\ Spec
  /\ WF_vars(Tick) /\ WF_vars(Finishing)
  /\ \A a \in Agents : WF_vars(Deliver(a))

----------------------------------------------------------------------------
(* Properties.                                                             *)

\* Every variable keeps its type.
TypeOK ==
  /\ probe \in [Probes -> Rows]
  /\ override \in [Probes -> [Agents -> Flags]]
  /\ overrides \subseteq Handler
  /\ written \in Nat /\ edits \in 0 .. MaxEdits /\ bus \in 0 .. BusCap
  /\ sched \in Ticks
  /\ last \in [Agents -> Assigned]
  /\ link \in [Agents -> BOOLEAN]
  /\ sess \in [Agents -> 0 .. MaxSessions] /\ hub \in [Agents -> 0 .. MaxSessions]
  /\ down \in [Agents -> Seq(Frame)]
  /\ \A a \in Agents : Len(down[a]) <= QueueCap
  /\ active \in [Agents -> Assigned]
  /\ detached \in [Agents -> SUBSET (Probes \X Configs)]
  /\ synced \in [Agents -> BOOLEAN] /\ dropped \subseteq Agents
  /\ unwoken \in BOOLEAN /\ faults \in 0 .. MaxFaults

\* What agent a runs, one entry per frame it takes of those queued to it.
Course(a, run) ==
  /\ run[0] = active[a]
  /\ \A n \in DOMAIN down[a] : run[n] = Apply(run[n - 1], down[a][n])

\* On its first connection to a process of the panel, and on any other that has
\* been sent a Sync, an agent ends up with what last_pushed says it has: no frame
\* the queue refused is counted as pushed, no frame to the session before, and the
\* deltas in the queue add up, whatever is edited while a tick is under way.
LastPushedIsTold ==
  \A a \in Agents : link[a] /\ (sess[a] = 1 \/ synced[a]) =>
    \E run \in [0 .. Len(down[a]) -> Assigned] : Course(a, run) /\ run[Len(down[a])] = last[a]

\* What the tables assign to agent a.
Wanted(a) ==
  [p \in Probes |->
    IF /\ Exists(p) /\ probe[p].enabled
       /\ On(p, probe[p].default, [q \in Probes |-> override[q][a]])
    THEN probe[p].config ELSE "none"]

\* No lost wake-up but those of a handler dropped before it published and of a
\* tick that failed, and of those the next wake-up makes good: an agent that stays
\* connected and was sent a Sync on this connection, its second or its first,
\* comes to run exactly what the tables assign to it, unless its queue refused the
\* last frame.  (A connection that is sent none is SyncAfterReconnect's.)
Converges ==
  \A a \in Agents :
    <>[](link[a] /\ synced[a]) => <>[](active[a] = Wanted(a) \/ a \in dropped \/ unwoken)

\* "Anyone who mutates probe state .. calls bus.publish()", so that every agent is
\* told "which probes they should be running, *right now*": the same with no
\* wake-up excepted.
EditsArrive ==
  \A a \in Agents :
    <>[](link[a] /\ synced[a]) => <>[](active[a] = Wanted(a) \/ a \in dropped)

\* "the panel always re-sends a Sync after we reconnect": a connected agent that
\* some probe is assigned to is sent one.
SyncAfterReconnect ==
  \A a \in Agents :
    (link[a] /\ Wanted(a) # NoProbes)
      ~> (~link[a] \/ Wanted(a) = NoProbes \/ synced[a] \/ a \in dropped)
============================================================================
