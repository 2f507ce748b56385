----------------------------- MODULE Supervisor -----------------------------
(***************************************************************************)
(* monitor-agent-supervisor: the run loop that launches the agent, takes   *)
(* Update and Abort requests over IPC, stages a release in a background    *)
(* task, swaps to it when the agent is next started and resolves the grace *)
(* window when that agent exits.  state.json (current, last_known_good,    *)
(* staging, failed_versions) and versions/ survive a restart of the        *)
(* supervisor; everything else is memory.                                  *)
(*                                                                         *)
(* A version is a number, in the order of the directory names, and 0 means *)
(* no version: the supervisor then launches the binary the installer left. *)
(***************************************************************************)
EXTENDS Naturals, Sequences, FiniteSets

CONSTANTS
  Versions,      \* release versions, in the order their names sort
  Rollouts,      \* rollout ids the panel sends
  Ships,         \* Ships[r]: the version rollout r ships
  Unspawnable,   \* versions whose binary cannot be executed
  Tasks,         \* bound: staging tasks at work together
  IpcCap,        \* capacity of the IPC channel
  FailedCap,     \* length of failed_versions
  KeepDirs,      \* directories prune_old_versions leaves
  MaxRestarts    \* bound: restarts of the supervisor

ASSUME SupervisorAssumption ==
  /\ Versions \subseteq Nat \ {0}
  /\ IsFiniteSet(Versions)
  /\ Ships \in [Rollouts -> Versions]
  /\ Unspawnable \subseteq Versions
  /\ 0 \notin Tasks
  /\ IpcCap \in Nat /\ FailedCap \in Nat /\ KeepDirs \in Nat /\ MaxRestarts \in Nat

VARIABLES
  current,   \* state.json: current
  lkg,       \* state.json: last_known_good
  staging,   \* state.json: staging
  failed,    \* state.json: failed_versions
  dirs,      \* versions/<v> present, with a binary
  partial,   \* versions/<v>.partial: "none", "empty" or "archive"
  pc,        \* run loop: "top", "run" (run_child) or "sleep"
  alive,     \* the child started last still runs
  binary,    \* whose binary that child runs, 0 for the installed one
  outlived,  \* that child's uptime has reached the grace period
  window,    \* grace_window: the version on trial, 0 for none
  pending,   \* pending_swap: the version staged for the next launch, 0 for none
  inflight,  \* ctx.inflight: the staging task it belongs to, 0 for none
  task,      \* staging tasks
  results,   \* staging_results channel
  ipc,       \* requests in the IPC channel
  proven,    \* history: versions current while a child outlived the grace
  restarts   \* history: restarts of the supervisor so far

disk  == <<current, lkg, staging, failed>>
files == <<dirs, partial>>
child == <<alive, binary, outlived>>
stage == <<inflight, task, results>>
hist  == <<proven, restarts>>
vars  == <<disk, files, pc, child, window, pending, stage, ipc, hist>>

Version0 == Versions \cup {0}
Requests == [kind : {"update", "abort"}, r : Rollouts]
NoTask   == [pc |-> "free", r |-> {}, cancel |-> FALSE]
TaskStates == [pc : {"free", "spawned", "download", "extract", "staged", "failed"},
               r : SUBSET Rollouts, cancel : BOOLEAN]

\* The rollout and the version of a task that has been started.
RolloutOf(t) == CHOOSE r \in Rollouts : task[t].r = {r}
VersionOf(t) == Ships[RolloutOf(t)]

Init ==
  /\ current = 0 /\ lkg = 0 /\ staging = 0 /\ failed = <<>>
  /\ dirs = {} /\ partial = [v \in Versions |-> "none"]
  /\ pc = "top" /\ alive = FALSE /\ binary = 0 /\ outlived = FALSE
  /\ window = 0 /\ pending = 0 /\ inflight = 0
  /\ task = [t \in Tasks |-> NoTask]
  /\ results = <<>> /\ ipc = <<>>
  /\ proven = {} /\ restarts = 0

----------------------------------------------------------------------------
(* The run loop.                                                           *)

\* apply_swap when a swap is pending, then the launch of the current version's
\* binary, or of the installed one when that binary is not there.
Launch ==
  /\ pc = "top"
  /\ LET v == IF pending = 0 THEN current ELSE pending IN
       /\ current' = v
       /\ lkg' = IF pending = 0 THEN lkg ELSE current
       /\ staging' = IF pending = 0 THEN staging ELSE 0
       /\ window' = IF pending = 0 THEN window ELSE v
       /\ binary' = IF v \in dirs THEN v ELSE 0
  /\ pending' = 0
  /\ alive' = (binary' \notin Unspawnable)
  /\ pc' = IF alive' THEN "run" ELSE "sleep"
  /\ outlived' = FALSE
  /\ UNCHANGED <<failed, files, stage, ipc, hist>>

\* The child dies by itself ...
Exit ==
  /\ alive /\ alive' = FALSE
  /\ UNCHANGED <<disk, files, pc, binary, outlived, window, pending, stage, ipc, hist>>

\* ... or lives for the grace period.
Outlive ==
  /\ alive /\ ~outlived
  /\ outlived' = TRUE
  /\ proven' = proven \cup {current}
  /\ UNCHANGED <<disk, files, pc, alive, binary, window, pending, stage, ipc, restarts>>

\* Mutant: failed_versions grows with every failure.
Failed_Uncapped(v) == Append(failed, v)

\* record_failed.
Failed(v) ==
  LET s == IF \E i \in DOMAIN failed : failed[i] = v THEN failed ELSE Append(failed, v)
  IN IF Len(s) > FailedCap THEN Tail(s) ELSE s

\* The directories under versions/: <<v, 0>> is v, <<v, 1>> is v.partial.
Entries == (dirs \X {0}) \cup ({v \in Versions : partial[v] # "none"} \X {1})
Above(f, e) == f[1] > e[1] \/ (f[1] = e[1] /\ f[2] > e[2])

\* prune_old_versions walks the sorted names from the lowest until KeepDirs are
\* left, and removes those it meets that are not the current version's or the
\* last known good one's.
Pruned(keep) ==
  {e \in Entries : /\ Cardinality({f \in Entries : Above(f, e)}) >= KeepDirs
                   /\ e \notin keep \X {0}}

\* Mutant: the version is confirmed however long it lived.
Survived_Always == TRUE

\* uptime >= grace.
Survived == outlived

Confirm ==
  /\ lkg' = IF current = window THEN window ELSE lkg
  /\ LET gone == Pruned({current, lkg'}) IN
       /\ dirs' = {v \in dirs : <<v, 0>> \notin gone}
       /\ partial' = [v \in Versions |-> IF <<v, 1>> \in gone THEN "none" ELSE partial[v]]
  /\ UNCHANGED <<current, staging, failed>>

Rollback ==
  /\ failed' = Failed(window)
  /\ current' = lkg
  /\ staging' = 0
  /\ UNCHANGED <<lkg, files>>

\* run_child sees the exit; the loop resolves an open grace window.
Resolve ==
  /\ pc = "run" /\ ~alive
  /\ pc' = "sleep" /\ binary' = 0 /\ outlived' = FALSE
  /\ window' = 0
  /\ \/ window # 0 /\ Survived /\ Confirm
     \/ window # 0 /\ ~Survived /\ Rollback
     \/ window = 0 /\ UNCHANGED <<disk, files>>
  /\ UNCHANGED <<alive, pending, stage, ipc, hist>>

\* The backoff ends.
Wake ==
  /\ pc = "sleep" /\ pc' = "top"
  /\ UNCHANGED <<disk, files, child, window, pending, stage, ipc, hist>>

----------------------------------------------------------------------------
(* IPC, taken from the channel only while run_child runs.                  *)

HandleUpdate ==
  /\ pc = "run" /\ ipc # <<>> /\ Head(ipc).kind = "update"
  /\ ipc' = Tail(ipc)
  /\ \/ /\ inflight = 0
        /\ \E t \in Tasks :
             /\ task[t].pc = "free"
             /\ task' = [task EXCEPT ![t] = [pc |-> "spawned", r |-> {Head(ipc).r},
                                             cancel |-> FALSE]]
             /\ inflight' = t
        /\ staging' = Ships[Head(ipc).r]
     \/ inflight # 0 /\ UNCHANGED <<inflight, task, staging>>
  /\ UNCHANGED <<current, lkg, failed, files, pc, child, window, pending, results, hist>>

HandleAbort ==
  /\ pc = "run" /\ ipc # <<>> /\ Head(ipc).kind = "abort"
  /\ ipc' = Tail(ipc)
  /\ IF inflight # 0 /\ task[inflight].r = {Head(ipc).r}
     THEN /\ task' = [task EXCEPT ![inflight].cancel = TRUE]
          /\ inflight' = 0
     ELSE UNCHANGED <<task, inflight>>
  /\ UNCHANGED <<disk, files, pc, child, window, pending, results, hist>>

\* Mutant: a dropped cancel sender is no cancellation.
WhenDropped_Ignored(t) == task[t]

\* A task whose cancel sender is dropped cannot tell that from a cancellation.
WhenDropped(t) == [task[t] EXCEPT !.cancel = TRUE]

\* The slot after the result of task t: taken when its rollout is t's.
SlotAfter(t) == IF inflight # 0 /\ task[inflight].r = task[t].r THEN 0 ELSE inflight

\* Mutant: the agent is left to exit by itself.
AliveAfterStaging_Kept == alive

\* A staged release makes run_child kill the agent.
AliveAfterStaging == FALSE

\* apply_staging_result.
ApplyResult ==
  /\ pc = "run" /\ results # <<>>
  /\ LET t == Head(results)  slot == SlotAfter(t) IN
       /\ inflight' = slot
       /\ task' = [u \in Tasks |->
            IF u = t THEN NoTask
            ELSE IF u = inflight /\ slot # u THEN WhenDropped(u)
            ELSE task[u]]
       /\ IF task[t].pc = "staged"
          THEN pending' = VersionOf(t) /\ alive' = AliveAfterStaging /\ staging' = staging
          ELSE staging' = 0 /\ UNCHANGED <<pending, alive>>
  /\ results' = Tail(results)
  /\ UNCHANGED <<current, lkg, failed, files, pc, binary, outlived, window, ipc, hist>>

----------------------------------------------------------------------------
(* stage_cancellable, on a task of its own.                                *)

\* Mutant: the task ends without sending its result.
Finish_Silent(t, how) ==
  task' = [task EXCEPT ![t].pc = how] /\ UNCHANGED results

\* The task ends and sends its result, and with it the reply, to the run loop.
Finish(t, how) ==
  /\ task' = [task EXCEPT ![t].pc = how]
  /\ results' = Append(results, t)

\* The partial directory is emptied and made; a URL that is not https fails.
StageBegin(t) ==
  /\ task[t].pc = "spawned"
  /\ \/ /\ task' = [task EXCEPT ![t].pc = "download"]
        /\ partial' = [partial EXCEPT ![VersionOf(t)] = "empty"]
        /\ UNCHANGED results
     \/ Finish(t, "failed") /\ UNCHANGED partial
  /\ UNCHANGED <<disk, dirs, pc, child, window, pending, inflight, ipc, hist>>

\* The archive arrives, hashes and is written, if its directory is still there.
Downloaded(t) ==
  /\ task[t].pc = "download" /\ ~task[t].cancel
  /\ partial[VersionOf(t)] # "none"
  /\ partial' = [partial EXCEPT ![VersionOf(t)] = "archive"]
  /\ task' = [task EXCEPT ![t].pc = "extract"]
  /\ UNCHANGED <<disk, dirs, pc, child, window, pending, inflight, results, ipc, hist>>

\* Cancelled, or any other error of download_and_hash.
DownloadFailed(t) ==
  /\ task[t].pc = "download"
  /\ partial' = [partial EXCEPT ![VersionOf(t)] = "none"]
  /\ Finish(t, "failed")
  /\ UNCHANGED <<disk, dirs, pc, child, window, pending, inflight, ipc, hist>>

\* Attestation, extraction and the rename; nothing here looks at cancel.
Extracted(t) ==
  /\ task[t].pc = "extract" /\ partial[VersionOf(t)] = "archive"
  /\ dirs' = dirs \cup {VersionOf(t)}
  /\ partial' = [partial EXCEPT ![VersionOf(t)] = "none"]
  /\ Finish(t, "staged")
  /\ UNCHANGED <<disk, pc, child, window, pending, inflight, ipc, hist>>

\* A failed attestation removes the partial directory, a bad archive leaves it.
ExtractFailed(t) ==
  /\ task[t].pc = "extract"
  /\ \/ partial' = [partial EXCEPT ![VersionOf(t)] = "none"]
     \/ UNCHANGED partial
  /\ Finish(t, "failed")
  /\ UNCHANGED <<disk, dirs, pc, child, window, pending, inflight, ipc, hist>>

Staging(t) ==
  StageBegin(t) \/ Downloaded(t) \/ DownloadFailed(t) \/ Extracted(t) \/ ExtractFailed(t)

----------------------------------------------------------------------------
(* The outside.                                                            *)

\* A frame of the panel becomes a request of the agent's.  It may reach the
\* channel after that agent died.
Request ==
  /\ Len(ipc) < IpcCap
  /\ \E q \in Requests : ipc' = Append(ipc, q)
  /\ UNCHANGED <<disk, files, pc, child, window, pending, stage, hist>>

\* The supervisor is stopped or dies, and starts again from state.json.  A
\* rename in progress may have removed the old directory of its version.
SupervisorRestart ==
  /\ restarts < MaxRestarts /\ restarts' = restarts + 1
  /\ \E lost \in SUBSET {VersionOf(t) : t \in {u \in Tasks : task[u].pc = "extract"}} :
       dirs' = dirs \ lost
  /\ pc' = "top" /\ alive' = FALSE /\ binary' = 0 /\ outlived' = FALSE
  /\ window' = 0 /\ pending' = 0 /\ inflight' = 0
  /\ task' = [t \in Tasks |-> NoTask]
  /\ results' = <<>> /\ ipc' = <<>>
  /\ UNCHANGED <<disk, partial, proven>>

RunLoop == Launch \/ Resolve \/ Wake
Handle  == HandleUpdate \/ HandleAbort \/ ApplyResult

Next ==
  \/ RunLoop \/ Handle
  \/ \E t \in Tasks : Staging(t)
  \/ Exit \/ Outlive \/ Request \/ SupervisorRestart

Spec == Init /\ [][Next]_vars

\* The loop and the staging tasks keep running.  run_child polls its branches
\* in random order, so a message that keeps being ready is taken eventually
\* even when every child it is polled against dies at once.
FairSpec ==
  /\ Spec
  /\ WF_vars(RunLoop)
  /\ SF_vars(HandleUpdate \/ HandleAbort) /\ SF_vars(ApplyResult)
  /\ \A t \in Tasks : WF_vars(Staging(t))

----------------------------------------------------------------------------
(* Properties.                                                             *)

\* Every variable keeps its type; failed_versions stays within its cap.
TypeOK ==
  /\ current \in Version0 /\ lkg \in Version0 /\ staging \in Version0
  /\ failed \in Seq(Versions) /\ Len(failed) <= FailedCap
  /\ dirs \subseteq Versions
  /\ partial \in [Versions -> {"none", "empty", "archive"}]
  /\ pc \in {"top", "run", "sleep"}
  /\ alive \in BOOLEAN /\ binary \in Version0 /\ outlived \in BOOLEAN
  /\ window \in Version0 /\ pending \in Version0 /\ inflight \in Tasks \cup {0}
  /\ task \in [Tasks -> TaskStates]
  /\ results \in Seq(Tasks) /\ ipc \in Seq(Requests)
  /\ proven \subseteq Version0 /\ restarts \in 0 .. MaxRestarts

\* While the supervisor itself has not been restarted, the version a rollback
\* would return to has outlived a grace window: no order of swaps, early exits
\* and overlapping updates records an unproven version.
KnownGoodIsProven == restarts = 0 => lkg \in proven \cup {0}

\* "Most recent version that proved stable in its grace window": the same whether
\* the supervisor is restarted or not.  The code does not keep it: the window is
\* forgotten, and the next swap takes whatever is current for good.
KnownGoodProvedStable == lkg \in proven \cup {0}

\* A download that still runs can be cancelled: it owns the in-flight slot, or
\* its cancel channel has fired.
DownloadsAreCancellable ==
  \A t \in Tasks : task[t].pc \in {"spawned", "download"} =>
    (inflight = t \/ task[t].cancel)

\* "Failure inside the grace window rolls back to last_known_good": a swap to a
\* version whose binary does not start is undone.
FailedSwapReverts == \A v \in Unspawnable : (window = v) ~> (current # v)

\* Every update the run loop accepts is answered, or the supervisor restarts.
UpdatesAreAnswered ==
  \A t \in Tasks : (task[t].pc = "spawned") ~> (task[t].pc = "free")

\* A release that was staged is swapped in, aborts and early exits of the agent
\* notwithstanding, unless the supervisor restarts or another one is staged.
StagedIsLaunched ==
  \A r \in Rollouts, n \in 0 .. MaxRestarts :
    LET staged(q) == \E t \in Tasks : task[t].pc = "staged" /\ task[t].r = {q} IN
      (restarts = n /\ staged(r)) ~>
        (window = Ships[r] \/ restarts > n \/ \E q \in Rollouts \ {r} : staged(q))
============================================================================
