-------------------------- MODULE SupervisorProofs --------------------------
(***************************************************************************)
(* Theorems about the supervisor, for every set of versions, rollouts and  *)
(* tasks and every bound.                                                  *)
(*                                                                         *)
(* Type correctness is not inductive alone: the version a finished task    *)
(* staged is read from the task, so a result in the channel must belong to *)
(* a task that has ended and has not been freed.  TypeInv adds that.       *)
(***************************************************************************)
EXTENDS SupervisorRefinement, TLAPS

\* A started task works for one rollout.
TaskShape ==
  \A t \in Tasks : task[t].pc # "free" => \E r \in Rollouts : task[t].r = {r}

\* A result in the channel is that of a task that has ended, sent once.
ResultsDone ==
  /\ \A i \in DOMAIN results : task[results[i]].pc \in {"staged", "failed"}
  /\ \A i, j \in DOMAIN results : results[i] = results[j] => i = j

TypeInv == TypeOK /\ TaskShape /\ ResultsDone

\* The version of a started task is a version.
LEMMA VersionOfStarted ==
  ASSUME TypeOK, TaskShape, NEW t \in Tasks, task[t].pc # "free"
  PROVE  /\ RolloutOf(t) \in Rollouts
         /\ task[t].r = {RolloutOf(t)}
         /\ VersionOf(t) \in Versions
<1>1. \E r \in Rollouts : task[t].r = {r}
  BY DEF TaskShape
<1>2. RolloutOf(t) \in Rollouts /\ task[t].r = {RolloutOf(t)}
  BY <1>1 DEF RolloutOf
<1> QED
  BY <1>2, SupervisorAssumption DEF VersionOf

\* record_failed keeps failed_versions within its cap.
LEMMA FailedCapped ==
  ASSUME TypeOK, NEW v \in Versions
  PROVE  Failed(v) \in Seq(Versions) /\ Len(Failed(v)) <= FailedCap
<1> DEFINE s == IF \E i \in DOMAIN failed : failed[i] = v THEN failed ELSE Append(failed, v)
<1>1. /\ s \in Seq(Versions)
      /\ Len(s) \in Nat /\ Len(s) <= FailedCap + 1
  BY SupervisorAssumption DEF TypeOK
<1>2. CASE Len(s) > FailedCap
  <2>1. s # <<>>
    BY <1>1, <1>2, SupervisorAssumption
  <2>2. Tail(s) \in Seq(Versions) /\ Len(Tail(s)) = Len(s) - 1
    BY <1>1, <2>1
  <2> QED
    BY <1>1, <1>2, <2>2, SupervisorAssumption DEF Failed
<1>3. CASE ~(Len(s) > FailedCap)
  BY <1>1, <1>3, SupervisorAssumption DEF Failed
<1> QED
  BY <1>2, <1>3

\* The initial states satisfy the invariant.
LEMMA InitTypeInv == Init => TypeInv
<1> SUFFICES ASSUME Init PROVE TypeInv
  OBVIOUS
<1>1. NoTask \in TaskStates
  BY DEF NoTask, TaskStates
<1>2. task \in [Tasks -> TaskStates] /\ TaskShape
  BY <1>1 DEF Init, TaskShape, NoTask
<1>3. DOMAIN results = {}
  BY DEF Init
<1>4. ResultsDone
  BY <1>3 DEF ResultsDone
<1>5. failed \in Seq(Versions) /\ Len(failed) <= FailedCap
  BY SupervisorAssumption DEF Init
<1>6. results \in Seq(Tasks) /\ ipc \in Seq(Requests)
  BY DEF Init
<1>7. partial \in [Versions -> {"none", "empty", "archive"}]
  BY DEF Init
<1>8. restarts \in 0 .. MaxRestarts
  BY SupervisorAssumption DEF Init
<1>9. TypeOK
  BY <1>2, <1>5, <1>6, <1>7, <1>8 DEF Init, TypeOK, Version0
<1> QED
  BY <1>2, <1>4, <1>9 DEF TypeInv

\* Steps that leave the staging tasks and their results alone keep the last two
\* parts.
LEMMA StageFrame ==
  ASSUME TypeInv, UNCHANGED <<task, results>>
  PROVE  TaskShape' /\ ResultsDone'
  BY DEF TypeInv, TaskShape, ResultsDone

\* The run loop.
LEMMA RunLoopTypeInv == TypeInv /\ RunLoop => TypeInv'
<1> SUFFICES ASSUME TypeInv, RunLoop PROVE TypeInv'
  OBVIOUS
<1> USE DEF TypeInv
<1>1. CASE Launch
  <2>1. /\ current' \in Version0 /\ lkg' \in Version0 /\ staging' \in Version0
        /\ window' \in Version0 /\ pending' \in Version0
    BY <1>1 DEF Launch, TypeOK, Version0
  <2>2. binary' \in Version0
    BY <1>1 DEF Launch, TypeOK, Version0
  <2>3. pc' \in {"top", "run", "sleep"} /\ alive' \in BOOLEAN /\ outlived' \in BOOLEAN
    BY <1>1 DEF Launch
  <2>4. UNCHANGED <<failed, dirs, partial, inflight, task, results, ipc, proven, restarts>>
    BY <1>1 DEF Launch, files, stage, hist
  <2>5. TypeOK'
    BY <2>1, <2>2, <2>3, <2>4 DEF TypeOK
  <2> QED
    BY <2>4, <2>5, StageFrame
<1>2. CASE Resolve
  <2>1. UNCHANGED <<alive, pending, inflight, task, results, ipc, proven, restarts>>
    BY <1>2 DEF Resolve, stage, hist
  <2>2. CASE window # 0 /\ ~Survived /\ Rollback
    <3>1. Failed(window) \in Seq(Versions) /\ Len(Failed(window)) <= FailedCap
      BY <2>2, FailedCapped DEF TypeOK, Version0
    <3>2. TypeOK'
      BY <1>2, <2>1, <2>2, <3>1 DEF Resolve, Rollback, TypeOK, Version0, files
    <3> QED
      BY <2>1, <3>2, StageFrame
  <2>3. CASE window # 0 /\ Survived /\ Confirm
    <3>1. dirs' \subseteq Versions /\ partial' \in [Versions -> {"none", "empty", "archive"}]
      BY <2>3 DEF Confirm, TypeOK
    <3>2. TypeOK'
      BY <1>2, <2>1, <2>3, <3>1 DEF Resolve, Confirm, TypeOK, Version0
    <3> QED
      BY <2>1, <3>2, StageFrame
  <2>4. CASE window = 0 /\ UNCHANGED <<disk, files>>
    <3>1. TypeOK'
      BY <1>2, <2>1, <2>4 DEF Resolve, TypeOK, Version0, disk, files
    <3> QED
      BY <2>1, <3>1, StageFrame
  <2> QED
    BY <1>2, <2>2, <2>3, <2>4 DEF Resolve
<1>3. CASE Wake
  <2>1. TypeOK'
    BY <1>3 DEF Wake, TypeOK, disk, files, child, stage, hist
  <2> QED
    BY <1>3, <2>1, StageFrame DEF Wake, stage
<1> QED
  BY <1>1, <1>2, <1>3 DEF RunLoop

\* The handlers of the run loop.
LEMMA HandleTypeInv == TypeInv /\ Handle => TypeInv'
<1> SUFFICES ASSUME TypeInv, Handle PROVE TypeInv'
  OBVIOUS
<1> USE DEF TypeInv
<1>1. CASE HandleUpdate
  <2>1. /\ Head(ipc) \in Requests /\ Tail(ipc) \in Seq(Requests)
        /\ Ships[Head(ipc).r] \in Versions /\ Head(ipc).r \in Rollouts
    <3>1. ipc \in Seq(Requests) /\ ipc # <<>>
      BY <1>1 DEF HandleUpdate, TypeOK
    <3>2. Head(ipc) \in Requests /\ Tail(ipc) \in Seq(Requests)
      BY <3>1
    <3>3. Head(ipc).r \in Rollouts
      BY <3>2 DEF Requests
    <3> QED
      BY <3>2, <3>3, SupervisorAssumption
  <2>2. UNCHANGED <<current, lkg, failed, dirs, partial, pc, alive, binary, outlived,
                    window, pending, results, proven, restarts>>
    BY <1>1 DEF HandleUpdate, files, child, hist
  <2>3. CASE inflight = 0
    <3>1. PICK t \in Tasks :
            /\ task[t].pc = "free"
            /\ task' = [task EXCEPT ![t] = [pc |-> "spawned", r |-> {Head(ipc).r},
                                            cancel |-> FALSE]]
            /\ inflight' = t
      BY <1>1, <2>3 DEF HandleUpdate
    <3>2. staging' = Ships[Head(ipc).r] /\ ipc' = Tail(ipc)
      BY <1>1, <2>3 DEF HandleUpdate
    <3>3. [pc |-> "spawned", r |-> {Head(ipc).r}, cancel |-> FALSE] \in TaskStates
      BY <2>1 DEF TaskStates
    <3>4. task' \in [Tasks -> TaskStates]
      BY <3>1, <3>3 DEF TypeOK
    <3>5. TypeOK'
      <4>1. staging' \in Version0 /\ inflight' \in Tasks \cup {0} /\ ipc' \in Seq(Requests)
        BY <2>1, <3>1, <3>2 DEF Version0
      <4> QED
        BY <2>2, <3>4, <4>1 DEF TypeOK
    <3>6. TaskShape'
      BY <2>1, <3>1 DEF TaskShape, TypeOK
    <3>7. ResultsDone'
      BY <2>2, <3>1 DEF ResultsDone, TypeOK
    <3> QED
      BY <3>5, <3>6, <3>7
  <2>4. CASE inflight # 0
    <3>1. UNCHANGED <<inflight, task, staging>> /\ ipc' = Tail(ipc)
      BY <1>1, <2>4 DEF HandleUpdate
    <3>2. TypeOK'
      BY <2>1, <2>2, <3>1 DEF TypeOK
    <3> QED
      BY <2>2, <3>1, <3>2, StageFrame
  <2> QED
    BY <2>3, <2>4
<1>2. CASE HandleAbort
  <2>1. ipc' = Tail(ipc) /\ Tail(ipc) \in Seq(Requests)
    BY <1>2 DEF HandleAbort, TypeOK
  <2>2. UNCHANGED <<current, lkg, staging, failed, dirs, partial, pc, alive, binary,
                    outlived, window, pending, results, proven, restarts>>
    BY <1>2 DEF HandleAbort, disk, files, child, hist
  <2>3. CASE inflight # 0 /\ task[inflight].r = {Head(ipc).r}
    <3>1. inflight \in Tasks
      BY <2>3 DEF TypeOK
    <3>2. task' = [task EXCEPT ![inflight].cancel = TRUE] /\ inflight' = 0
      BY <1>2, <2>3 DEF HandleAbort
    <3>3. task' \in [Tasks -> TaskStates]
      BY <3>1, <3>2 DEF TypeOK, TaskStates
    <3>4. TypeOK'
      BY <2>1, <2>2, <3>2, <3>3 DEF TypeOK
    <3>5. \A t \in Tasks : task'[t].pc = task[t].pc /\ task'[t].r = task[t].r
      BY <3>1, <3>2 DEF TypeOK, TaskStates
    <3>6. TaskShape' /\ ResultsDone'
      BY <2>2, <3>5 DEF TaskShape, ResultsDone, TypeOK
    <3> QED
      BY <3>4, <3>6
  <2>4. CASE ~(inflight # 0 /\ task[inflight].r = {Head(ipc).r})
    <3>1. UNCHANGED <<task, inflight>>
      BY <1>2, <2>4 DEF HandleAbort
    <3>2. TypeOK'
      BY <2>1, <2>2, <3>1 DEF TypeOK
    <3> QED
      BY <2>2, <3>1, <3>2, StageFrame
  <2> QED
    BY <2>3, <2>4
<1>3. CASE ApplyResult
  <2> DEFINE t == Head(results)
             slot == SlotAfter(t)
  <2>1. t \in Tasks /\ results' = Tail(results) /\ Tail(results) \in Seq(Tasks)
    BY <1>3 DEF ApplyResult, TypeOK
  <2>2. task[t].pc \in {"staged", "failed"}
    <3>1. 1 \in DOMAIN results /\ t = results[1]
      BY <1>3 DEF ApplyResult, TypeOK
    <3> QED
      BY <3>1 DEF ResultsDone
  <2>3. task[t].pc # "free"
    BY <2>2
  <2>4. VersionOf(t) \in Versions
    BY <2>1, <2>3, VersionOfStarted
  <2>5. UNCHANGED <<current, lkg, failed, dirs, partial, pc, binary, outlived, window,
                    ipc, proven, restarts>>
    BY <1>3 DEF ApplyResult, files, hist
  <2>6. slot \in Tasks \cup {0}
    BY DEF SlotAfter, TypeOK
  <2>7. task' = [u \in Tasks |->
            IF u = t THEN NoTask
            ELSE IF u = inflight /\ slot # u THEN WhenDropped(u)
            ELSE task[u]]
    BY <1>3 DEF ApplyResult
  <2>8. \A u \in Tasks : WhenDropped(u) \in TaskStates /\ NoTask \in TaskStates
    BY DEF WhenDropped, TypeOK, TaskStates, NoTask
  <2>9. task' \in [Tasks -> TaskStates]
    BY <2>7, <2>8 DEF TypeOK
  <2>10. /\ staging' \in Version0 /\ pending' \in Version0 /\ alive' \in BOOLEAN
         /\ inflight' = slot
    BY <1>3, <2>4 DEF ApplyResult, AliveAfterStaging, TypeOK, Version0
  <2>11. TypeOK'
    BY <2>1, <2>5, <2>6, <2>9, <2>10 DEF TypeOK
  <2>12. \A u \in Tasks \ {t} : task'[u].pc = task[u].pc /\ task'[u].r = task[u].r
    BY <2>7 DEF WhenDropped, TypeOK, TaskStates
  <2>13. task'[t].pc = "free"
    BY <2>1, <2>7 DEF NoTask
  <2>14. TaskShape'
    BY <2>12, <2>13 DEF TaskShape
  <2>15. \A i \in DOMAIN results' : /\ i + 1 \in DOMAIN results
                                   /\ results'[i] = results[i + 1]
                                   /\ results'[i] \in Tasks \ {t}
    <3>1. results # <<>> /\ results \in Seq(Tasks)
      BY <1>3 DEF ApplyResult, TypeOK
    <3>2. DOMAIN results' = 1 .. (Len(results) - 1) /\ DOMAIN results = 1 .. Len(results)
          /\ Len(results) \in Nat /\ t = results[1]
      BY <2>1, <3>1
    <3> SUFFICES ASSUME NEW i \in DOMAIN results'
                 PROVE  /\ i + 1 \in DOMAIN results
                        /\ results'[i] = results[i + 1]
                        /\ results'[i] \in Tasks \ {t}
      OBVIOUS
    <3>3. i + 1 \in DOMAIN results /\ i + 1 # 1 /\ 1 \in DOMAIN results
      BY <3>2
    <3>4. results'[i] = results[i + 1]
      BY <2>1, <3>1, <3>2
    <3>5. results[i + 1] # results[1]
      BY <3>3 DEF ResultsDone
    <3> QED
      BY <3>1, <3>2, <3>3, <3>4, <3>5
  <2>16. ResultsDone'
    <3>1. \A i \in DOMAIN results' : task'[results'[i]].pc \in {"staged", "failed"}
      BY <2>12, <2>15 DEF ResultsDone
    <3>2. DOMAIN results' \subseteq Nat
      BY <2>1
    <3>3. \A i, j \in DOMAIN results' : results'[i] = results'[j] => i = j
      BY <2>15, <3>2 DEF ResultsDone
    <3> QED
      BY <3>1, <3>3 DEF ResultsDone
  <2> QED
    BY <2>11, <2>14, <2>16
<1> QED
  BY <1>1, <1>2, <1>3 DEF Handle

\* A staging task that ends: Finish, with any last step on the files.
LEMMA FinishTypeInv ==
  ASSUME TypeInv, NEW t \in Tasks, NEW how \in {"staged", "failed"},
         task[t].pc \in {"spawned", "download", "extract"}, Finish(t, how)
  PROVE  /\ task' \in [Tasks -> TaskStates] /\ results' \in Seq(Tasks)
         /\ TaskShape' /\ ResultsDone'
<1> USE DEF TypeInv
<1>1. task' = [task EXCEPT ![t].pc = how] /\ results' = Append(results, t)
  BY DEF Finish
<1>2. task' \in [Tasks -> TaskStates] /\ results' \in Seq(Tasks)
  <2>1. task \in [Tasks -> TaskStates] /\ results \in Seq(Tasks)
    BY DEF TypeOK
  <2>2. [task[t] EXCEPT !.pc = how] \in TaskStates
    BY <2>1 DEF TaskStates
  <2>3. task' \in [Tasks -> TaskStates]
    BY <1>1, <2>1, <2>2
  <2> QED
    BY <1>1, <2>1, <2>3
<1>3. /\ \A u \in Tasks \ {t} : task'[u] = task[u]
      /\ task'[t].pc = how /\ task'[t].r = task[t].r
  BY <1>1 DEF TypeOK, TaskStates
<1>4. TaskShape'
  BY <1>3 DEF TaskShape
<1>5. \A i \in DOMAIN results : results[i] \in Tasks \ {t}
  BY DEF ResultsDone, TypeOK
<1>6. /\ DOMAIN results' = DOMAIN results \cup {Len(results) + 1}
      /\ Len(results) + 1 \notin DOMAIN results
      /\ \A i \in DOMAIN results : results'[i] = results[i]
      /\ results'[Len(results) + 1] = t
  BY <1>1 DEF TypeOK
<1>7. ResultsDone'
  <2>1. \A i \in DOMAIN results' : task'[results'[i]].pc \in {"staged", "failed"}
    BY <1>3, <1>5, <1>6 DEF ResultsDone
  <2>2. \A i, j \in DOMAIN results' : results'[i] = results'[j] => i = j
    BY <1>5, <1>6 DEF ResultsDone
  <2> QED
    BY <2>1, <2>2 DEF ResultsDone
<1> QED
  BY <1>2, <1>4, <1>7

\* A staging task that goes on.
LEMMA AdvanceTypeInv ==
  ASSUME TypeInv, NEW t \in Tasks, NEW to \in {"download", "extract"},
         task[t].pc \in {"spawned", "download"}, UNCHANGED results,
         task' = [task EXCEPT ![t].pc = to]
  PROVE  /\ task' \in [Tasks -> TaskStates] /\ results' \in Seq(Tasks)
         /\ TaskShape' /\ ResultsDone'
<1> USE DEF TypeInv
<1>1. task' \in [Tasks -> TaskStates] /\ results' \in Seq(Tasks)
  BY DEF TypeOK, TaskStates
<1>2. /\ \A u \in Tasks \ {t} : task'[u] = task[u]
      /\ task'[t].r = task[t].r
  BY DEF TypeOK, TaskStates
<1>3. TaskShape'
  BY <1>2 DEF TaskShape
<1>4. \A i \in DOMAIN results : results[i] \in Tasks \ {t}
  BY DEF ResultsDone, TypeOK
<1>5. ResultsDone'
  BY <1>2, <1>4 DEF ResultsDone
<1> QED
  BY <1>1, <1>3, <1>5

\* The staging tasks.
LEMMA StagingTypeInv == \A t \in Tasks : TypeInv /\ Staging(t) => TypeInv'
<1> SUFFICES ASSUME TypeInv, NEW t \in Tasks, Staging(t) PROVE TypeInv'
  OBVIOUS
<1> USE DEF TypeInv
<1>1. /\ UNCHANGED <<current, lkg, staging, failed, pc, alive, binary, outlived, window,
                     pending, inflight, ipc, proven, restarts>>
      /\ task[t].pc \in {"spawned", "download", "extract"}
  BY DEF Staging, StageBegin, Downloaded, DownloadFailed, Extracted, ExtractFailed,
         disk, child, hist
<1>2. dirs' \subseteq Versions
  <2>1. CASE Extracted(t)
    BY <2>1, VersionOfStarted DEF Extracted, TypeOK
  <2>2. CASE ~Extracted(t)
    BY <2>2 DEF Staging, StageBegin, Downloaded, DownloadFailed, ExtractFailed, TypeOK
  <2> QED
    BY <2>1, <2>2
<1>3. partial' \in [Versions -> {"none", "empty", "archive"}]
  BY DEF Staging, StageBegin, Downloaded, DownloadFailed, Extracted, ExtractFailed, TypeOK
<1>4. \/ \E how \in {"staged", "failed"} : Finish(t, how)
      \/ \E to \in {"download", "extract"} :
           /\ task[t].pc \in {"spawned", "download"}
           /\ UNCHANGED results /\ task' = [task EXCEPT ![t].pc = to]
  BY DEF Staging, StageBegin, Downloaded, DownloadFailed, Extracted, ExtractFailed
<1>5. /\ task' \in [Tasks -> TaskStates] /\ results' \in Seq(Tasks)
      /\ TaskShape' /\ ResultsDone'
  BY <1>1, <1>4, FinishTypeInv, AdvanceTypeInv
<1>6. TypeOK'
  BY <1>1, <1>2, <1>3, <1>5 DEF TypeOK
<1> QED
  BY <1>5, <1>6

\* Every step keeps the invariant.
LEMMA NextTypeInv == TypeInv /\ [Next]_vars => TypeInv'
<1> SUFFICES ASSUME TypeInv, [Next]_vars PROVE TypeInv'
  OBVIOUS
<1>1. CASE RunLoop
  BY <1>1, RunLoopTypeInv
<1>2. CASE Handle
  BY <1>2, HandleTypeInv
<1>3. CASE \E t \in Tasks : Staging(t)
  BY <1>3, StagingTypeInv
<1>4. CASE Exit
  <2>1. TypeOK'
    BY <1>4 DEF Exit, TypeInv, TypeOK, disk, files, stage, hist
  <2> QED
    BY <1>4, <2>1, StageFrame DEF Exit, stage, TypeInv
<1>5. CASE Outlive
  <2>1. TypeOK'
    BY <1>5 DEF Outlive, TypeInv, TypeOK, disk, files, stage
  <2> QED
    BY <1>5, <2>1, StageFrame DEF Outlive, stage, TypeInv
<1>6. CASE Request
  <2>1. TypeOK'
    BY <1>6 DEF Request, TypeInv, TypeOK, disk, files, child, stage, hist
  <2> QED
    BY <1>6, <2>1, StageFrame DEF Request, stage, TypeInv
<1>7. CASE SupervisorRestart
  <2>1. NoTask \in TaskStates
    BY DEF NoTask, TaskStates
  <2>2. task' \in [Tasks -> TaskStates] /\ TaskShape'
    BY <1>7, <2>1 DEF SupervisorRestart, TaskShape, NoTask
  <2>3. restarts' \in 0 .. MaxRestarts
    BY <1>7, SupervisorAssumption DEF SupervisorRestart, TypeInv, TypeOK
  <2>4. TypeOK'
    <3>1. results' \in Seq(Tasks) /\ ipc' \in Seq(Requests)
      BY <1>7 DEF SupervisorRestart
    <3>2. dirs' \subseteq Versions
      BY <1>7 DEF SupervisorRestart, TypeInv, TypeOK
    <3>3. /\ pc' = "top" /\ alive' = FALSE /\ binary' = 0 /\ outlived' = FALSE
          /\ window' = 0 /\ pending' = 0 /\ inflight' = 0
          /\ UNCHANGED <<current, lkg, staging, failed, partial, proven>>
      BY <1>7 DEF SupervisorRestart, disk
    <3> QED
      BY <2>2, <2>3, <3>1, <3>2, <3>3 DEF TypeInv, TypeOK, Version0
  <2>5. DOMAIN results' = {}
    BY <1>7 DEF SupervisorRestart
  <2> QED
    BY <2>2, <2>4, <2>5 DEF TypeInv, ResultsDone
<1>8. CASE UNCHANGED vars
  <2>1. TypeOK'
    BY <1>8 DEF vars, TypeInv, TypeOK, disk, files, child, stage, hist
  <2> QED
    BY <1>8, <2>1, StageFrame DEF vars, stage, TypeInv
<1> QED
  BY <1>1, <1>2, <1>3, <1>4, <1>5, <1>6, <1>7, <1>8 DEF Next

\* TypeOK is an invariant: no order of requests, results, exits and restarts takes
\* failed_versions past its cap or reads the version of a task that is gone.
THEOREM SupervisorTypeCorrect == Spec => []TypeOK
<1>1. TypeInv => TypeOK
  BY DEF TypeInv
<1> QED
  BY <1>1, InitTypeInv, NextTypeInv, PTL DEF Spec

----------------------------------------------------------------------------
(***************************************************************************)
(* Downloads are cancellable: inductive with the types.                    *)
(***************************************************************************)

\* Steps that leave the tasks and the slot alone.
LEMMA CancelFrame ==
  ASSUME DownloadsAreCancellable, UNCHANGED <<inflight, task>>
  PROVE  DownloadsAreCancellable'
  BY DEF DownloadsAreCancellable

\* Every step keeps a download under its slot, or cancelled.
LEMMA NextCancellable ==
  TypeInv /\ DownloadsAreCancellable /\ [Next]_vars => DownloadsAreCancellable'
<1> SUFFICES ASSUME TypeInv, DownloadsAreCancellable, [Next]_vars
             PROVE  DownloadsAreCancellable'
  OBVIOUS
<1> USE DEF TypeInv
<1>1. CASE HandleUpdate
  <2>1. CASE inflight = 0
    <3>1. PICK t \in Tasks :
            /\ task' = [task EXCEPT ![t] = [pc |-> "spawned", r |-> {Head(ipc).r},
                                            cancel |-> FALSE]]
            /\ inflight' = t
      BY <1>1, <2>1 DEF HandleUpdate
    <3>2. \A u \in Tasks \ {t} : task'[u] = task[u]
      BY <3>1 DEF TypeOK
    <3>3. \A u \in Tasks : inflight # u
      BY <2>1, SupervisorAssumption
    <3> QED
      BY <3>1, <3>2, <3>3 DEF DownloadsAreCancellable
  <2>2. CASE inflight # 0
    <3>1. UNCHANGED <<inflight, task>>
      BY <1>1, <2>2 DEF HandleUpdate
    <3> QED
      BY <3>1, CancelFrame
  <2> QED
    BY <2>1, <2>2
<1>2. CASE HandleAbort
  <2>1. CASE inflight # 0 /\ task[inflight].r = {Head(ipc).r}
    <3>1. inflight \in Tasks /\ task' = [task EXCEPT ![inflight].cancel = TRUE]
      BY <1>2, <2>1 DEF HandleAbort, TypeOK
    <3>2. task'[inflight].cancel = TRUE
      BY <3>1 DEF TypeOK, TaskStates
    <3>3. \A u \in Tasks \ {inflight} : task'[u] = task[u]
      BY <3>1 DEF TypeOK
    <3> QED
      BY <3>1, <3>2, <3>3 DEF DownloadsAreCancellable
  <2>2. CASE ~(inflight # 0 /\ task[inflight].r = {Head(ipc).r})
    <3>1. UNCHANGED <<inflight, task>>
      BY <1>2, <2>2 DEF HandleAbort
    <3> QED
      BY <3>1, CancelFrame
  <2> QED
    BY <2>1, <2>2
<1>3. CASE ApplyResult
  <2> DEFINE t == Head(results)
             slot == SlotAfter(t)
  <2>1. /\ inflight' = slot
        /\ task' = [u \in Tasks |->
             IF u = t THEN NoTask
             ELSE IF u = inflight /\ slot # u THEN WhenDropped(u)
             ELSE task[u]]
    BY <1>3 DEF ApplyResult
  <2> HIDE DEF t, slot
  <2> SUFFICES ASSUME NEW u \in Tasks, task'[u].pc \in {"spawned", "download"}
               PROVE  inflight' = u \/ task'[u].cancel
    BY DEF DownloadsAreCancellable
  <2>2. u # t
    BY <2>1 DEF NoTask
  <2>3. CASE u = inflight /\ slot # u
    <3>1. task'[u] = WhenDropped(u)
      BY <2>1, <2>2, <2>3
    <3>2. WhenDropped(u).cancel = TRUE
      BY DEF WhenDropped, TypeOK, TaskStates
    <3> QED
      BY <3>1, <3>2
  <2>4. CASE ~(u = inflight /\ slot # u)
    <3>1. task'[u] = task[u]
      BY <2>1, <2>2, <2>4
    <3>2. inflight = u \/ task[u].cancel
      BY <3>1 DEF DownloadsAreCancellable
    <3> QED
      BY <2>1, <2>4, <3>1, <3>2
  <2> QED
    BY <2>3, <2>4
<1>4. ASSUME NEW t \in Tasks, Staging(t) PROVE DownloadsAreCancellable'
  <2>1. inflight' = inflight /\ task[t].pc \in {"spawned", "download", "extract"}
    BY <1>4 DEF Staging, StageBegin, Downloaded, DownloadFailed, Extracted, ExtractFailed
  <2>2. PICK to \in {"download", "extract", "staged", "failed"} :
          /\ task' = [task EXCEPT ![t].pc = to]
          /\ to = "download" => task[t].pc = "spawned"
    BY <1>4 DEF Staging, StageBegin, Downloaded, DownloadFailed, Extracted, ExtractFailed,
                Finish
  <2>3. /\ \A u \in Tasks \ {t} : task'[u] = task[u]
        /\ task'[t].pc = to /\ task'[t].cancel = task[t].cancel
    BY <2>2 DEF TypeOK, TaskStates
  <2> QED
    BY <2>1, <2>2, <2>3 DEF DownloadsAreCancellable
<1>5. CASE SupervisorRestart
  <2>1. \A u \in Tasks : task'[u].pc = "free"
    BY <1>5 DEF SupervisorRestart, NoTask
  <2> QED
    BY <2>1 DEF DownloadsAreCancellable
<1>6. CASE RunLoop \/ Exit \/ Outlive \/ Request \/ UNCHANGED vars
  <2>1. UNCHANGED <<inflight, task>>
    BY <1>6 DEF RunLoop, Launch, Resolve, Wake, Exit, Outlive, Request, vars, stage
  <2> QED
    BY <2>1, CancelFrame
<1> QED
  BY <1>1, <1>2, <1>3, <1>4, <1>5, <1>6 DEF Next, Handle

\* A staging task that still downloads owns the in-flight slot or is cancelled, in
\* every order of updates, aborts, retries of one rollout and late results.
THEOREM DownloadsStayCancellable == Spec => []DownloadsAreCancellable
<1>1. Init => DownloadsAreCancellable
  BY DEF Init, NoTask, DownloadsAreCancellable
<1> QED
  BY <1>1, InitTypeInv, NextTypeInv, NextCancellable, PTL DEF Spec

----------------------------------------------------------------------------
(***************************************************************************)
(* The version to roll back to.  A swap writes the current version to      *)
(* last_known_good, so that version must be proven whenever a swap can     *)
(* happen: no window is open then, because the loop resolves it on the way *)
(* from an exit to the next launch, and a launch that fails, which leaves  *)
(* the window open, leaves no swap behind.                                 *)
(***************************************************************************)

Proven(v) == v \in proven \cup {0}

\* What the swaps of a supervisor that has not been restarted keep.
SwapInv ==
  /\ Proven(lkg)
  /\ window = 0 => Proven(current)
  /\ outlived => Proven(current)
  /\ pc \in {"top", "sleep"} /\ pending # 0 => window = 0

SwapSafe == restarts = 0 => SwapInv

\* Steps that leave the versions, the child and the window alone.
LEMMA SwapFrame ==
  ASSUME SwapInv, UNCHANGED <<current, lkg, window, outlived, proven, pc, pending>>
  PROVE  SwapInv'
  BY DEF SwapInv, Proven

\* Every step but a restart keeps the swaps safe.
LEMMA NextSwapSafe == TypeInv /\ SwapSafe /\ [Next]_vars => SwapSafe'
<1> SUFFICES ASSUME TypeInv, SwapSafe, [Next]_vars, restarts' = 0 PROVE SwapInv'
  BY DEF SwapSafe
<1>1. ~SupervisorRestart
  BY DEF SupervisorRestart, TypeInv, TypeOK
<1>2. restarts' = restarts
  BY <1>1 DEF Next, RunLoop, Launch, Resolve, Wake, Handle, HandleUpdate, HandleAbort,
              ApplyResult, Staging, StageBegin, Downloaded, DownloadFailed, Extracted,
              ExtractFailed, Exit, Outlive, Request, hist, vars
<1>3. SwapInv
  BY <1>2 DEF SwapSafe
<1>4. CASE Launch
  <2>1. proven' = proven /\ outlived' = FALSE /\ pending' = 0
    BY <1>4 DEF Launch, hist
  <2>2. CASE pending = 0
    <3>1. UNCHANGED <<current, lkg, window>>
      BY <1>4, <2>2 DEF Launch
    <3> QED
      BY <1>3, <2>1, <3>1 DEF SwapInv, Proven
  <2>3. CASE pending # 0
    <3>1. lkg' = current /\ window' = pending
      BY <1>4, <2>3 DEF Launch
    <3>2. Proven(current)
      BY <1>3, <1>4, <2>3 DEF SwapInv, Launch
    <3> QED
      BY <2>1, <2>3, <3>1, <3>2 DEF SwapInv, Proven
  <2> QED
    BY <2>2, <2>3
<1>5. CASE Resolve
  <2>1. /\ proven' = proven /\ outlived' = FALSE /\ window' = 0
        /\ pc' = "sleep"
    BY <1>5 DEF Resolve, hist
  <2>2. Proven(lkg') /\ Proven(current')
    <3>1. CASE window # 0 /\ Survived /\ Confirm
      BY <1>3, <3>1 DEF Survived, Confirm, SwapInv, Proven
    <3>2. CASE window # 0 /\ ~Survived /\ Rollback
      BY <1>3, <3>2 DEF Rollback, SwapInv, Proven
    <3>3. CASE window = 0 /\ UNCHANGED <<disk, files>>
      BY <1>3, <3>3 DEF disk, SwapInv, Proven
    <3> QED
      BY <1>5, <3>1, <3>2, <3>3 DEF Resolve
  <2> QED
    BY <2>1, <2>2 DEF SwapInv, Proven
<1>6. CASE Wake
  BY <1>3, <1>6 DEF Wake, disk, child, hist, SwapInv, Proven
<1>7. CASE Outlive
  <2>1. /\ proven' = proven \cup {current}
        /\ UNCHANGED <<current, lkg, window, pc, pending>>
    BY <1>7 DEF Outlive, disk
  <2> QED
    BY <1>3, <2>1 DEF SwapInv, Proven
<1>8. CASE ApplyResult
  <2>1. UNCHANGED <<current, lkg, window, outlived, proven, pc>> /\ pc = "run"
    BY <1>8 DEF ApplyResult, hist
  <2> QED
    BY <1>3, <2>1 DEF SwapInv, Proven
<1>9. CASE \/ HandleUpdate \/ HandleAbort \/ (\E t \in Tasks : Staging(t))
           \/ Exit \/ Request \/ UNCHANGED vars
  <2>1. UNCHANGED <<current, lkg, window, outlived, proven, pc, pending>>
    BY <1>9 DEF HandleUpdate, HandleAbort, Staging, StageBegin, Downloaded, DownloadFailed,
                Extracted, ExtractFailed, Exit, Request, vars, disk, child, hist
  <2> QED
    BY <1>3, <2>1, SwapFrame
<1> QED
  BY <1>1, <1>4, <1>5, <1>6, <1>7, <1>8, <1>9 DEF Next, RunLoop, Handle

\* Until the supervisor itself restarts, last_known_good names a version that
\* outlived a grace window, or none.
THEOREM KnownGoodWithoutRestart == Spec => []KnownGoodIsProven
<1>1. Init => SwapSafe
  BY DEF Init, SwapSafe, SwapInv, Proven
<1>2. SwapSafe => KnownGoodIsProven
  BY DEF SwapSafe, SwapInv, Proven, KnownGoodIsProven
<1> QED
  BY <1>1, <1>2, InitTypeInv, NextTypeInv, NextSwapSafe, PTL DEF Spec

----------------------------------------------------------------------------
(***************************************************************************)
(* The supervisor implements SelfUpdate, for every set of versions,        *)
(* rollouts and tasks.  The mapping needs three facts that the types do    *)
(* not give: the version on trial is the current one, a swap is pending at *)
(* the top of the loop only when no trial is open, and a child lives, or   *)
(* has outlived anything, only while the loop is with it.                  *)
(***************************************************************************)

TrialInv ==
  /\ window # 0 => current = window
  /\ pc \in {"top", "sleep"} /\ pending # 0 => window = 0
  /\ pc \in {"top", "sleep"} => ~outlived
  /\ alive => pc = "run"

\* Steps of the staging tasks and of the outside leave the trial alone.
QuietStep ==
  \/ HandleUpdate \/ HandleAbort \/ (\E t \in Tasks : Staging(t))
  \/ Exit \/ Request \/ UNCHANGED vars

LEMMA QuietFrame ==
  ASSUME QuietStep
  PROVE  /\ UNCHANGED <<current, lkg, window, outlived, pc, pending, restarts>>
         /\ alive' => alive
  BY DEF QuietStep, HandleUpdate, HandleAbort, Staging, StageBegin, Downloaded,
         DownloadFailed, Extracted, ExtractFailed, Exit, Request, vars, disk, child, hist

\* What remains of a step.
LEMMA StepCases ==
  ASSUME [Next]_vars
  PROVE  QuietStep \/ Launch \/ Resolve \/ Wake \/ ApplyResult \/ Outlive \/ SupervisorRestart
  BY DEF Next, RunLoop, Handle, QuietStep

LEMMA InitTrialInv == Init => TrialInv
  BY DEF Init, TrialInv

\* Every step keeps the facts the mapping needs.
LEMMA NextTrialInv == TypeInv /\ TrialInv /\ [Next]_vars => TrialInv'
<1> SUFFICES ASSUME TypeInv, TrialInv, [Next]_vars PROVE TrialInv'
  OBVIOUS
<1>1. CASE QuietStep
  BY <1>1, QuietFrame DEF TrialInv
<1>2. CASE Launch
  BY <1>2 DEF Launch, TrialInv, TypeInv, TypeOK
<1>3. CASE Resolve
  BY <1>3 DEF Resolve, TrialInv
<1>4. CASE Wake
  BY <1>4 DEF Wake, TrialInv, disk, child
<1>5. CASE ApplyResult
  BY <1>5 DEF ApplyResult, TrialInv
<1>6. CASE Outlive
  <2>1. UNCHANGED <<current, window, pc, pending>> /\ alive
    BY <1>6 DEF Outlive, disk
  <2> QED
    BY <1>6, <2>1 DEF Outlive, TrialInv
<1>7. CASE SupervisorRestart
  BY <1>7 DEF SupervisorRestart, TrialInv
<1> QED
  BY <1>1, <1>2, <1>3, <1>4, <1>5, <1>6, <1>7, StepCases

\* The initial states are the promise's.
LEMMA InitPromise == Init => Promise!PromiseInit
  BY DEF Init, Promise!PromiseInit

\* Every step is one of the promise's, or leaves its state as it is.
LEMMA NextPromise ==
  TypeInv /\ TrialInv /\ [Next]_vars => [Promise!PromiseNext]_(Promise!promiseVars)
<1> SUFFICES ASSUME TypeInv, TrialInv, [Next]_vars
             PROVE  Promise!PromiseNext \/ UNCHANGED Promise!promiseVars
  OBVIOUS
<1>1. CASE QuietStep
  <2>1. UNCHANGED <<current, lkg, window, outlived, restarts>>
    BY <1>1, QuietFrame
  <2> QED
    BY <2>1 DEF Promise!promiseVars
<1>2. CASE Launch
  <2>1. CASE pending = 0
    BY <1>2, <2>1 DEF Launch, TrialInv, Promise!promiseVars, hist
  <2>2. CASE pending # 0
    <3>1. pending \in Versions /\ pending # 0 /\ window = 0
      BY <1>2, <2>2 DEF Launch, TrialInv, TypeInv, TypeOK, Version0
    <3>2. Promise!Try(pending)
      BY <1>2, <2>2, <3>1 DEF Launch, Promise!Try, hist
    <3> QED
      BY <3>1, <3>2 DEF Promise!PromiseNext
  <2> QED
    BY <2>1, <2>2
<1>3. CASE Resolve
  <2>1. window' = 0 /\ outlived' = FALSE /\ restarts' = restarts
    BY <1>3 DEF Resolve, hist
  <2>2. CASE window # 0 /\ Survived /\ Confirm
    <3>1. Promise!Keep
      BY <2>1, <2>2 DEF Survived, Confirm, TrialInv, Promise!Keep
    <3> QED
      BY <3>1 DEF Promise!PromiseNext
  <2>3. CASE window # 0 /\ ~Survived /\ Rollback
    <3>1. Promise!Revert
      BY <2>1, <2>3 DEF Survived, Rollback, Promise!Revert
    <3> QED
      BY <3>1 DEF Promise!PromiseNext
  <2>4. CASE window = 0 /\ UNCHANGED <<disk, files>>
    BY <2>1, <2>4 DEF disk, Promise!promiseVars
  <2> QED
    BY <1>3, <2>2, <2>3, <2>4 DEF Resolve
<1>4. CASE Wake
  BY <1>4 DEF Wake, disk, child, hist, Promise!promiseVars
<1>5. CASE ApplyResult
  BY <1>5 DEF ApplyResult, hist, Promise!promiseVars
<1>6. CASE Outlive
  <2>1. UNCHANGED <<current, lkg, window, restarts>> /\ outlived' = TRUE
    BY <1>6 DEF Outlive, disk
  <2>2. CASE window = 0
    BY <2>1, <2>2 DEF Promise!promiseVars
  <2>3. CASE window # 0
    <3>1. Promise!Live
      BY <2>1, <2>3 DEF Promise!Live
    <3> QED
      BY <3>1 DEF Promise!PromiseNext
  <2> QED
    BY <2>2, <2>3
<1>7. CASE SupervisorRestart
  <2>1. /\ UNCHANGED <<current, lkg>> /\ window' = 0 /\ outlived' = FALSE
        /\ restarts < MaxRestarts /\ restarts' = restarts + 1
    BY <1>7 DEF SupervisorRestart, disk
  <2>2. Promise!Forget
    BY <2>1 DEF TrialInv, Promise!Forget
  <2> QED
    BY <2>2 DEF Promise!PromiseNext
<1> QED
  BY <1>1, <1>2, <1>3, <1>4, <1>5, <1>6, <1>7, StepCases

\* The host's version changes only as SelfUpdate says: through a trial that is
\* outlived or undone, in every order of updates, aborts, exits and results.
THEOREM SupervisorImplementsSelfUpdate == Spec => ImplementsSelfUpdate
<1> QED
  BY InitTypeInv, NextTypeInv, InitTrialInv, NextTrialInv, InitPromise, NextPromise, PTL
  DEF Spec, ImplementsSelfUpdate, Promise!SelfUpdateSpec
=============================================================================
