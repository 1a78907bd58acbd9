---------------------------- MODULE LoaderProofs ----------------------------
(***************************************************************************)
(* Proofs about applications/loader/loader.c, its thread and the CLI, as   *)
(* modelled in Loader, for any number of callers, tasks and applications;  *)
(* then about the loader together with the desktop, LoaderDesktop: what    *)
(* holds of the loader alone holds there too, and the animation's memory   *)
(* changes hands in turns.                                                 *)
(***************************************************************************)
EXTENDS LoaderDesktop, FiniteSetTheorems, SequenceTheorems, TLAPS

\* A caller that has the lock is alone with the thread ...
LEMMA StarterIsOnly ==
    ASSUME OneUser, NEW c \in Starters
    PROVE  Starters = {c} /\ ActiveTasks = {}
  BY DEF OneUser

\* ... and so is a task, until it unlocks.
LEMMA TaskIsOnly ==
    ASSUME OneUser, NEW k \in ActiveTasks
    PROVE  Starters = {} /\ ActiveTasks = {k}
  BY DEF OneUser

\* Nobody has the lock at first.
LEMMA InitEstablishes == Init => LoaderInv
<1> SUFFICES ASSUME Init PROVE LoaderInv
    OBVIOUS
<1> USE LoaderAssumption DEF Init
<1>1. Starters = {} /\ ActiveTasks = {} /\ ~Occupied
  BY DEF Starters, ActiveTasks, Holding, Occupied
<1>2. ~CliAlone /\ ~CliAwake /\ ~TaskAwake
  BY DEF CliAlone, CliAwake, TaskAwake
<1>3. NoAssertFails
  BY DEF NoAssertFails, TypeOK, TaskLabels
<1>4. OneUser
  BY <1>1 DEF OneUser
<1>5. ThreadConsistent
  BY <1>1 DEF ThreadConsistent
<1>6. CliConsistent
  BY DEF CliConsistent
<1>7. LockCounts /\ InsomniaCounts
  BY <1>1, <1>2 DEF LockCounts, InsomniaCounts, Count
<1> QED
  BY <1>3, <1>4, <1>5, <1>6, <1>7 DEF LoaderInv

-----------------------------------------------------------------------------
(* Starting an application *)

\* The lock is given to one caller, when nobody uses the thread.
LEMMA LoaderStartPreserves ==
    ASSUME LoaderInv, NEW c \in Callers, loader_start(c)
    PROVE  LoaderInv'
<1> USE LoaderAssumption
<1>t. TypeOK /\ fault = NULL /\ pc[c] = "idle" /\ c # Cli
      /\ UNCHANGED <<threadVars, insomnia, flags, taskVars, fault>>
  BY DEF LoaderInv, NoAssertFails, loader_start
<1>u. UNCHANGED <<application_arguments, thread_state, thread_job, insomnia, flags,
                  task, wanted, running, fault>>
  BY <1>t DEF threadVars, taskVars
<1>1. CASE LockRefused /\ UNCHANGED <<pc, request>>
  <2>1. UNCHANGED <<lock_count, pc, request>>
    BY <1>1 DEF LockRefused
  <2>2. UNCHANGED <<Starters, ActiveTasks, CliAlone, CliAwake, TaskAwake>>
    BY <2>1, <1>u DEF Starters, ActiveTasks, CliAlone, CliAwake, TaskAwake
  <2>3. NoAssertFails'
    BY <2>1, <1>u DEF LoaderInv, NoAssertFails, TypeOK
  <2>4. OneUser' /\ ThreadConsistent'
    BY <2>1, <2>2, <1>u DEF LoaderInv, OneUser, ThreadConsistent, Occupied
  <2>5. CliConsistent'
    BY <2>1, <1>u DEF LoaderInv, CliConsistent
  <2>6. LockCounts' /\ InsomniaCounts'
    BY <2>1, <2>2, <1>u DEF LoaderInv, LockCounts, InsomniaCounts, Occupied
  <2> QED BY <2>3, <2>4, <2>5, <2>6 DEF LoaderInv
<1>2. ASSUME NEW j \in [app : Apps, arguments : {c, NULL}], loader_lock,
             Goto(c, "locked"), request' = [request EXCEPT ![c] = j]
      PROVE  LoaderInv'
  <2>1. lock_count = 0 /\ lock_count' = 1 /\ pc' = [pc EXCEPT ![c] = "locked"] /\ j \in Job
    BY <1>2 DEF loader_lock, LockTaken, Goto, Job
  <2>2. ~Occupied /\ ~CliAlone /\ Starters = {} /\ ActiveTasks = {}
    BY <2>1 DEF LoaderInv, LockCounts, Count, Occupied
  <2>3. Starters' = {c} /\ ActiveTasks' = {} /\ Occupied'
    <3>1. Starters' = Starters \cup {c} /\ ActiveTasks' = ActiveTasks
      BY <2>1, <1>t, <1>u DEF Starters, ActiveTasks, TypeOK
    <3> QED BY <3>1, <2>2 DEF Occupied
  <2>4. (CliAlone' <=> CliAlone) /\ (CliAwake' <=> CliAwake) /\ (TaskAwake' <=> TaskAwake)
    BY <2>1, <1>t, <1>u DEF CliAlone, CliAwake, TaskAwake, TypeOK
  <2>5. NoAssertFails'
    BY <1>2, <2>1, <1>t, <1>u DEF NoAssertFails, TypeOK
  <2>6. OneUser'
    BY <2>3 DEF OneUser
  <2>7. ThreadConsistent'
    BY <1>2, <2>1, <2>2, <2>3, <1>t, <1>u DEF LoaderInv, ThreadConsistent, TypeOK
  <2>8. CliConsistent'
    BY <2>1, <1>t, <1>u DEF LoaderInv, CliConsistent, TypeOK
  <2>9. LockCounts'
    BY <2>1, <2>2, <2>3, <2>4 DEF LockCounts, Count
  <2>10. InsomniaCounts'
    BY <2>4, <1>u DEF LoaderInv, InsomniaCounts, Count
  <2> QED BY <2>5, <2>6, <2>7, <2>8, <2>9, <2>10 DEF LoaderInv
<1> QED
  BY <1>1, <1>2 DEF loader_start

\* loader_start_application finds the thread stopped and no old arguments.
LEMMA PreparePreserves ==
    ASSUME LoaderInv, NEW c \in Callers \cup {Cli}, loader_start_application(c)
    PROVE  LoaderInv'
<1> USE LoaderAssumption
<1>t. TypeOK /\ pc[c] = "locked" /\ c \in Starters
  BY DEF LoaderInv, NoAssertFails, loader_start_application, Starters
<1>s. Starters = {c} /\ ActiveTasks = {}
  BY <1>t, StarterIsOnly DEF LoaderInv
<1>1. application_arguments = NULL /\ thread_state = "Stopped" /\ request[c] \in Job
  BY <1>t DEF LoaderInv, ThreadConsistent
<1>2. /\ fault' = NULL
      /\ application_arguments' = request[c].arguments
      /\ thread_job' = request[c]
      /\ pc' = [pc EXCEPT ![c] = "prepared"]
      /\ UNCHANGED <<lock_count, thread_state, insomnia, request, flags, task, wanted,
                     running>>
  BY <1>1 DEF loader_start_application, Assert, Goto, taskVars
<1>3. Starters' = {c} /\ ActiveTasks' = {} /\ Occupied' /\ Occupied
  <2>1. Starters' = Starters /\ ActiveTasks' = ActiveTasks
    BY <1>2, <1>t DEF Starters, ActiveTasks, TypeOK
  <2> QED BY <2>1, <1>s DEF Occupied
<1>4. (CliAlone' <=> CliAlone) /\ (CliAwake' <=> CliAwake) /\ (TaskAwake' <=> TaskAwake)
  BY <1>2, <1>t DEF CliAlone, CliAwake, TaskAwake, TypeOK
<1>5. NoAssertFails'
  BY <1>1, <1>2, <1>t DEF NoAssertFails, TypeOK, Job
<1>6. OneUser'
  BY <1>3 DEF OneUser
<1>7. ThreadConsistent'
  BY <1>1, <1>2, <1>3, <1>t DEF ThreadConsistent, TypeOK
<1>8. CliConsistent'
  BY <1>2, <1>t DEF LoaderInv, CliConsistent, TypeOK
<1>9. LockCounts'
  <2>1. ~(pc'[Cli] = "executing" /\ CliAlone')
    BY <1>2, <1>3, <1>4, <1>t DEF LoaderInv, LockCounts, TypeOK
  <2> QED BY <2>1, <1>2, <1>3, <1>4 DEF LoaderInv, LockCounts, Count
<1>10. InsomniaCounts'
  BY <1>2, <1>4 DEF LoaderInv, InsomniaCounts, Count
<1> QED
  BY <1>5, <1>6, <1>7, <1>8, <1>9, <1>10 DEF LoaderInv

\* furi_thread_start hands the thread over to a new task.
LEMMA ThreadStartPreserves ==
    ASSUME LoaderInv, NEW c \in Callers \cup {Cli}, furi_thread_start(c)
    PROVE  LoaderInv'
<1> USE LoaderAssumption
<1>t. TypeOK /\ pc[c] = "prepared" /\ c \in Starters
  BY DEF LoaderInv, NoAssertFails, furi_thread_start, Starters
<1>s. Starters = {c} /\ ActiveTasks = {}
  BY <1>t, StarterIsOnly DEF LoaderInv
<1>1. /\ thread_state = "Stopped" /\ request[c] \in Job
      /\ application_arguments = request[c].arguments /\ thread_job = request[c]
  BY <1>t DEF LoaderInv, ThreadConsistent
<1> PICK k \in Tasks :
        /\ task[k] = "none"
        /\ TaskGoto(k, "created")
        /\ wanted' = [wanted EXCEPT ![k] = request[c]]
  BY DEF furi_thread_start
<1>2. /\ fault' = NULL
      /\ thread_state' = "Starting"
      /\ task' = [task EXCEPT ![k] = "created"]
      /\ wanted' = [wanted EXCEPT ![k] = request[c]]
      /\ pc' = [pc EXCEPT ![c] = IF c = Cli THEN "opened" ELSE "idle"]
      /\ request' = [request EXCEPT ![c] = NULL]
      /\ UNCHANGED <<lock_count, application_arguments, thread_job, insomnia, flags, running>>
  BY <1>1 DEF furi_thread_start, Assert, Goto, TaskGoto
<1>3. Starters' = {} /\ ActiveTasks' = {k} /\ Occupied' /\ Occupied
  <2>1. Starters' = {}
    <3>1. \A d \in Callers \cup {Cli} : pc'[d] \in {"locked", "prepared"} => d # c /\ d \in Starters
      BY <1>2, <1>t DEF Starters, TypeOK
    <3> QED BY <3>1, <1>s DEF Starters
  <2>2. ActiveTasks' = ActiveTasks \cup {k}
    BY <1>2, <1>t DEF ActiveTasks, Holding, TypeOK
  <2> QED BY <2>1, <2>2, <1>s DEF Occupied
<1>4. (CliAlone' <=> CliAlone) /\ (CliAwake' <=> CliAwake) /\ (TaskAwake' <=> TaskAwake)
  <2>1. TaskAwake' <=> TaskAwake
    BY <1>2, <1>t DEF TaskAwake, TypeOK
  <2>2. CASE c = Cli
    BY <2>1, <2>2, <1>2, <1>t DEF CliAlone, CliAwake, TypeOK
  <2>3. CASE c # Cli
    BY <2>1, <2>3, <1>2, <1>t DEF CliAlone, CliAwake, TypeOK
  <2> QED BY <2>2, <2>3
<1>5. NoAssertFails'
  BY <1>1, <1>2, <1>t DEF NoAssertFails, TypeOK, TaskLabels
<1>6. OneUser'
  BY <1>3 DEF OneUser
<1>7. ThreadConsistent'
  BY <1>1, <1>2, <1>3, <1>t DEF ThreadConsistent, TypeOK
<1>8. CliConsistent'
  BY <1>2, <1>t DEF LoaderInv, CliConsistent, TypeOK
<1>9. LockCounts'
  <2>1. ~(pc'[Cli] = "executing" /\ CliAlone')
    BY <1>2, <1>3, <1>4, <1>t DEF LoaderInv, LockCounts, TypeOK
  <2> QED BY <2>1, <1>2, <1>3, <1>4 DEF LoaderInv, LockCounts, Count
<1>10. InsomniaCounts'
  BY <1>2, <1>4 DEF LoaderInv, InsomniaCounts, Count
<1> QED
  BY <1>5, <1>6, <1>7, <1>8, <1>9, <1>10 DEF LoaderInv

-----------------------------------------------------------------------------
(* The CLI *)

\* A step of the CLI that is not a start leaves the thread to its user.
LEMMA CliStepsBeside ==
    ASSUME LoaderInv, NEW l \in {"idle", "command", "executing", "executed", "leaving"},
           pc[Cli] \notin {"locked", "prepared"}, Goto(Cli, l),
           UNCHANGED <<threadVars, request, taskVars>>
    PROVE  /\ pc'[Cli] = l
           /\ pc' \in [Callers \cup {Cli} -> {"idle", "command", "executing", "locked",
                                              "prepared", "opened", "executed", "leaving"}]
           /\ \A c \in Callers : pc'[c] = pc[c]
           /\ Occupied' <=> Occupied
           /\ TaskAwake' <=> TaskAwake
           /\ OneUser'
           /\ ThreadConsistent'
<1> USE LoaderAssumption
<1>1. /\ TypeOK /\ pc' = [pc EXCEPT ![Cli] = l]
      /\ UNCHANGED <<application_arguments, thread_state, thread_job, request, task, wanted,
                     running>>
  BY DEF LoaderInv, NoAssertFails, Goto, threadVars, taskVars
<1>2. Starters' = Starters
  BY <1>1 DEF Starters, TypeOK
<1>3. ActiveTasks' = ActiveTasks
  BY <1>1 DEF ActiveTasks
<1>4. Occupied' <=> Occupied
  BY <1>2, <1>3 DEF Occupied
<1>5. TaskAwake' <=> TaskAwake
  BY <1>1 DEF TaskAwake
<1>6. OneUser'
  BY <1>2, <1>3 DEF LoaderInv, OneUser
<1>7. ThreadConsistent'
  <2>1. \A c \in Starters : pc'[c] = pc[c]
    BY <1>1 DEF Starters, TypeOK
  <2> QED BY <1>1, <1>2, <1>3, <1>4, <2>1 DEF LoaderInv, ThreadConsistent
<1>8. /\ pc'[Cli] = l
      /\ pc' \in [Callers \cup {Cli} -> {"idle", "command", "executing", "locked",
                                         "prepared", "opened", "executed", "leaving"}]
      /\ \A c \in Callers : pc'[c] = pc[c]
  BY <1>1 DEF TypeOK
<1> QED
  BY <1>4, <1>5, <1>6, <1>7, <1>8

\* A command begins.
LEMMA CliCommandPreserves ==
    ASSUME LoaderInv, NEW f \in CliFlags, cli_execute_command(f)
    PROVE  LoaderInv'
<1> USE LoaderAssumption
<1>t. /\ TypeOK /\ fault = NULL /\ pc[Cli] = "idle" /\ flags' = f /\ Goto(Cli, "command")
      /\ UNCHANGED <<threadVars, request, taskVars>> /\ UNCHANGED lock_count
  BY DEF LoaderInv, NoAssertFails, cli_execute_command
<1>g. /\ pc'[Cli] = "command"
      /\ \A c \in Callers : pc'[c] = pc[c]
      /\ Occupied' <=> Occupied
      /\ TaskAwake' <=> TaskAwake
      /\ OneUser'
      /\ ThreadConsistent'
  BY <1>t, CliStepsBeside
<1>1. ~CliAlone /\ ~CliAwake /\ ~CliAlone' /\ (CliAwake' <=> ~f.InsomniaSafe)
  BY <1>t, <1>g DEF CliAlone, CliAwake
<1>2. /\ insomnia' = Count(CliAwake') + Count(TaskAwake')
      /\ insomnia' \in 0 .. CountMax
      /\ fault' = NULL
  BY <1>t, <1>g, <1>1 DEF LoaderInv, InsomniaCounts, Count, cli_execute_command,
     furi_hal_power_insomnia_enter, Assert
<1>3. NoAssertFails'
  BY <1>t, <1>2, CliStepsBeside DEF NoAssertFails, TypeOK, threadVars, taskVars
<1>4. CliConsistent'
  BY <1>t, <1>g DEF LoaderInv, CliConsistent
<1>5. LockCounts'
  BY <1>t, <1>g, <1>1 DEF LoaderInv, LockCounts, Count
<1> QED
  BY <1>g, <1>2, <1>3, <1>4, <1>5 DEF LoaderInv, InsomniaCounts

\* An exclusive command gets the lock only while nobody uses the thread.
LEMMA CliLockPreserves ==
    ASSUME LoaderInv, CliLock
    PROVE  LoaderInv'
<1> USE LoaderAssumption
<1>t. /\ TypeOK /\ fault = NULL /\ pc[Cli] = "command"
      /\ UNCHANGED <<threadVars, request, taskVars>> /\ UNCHANGED <<insomnia, flags, fault>>
  BY DEF LoaderInv, NoAssertFails, CliLock
<1>f. flags \in CliFlags /\ ~CliAlone
  BY <1>t DEF LoaderInv, CliConsistent, CliAlone
<1>1. PICK l \in {"executing", "leaving"} :
        /\ Goto(Cli, l)
        /\ \/ l = "executing" /\ flags.ParallelSafe /\ UNCHANGED lock_count
           \/ l = "executing" /\ ~flags.ParallelSafe /\ loader_lock
           \/ l = "leaving" /\ UNCHANGED lock_count
  BY DEF CliLock, LockRefused
<1>g. /\ pc'[Cli] = l
      /\ \A c \in Callers : pc'[c] = pc[c]
      /\ Occupied' <=> Occupied
      /\ TaskAwake' <=> TaskAwake
      /\ OneUser'
      /\ ThreadConsistent'
  BY <1>t, <1>1, CliStepsBeside
<1>2. (CliAwake' <=> CliAwake) /\ (CliAlone' <=> l = "executing" /\ ~flags.ParallelSafe)
  BY <1>t, <1>1, <1>g DEF CliAlone, CliAwake
<1>3. LockCounts' /\ lock_count' \in 0 .. CountMax
  BY <1>t, <1>f, <1>1, <1>2, <1>g
     DEF LoaderInv, LockCounts, Count, loader_lock, LockTaken
<1>4. NoAssertFails'
  BY <1>t, <1>1, <1>3, CliStepsBeside DEF NoAssertFails, TypeOK, threadVars, taskVars
<1>5. CliConsistent'
  BY <1>t, <1>f, <1>g DEF LoaderInv, CliConsistent
<1>6. InsomniaCounts'
  BY <1>t, <1>2, <1>g DEF LoaderInv, InsomniaCounts, Count
<1> QED
  BY <1>g, <1>3, <1>4, <1>5, <1>6 DEF LoaderInv

\* loader open starts its application with the lock the command has.
LEMMA CliOpenPreserves ==
    ASSUME LoaderInv, loader_cli_open
    PROVE  LoaderInv'
<1> USE LoaderAssumption
<1>t. /\ TypeOK /\ fault = NULL /\ pc[Cli] = "executing" /\ pc' = [pc EXCEPT ![Cli] = "locked"]
      /\ flags = [ParallelSafe |-> FALSE, InsomniaSafe |-> FALSE]
      /\ UNCHANGED <<lock_count, application_arguments, thread_state, thread_job, insomnia,
                     flags, task, wanted, running, fault>>
  BY DEF LoaderInv, NoAssertFails, loader_cli_open, Goto, threadVars, taskVars
<1>1. PICK j \in Job : request' = [request EXCEPT ![Cli] = j]
  BY DEF loader_cli_open, Job
<1>2. CliAlone /\ ~CliAlone' /\ ~Occupied /\ Starters = {} /\ ActiveTasks = {}
  BY <1>t DEF CliAlone, LoaderInv, LockCounts, Occupied, TypeOK
<1>3. Starters' = {Cli} /\ ActiveTasks' = {} /\ Occupied'
  <2>1. Starters' = Starters \cup {Cli} /\ ActiveTasks' = ActiveTasks
    BY <1>t DEF Starters, ActiveTasks, TypeOK
  <2> QED BY <2>1, <1>2 DEF Occupied
<1>4. (CliAwake' <=> CliAwake) /\ (TaskAwake' <=> TaskAwake)
  BY <1>t DEF CliAwake, TaskAwake, TypeOK
<1>5. NoAssertFails'
  BY <1>t, <1>1 DEF NoAssertFails, TypeOK
<1>6. OneUser'
  BY <1>3 DEF OneUser
<1>7. ThreadConsistent'
  BY <1>1, <1>2, <1>3, <1>t DEF LoaderInv, ThreadConsistent, TypeOK
<1>8. CliConsistent'
  BY <1>t DEF LoaderInv, CliConsistent, TypeOK
<1>9. LockCounts'
  BY <1>2, <1>3, <1>t DEF LoaderInv, LockCounts, Count
<1>10. InsomniaCounts'
  BY <1>4, <1>t DEF LoaderInv, InsomniaCounts, Count
<1> QED
  BY <1>5, <1>6, <1>7, <1>8, <1>9, <1>10 DEF LoaderInv

\* loader open counts for itself: the lock it had belongs to the application.
LEMMA CliBalancePreserves ==
    ASSUME LoaderInv, CliBalance
    PROVE  LoaderInv'
<1> USE LoaderAssumption
<1>t. /\ TypeOK /\ fault = NULL /\ pc[Cli] = "opened" /\ Goto(Cli, "executed")
      /\ lock_count' = lock_count + 1
      /\ UNCHANGED <<threadVars, request, taskVars>> /\ UNCHANGED <<insomnia, flags, fault>>
  BY DEF LoaderInv, NoAssertFails, CliBalance, LockTaken
<1>f. flags \in CliFlags /\ ~flags.ParallelSafe /\ ~flags.InsomniaSafe /\ ~CliAlone
  BY <1>t DEF LoaderInv, CliConsistent, CliAlone
<1>g. /\ pc'[Cli] = "executed"
      /\ \A c \in Callers : pc'[c] = pc[c]
      /\ Occupied' <=> Occupied
      /\ TaskAwake' <=> TaskAwake
      /\ OneUser'
      /\ ThreadConsistent'
  BY <1>t, CliStepsBeside
<1>2. (CliAwake' <=> CliAwake) /\ CliAlone'
  BY <1>t, <1>f, <1>g DEF CliAlone, CliAwake
<1>3. LockCounts' /\ lock_count' \in 0 .. CountMax
  BY <1>t, <1>f, <1>2, <1>g DEF LoaderInv, LockCounts, Count
<1>4. NoAssertFails'
  BY <1>t, <1>3, CliStepsBeside DEF NoAssertFails, TypeOK, threadVars, taskVars
<1>5. CliConsistent'
  BY <1>t, <1>f, <1>g DEF LoaderInv, CliConsistent
<1>6. InsomniaCounts'
  BY <1>t, <1>2, <1>g DEF LoaderInv, InsomniaCounts, Count
<1> QED
  BY <1>g, <1>3, <1>4, <1>5, <1>6 DEF LoaderInv

\* A command returns ...
LEMMA CliReturnsPreserves ==
    ASSUME LoaderInv, CliCommandReturns
    PROVE  LoaderInv'
<1> USE LoaderAssumption
<1>t. /\ TypeOK /\ fault = NULL /\ pc[Cli] = "executing" /\ Goto(Cli, "executed")
      /\ UNCHANGED <<threadVars, request, taskVars>>
      /\ UNCHANGED <<lock_count, insomnia, flags, fault>>
  BY DEF LoaderInv, NoAssertFails, CliCommandReturns
<1>g. /\ pc'[Cli] = "executed"
      /\ \A c \in Callers : pc'[c] = pc[c]
      /\ Occupied' <=> Occupied
      /\ TaskAwake' <=> TaskAwake
      /\ OneUser'
      /\ ThreadConsistent'
  BY <1>t, CliStepsBeside
<1>2. (CliAwake' <=> CliAwake) /\ (CliAlone' <=> CliAlone)
  BY <1>t, <1>g DEF CliAlone, CliAwake
<1>3. LockCounts'
  BY <1>t, <1>2, <1>g DEF LoaderInv, LockCounts, Count
<1>4. NoAssertFails'
  BY <1>t, CliStepsBeside DEF NoAssertFails, TypeOK, threadVars, taskVars
<1>5. CliConsistent'
  BY <1>t, <1>g DEF LoaderInv, CliConsistent
<1>6. InsomniaCounts'
  BY <1>t, <1>2, <1>g DEF LoaderInv, InsomniaCounts, Count
<1> QED
  BY <1>g, <1>3, <1>4, <1>5, <1>6 DEF LoaderInv

\* ... gives the lock back, if it was exclusive ...
LEMMA CliUnlockPreserves ==
    ASSUME LoaderInv, CliUnlock
    PROVE  LoaderInv'
<1> USE LoaderAssumption
<1>t. /\ TypeOK /\ fault = NULL /\ pc[Cli] = "executed" /\ Goto(Cli, "leaving")
      /\ UNCHANGED <<threadVars, request, taskVars>> /\ UNCHANGED <<insomnia, flags, fault>>
  BY DEF LoaderInv, NoAssertFails, CliUnlock
<1>f. flags \in CliFlags /\ (CliAlone <=> ~flags.ParallelSafe)
  BY <1>t DEF LoaderInv, CliConsistent, CliAlone
<1>g. /\ pc'[Cli] = "leaving"
      /\ \A c \in Callers : pc'[c] = pc[c]
      /\ Occupied' <=> Occupied
      /\ TaskAwake' <=> TaskAwake
      /\ OneUser'
      /\ ThreadConsistent'
  BY <1>t, CliStepsBeside
<1>2. (CliAwake' <=> CliAwake) /\ ~CliAlone'
  BY <1>t, <1>g DEF CliAlone, CliAwake
<1>3. LockCounts' /\ lock_count' \in 0 .. CountMax
  <2>1. CASE flags.ParallelSafe
    BY <2>1, <1>f, <1>2, <1>g DEF LoaderInv, LockCounts, Count, CliUnlock
  <2>2. CASE ~flags.ParallelSafe
    BY <2>2, <1>f, <1>2, <1>g DEF LoaderInv, LockCounts, Count, CliUnlock, loader_unlock
  <2> QED BY <2>1, <2>2
<1>4. NoAssertFails'
  BY <1>t, <1>3, CliStepsBeside DEF NoAssertFails, TypeOK, threadVars, taskVars
<1>5. CliConsistent'
  BY <1>t, <1>f, <1>g DEF LoaderInv, CliConsistent
<1>6. InsomniaCounts'
  BY <1>t, <1>2, <1>g DEF LoaderInv, InsomniaCounts, Count
<1> QED
  BY <1>g, <1>3, <1>4, <1>5, <1>6 DEF LoaderInv

\* ... and lets the device sleep.
LEMMA CliLeavePreserves ==
    ASSUME LoaderInv, CliLeave
    PROVE  LoaderInv'
<1> USE LoaderAssumption
<1>t. /\ TypeOK /\ fault = NULL /\ pc[Cli] = "leaving" /\ Goto(Cli, "idle") /\ flags' = NULL
      /\ UNCHANGED <<threadVars, request, taskVars>> /\ UNCHANGED lock_count
  BY DEF LoaderInv, NoAssertFails, CliLeave
<1>g. /\ pc'[Cli] = "idle"
      /\ \A c \in Callers : pc'[c] = pc[c]
      /\ Occupied' <=> Occupied
      /\ TaskAwake' <=> TaskAwake
      /\ OneUser'
      /\ ThreadConsistent'
  BY <1>t, CliStepsBeside
<1>1. ~CliAlone /\ ~CliAlone' /\ ~CliAwake' /\ (CliAwake <=> ~flags.InsomniaSafe)
  BY <1>t, <1>g DEF CliAlone, CliAwake
<1>2. /\ insomnia' = Count(CliAwake') + Count(TaskAwake')
      /\ insomnia' \in 0 .. CountMax
      /\ fault' = NULL
  BY <1>t, <1>g, <1>1 DEF LoaderInv, InsomniaCounts, Count, CliLeave,
     furi_hal_power_insomnia_exit, Assert
<1>3. NoAssertFails'
  BY <1>t, <1>2, CliStepsBeside DEF NoAssertFails, TypeOK, threadVars, taskVars
<1>4. CliConsistent'
  BY <1>t, <1>g DEF LoaderInv, CliConsistent
<1>5. LockCounts'
  BY <1>t, <1>g, <1>1 DEF LoaderInv, LockCounts, Count
<1> QED
  BY <1>g, <1>2, <1>3, <1>4, <1>5 DEF LoaderInv, InsomniaCounts

-----------------------------------------------------------------------------
(* The application's task *)

\* A task that has not unlocked yet goes on alone with the thread.
LEMMA TaskMovesAlone ==
    ASSUME LoaderInv, NEW k \in Tasks, NEW from \in Holding, NEW to \in Holding,
           Move(k, from, to)
    PROVE  /\ task[k] = from /\ task'[k] = to
           /\ task' \in [Tasks -> TaskLabels]
           /\ k \in ActiveTasks /\ Starters' = {} /\ ActiveTasks' = {k}
           /\ Occupied /\ Occupied' /\ OneUser' /\ CliConsistent'
           /\ CliAlone' <=> CliAlone
           /\ CliAwake' <=> CliAwake
           /\ TaskAwake <=> from \in {"run", "stopped", "freed"}
           /\ TaskAwake' <=> to \in {"run", "stopped", "freed"}
           /\ UNCHANGED <<pc, request, flags, thread_job, wanted>>
<1>t. /\ TypeOK /\ task[k] = from /\ task' = [task EXCEPT ![k] = to]
      /\ UNCHANGED <<pc, request, flags, thread_job, wanted>>
  BY DEF LoaderInv, NoAssertFails, Move, TaskGoto, callVars
<1>1. k \in ActiveTasks /\ Starters = {} /\ ActiveTasks = {k}
  BY <1>t, TaskIsOnly DEF LoaderInv, ActiveTasks
<1>2. task'[k] = to /\ task' \in [Tasks -> TaskLabels]
      /\ \A l \in Tasks \ {k} : task'[l] = task[l] /\ task[l] \notin Holding
  BY <1>t, <1>1 DEF TypeOK, TaskLabels, Holding, ActiveTasks
<1>3. Starters' = {} /\ ActiveTasks' = {k}
  BY <1>t, <1>1, <1>2 DEF Starters, ActiveTasks
<1>4. Occupied /\ Occupied' /\ OneUser'
  BY <1>1, <1>3 DEF Occupied, OneUser
<1>5. CliConsistent' /\ (CliAlone' <=> CliAlone) /\ (CliAwake' <=> CliAwake)
  BY <1>t DEF LoaderInv, CliConsistent, CliAlone, CliAwake
<1>6. /\ TaskAwake <=> from \in {"run", "stopped", "freed"}
      /\ TaskAwake' <=> to \in {"run", "stopped", "freed"}
  BY <1>t, <1>2 DEF TaskAwake, Holding
<1> QED
  BY <1>t, <1>1, <1>2, <1>3, <1>4, <1>5, <1>6

\* What ThreadConsistent says of the task that has the thread.
TaskConsistent(k) ==
    /\ task[k] = "created" => thread_state = "Starting"
    /\ task[k] \in {"start event", "starting", "started", "run"} => thread_state = "Running"
    /\ task[k] \in {"stopped", "freed", "rested"} => thread_state = "Stopped"
    /\ wanted[k] \in Job
    /\ application_arguments = IF task[k] \in {"freed", "rested"} THEN NULL
                               ELSE wanted[k].arguments
    /\ task[k] \in {"created", "start event", "starting", "started", "run"} =>
          thread_job = wanted[k]
    /\ task[k] = "run" => running[k] = wanted[k]

\* The task finds the thread Starting.
LEMMA BodyPreserves ==
    ASSUME LoaderInv, NEW k \in Tasks, furi_thread_body(k)
    PROVE  LoaderInv'
<1> USE LoaderAssumption
<1>t. TypeOK /\ fault = NULL /\ Move(k, "created", "start event")
      /\ UNCHANGED <<lock_count, application_arguments, insomnia, running>>
  BY DEF LoaderInv, NoAssertFails, furi_thread_body
<1>m. /\ task[k] = "created" /\ task'[k] = "start event" /\ task' \in [Tasks -> TaskLabels]
      /\ k \in ActiveTasks /\ Starters' = {} /\ ActiveTasks' = {k}
      /\ Occupied /\ Occupied' /\ OneUser' /\ CliConsistent'
      /\ (CliAlone' <=> CliAlone) /\ (CliAwake' <=> CliAwake)
      /\ ~TaskAwake /\ ~TaskAwake'
      /\ UNCHANGED <<pc, request, flags, thread_job, wanted>>
  BY <1>t, TaskMovesAlone DEF Holding
<1>1. thread_state = "Starting"
  BY <1>m DEF LoaderInv, ThreadConsistent
<1>2. thread_state' = "Running" /\ fault' = NULL
  BY <1>1 DEF furi_thread_body, Assert
<1>3. NoAssertFails'
  BY <1>t, <1>m, <1>2 DEF NoAssertFails, TypeOK, Job
<1>4. ThreadConsistent'
  <2>1. TaskConsistent(k)
    BY <1>m DEF LoaderInv, ThreadConsistent, TaskConsistent
  <2>2. TaskConsistent(k)'
    BY <1>t, <1>m, <1>2, <2>1 DEF TaskConsistent, TypeOK
  <2> QED BY <1>m, <2>2 DEF ThreadConsistent, TaskConsistent
<1>5. LockCounts'
  BY <1>t, <1>m DEF LoaderInv, LockCounts, Count
<1>6. InsomniaCounts'
  BY <1>t, <1>m, <1>2 DEF LoaderInv, InsomniaCounts, Count
<1> QED
  BY <1>m, <1>3, <1>4, <1>5, <1>6 DEF LoaderInv

\* The start is published ...
LEMMA PublishStartedPreserves ==
    ASSUME LoaderInv, NEW k \in Tasks, PublishStarted(k)
    PROVE  LoaderInv'
<1> USE LoaderAssumption
<1>t. TypeOK /\ fault = NULL /\ Move(k, "start event", "starting")
      /\ UNCHANGED <<lock_count, application_arguments, thread_state, insomnia, running, fault>>
  BY DEF LoaderInv, NoAssertFails, PublishStarted
<1>m. /\ task[k] = "start event" /\ task'[k] = "starting" /\ task' \in [Tasks -> TaskLabels]
      /\ k \in ActiveTasks /\ Starters' = {} /\ ActiveTasks' = {k}
      /\ Occupied /\ Occupied' /\ OneUser' /\ CliConsistent'
      /\ (CliAlone' <=> CliAlone) /\ (CliAwake' <=> CliAwake)
      /\ ~TaskAwake /\ ~TaskAwake'
      /\ UNCHANGED <<pc, request, flags, thread_job, wanted>>
  BY <1>t, TaskMovesAlone DEF Holding
<1>3. NoAssertFails'
  BY <1>t, <1>m DEF NoAssertFails, TypeOK, Job
<1>4. ThreadConsistent'
  <2>1. TaskConsistent(k)
    BY <1>m DEF LoaderInv, ThreadConsistent, TaskConsistent
  <2>2. TaskConsistent(k)'
    BY <1>t, <1>m, <2>1 DEF TaskConsistent, TypeOK
  <2> QED BY <1>m, <2>2 DEF ThreadConsistent, TaskConsistent
<1>5. LockCounts'
  BY <1>t, <1>m DEF LoaderInv, LockCounts, Count
<1>6. InsomniaCounts'
  BY <1>t, <1>m DEF LoaderInv, InsomniaCounts, Count
<1> QED
  BY <1>m, <1>3, <1>4, <1>5, <1>6 DEF LoaderInv

\* ... and its subscribers return.
LEMMA StartedPublishedPreserves ==
    ASSUME LoaderInv, NEW k \in Tasks, StartedPublished(k)
    PROVE  LoaderInv'
<1> USE LoaderAssumption
<1>t. TypeOK /\ fault = NULL /\ Move(k, "starting", "started")
      /\ UNCHANGED <<lock_count, application_arguments, thread_state, insomnia, running, fault>>
  BY DEF LoaderInv, NoAssertFails, StartedPublished
<1>m. /\ task[k] = "starting" /\ task'[k] = "started" /\ task' \in [Tasks -> TaskLabels]
      /\ k \in ActiveTasks /\ Starters' = {} /\ ActiveTasks' = {k}
      /\ Occupied /\ Occupied' /\ OneUser' /\ CliConsistent'
      /\ (CliAlone' <=> CliAlone) /\ (CliAwake' <=> CliAwake)
      /\ ~TaskAwake /\ ~TaskAwake'
      /\ UNCHANGED <<pc, request, flags, thread_job, wanted>>
  BY <1>t, TaskMovesAlone DEF Holding
<1>3. NoAssertFails'
  BY <1>t, <1>m DEF NoAssertFails, TypeOK, Job
<1>4. ThreadConsistent'
  <2>1. TaskConsistent(k)
    BY <1>m DEF LoaderInv, ThreadConsistent, TaskConsistent
  <2>2. TaskConsistent(k)'
    BY <1>t, <1>m, <2>1 DEF TaskConsistent, TypeOK
  <2> QED BY <1>m, <2>2 DEF ThreadConsistent, TaskConsistent
<1>5. LockCounts'
  BY <1>t, <1>m DEF LoaderInv, LockCounts, Count
<1>6. InsomniaCounts'
  BY <1>t, <1>m DEF LoaderInv, InsomniaCounts, Count
<1> QED
  BY <1>m, <1>3, <1>4, <1>5, <1>6 DEF LoaderInv

\* The application runs with the job of its own starter.
LEMMA RunPreserves ==
    ASSUME LoaderInv, NEW k \in Tasks, RunApplication(k)
    PROVE  LoaderInv'
<1> USE LoaderAssumption
<1>t. TypeOK /\ fault = NULL /\ Move(k, "started", "run")
      /\ UNCHANGED <<lock_count, application_arguments, thread_state>>
  BY DEF LoaderInv, NoAssertFails, RunApplication
<1>m. /\ task[k] = "started" /\ task'[k] = "run" /\ task' \in [Tasks -> TaskLabels]
      /\ k \in ActiveTasks /\ Starters' = {} /\ ActiveTasks' = {k}
      /\ Occupied /\ Occupied' /\ OneUser' /\ CliConsistent'
      /\ (CliAlone' <=> CliAlone) /\ (CliAwake' <=> CliAwake)
      /\ ~TaskAwake /\ TaskAwake'
      /\ UNCHANGED <<pc, request, flags, thread_job, wanted>>
  BY <1>t, TaskMovesAlone DEF Holding
<1>1. insomnia < CountMax
  BY <1>t, <1>m DEF LoaderInv, InsomniaCounts, Count
<1>2. /\ insomnia' = insomnia + 1 /\ fault' = NULL /\ insomnia' \in 0 .. CountMax
      /\ running' = [running EXCEPT ![k] = thread_job]
  BY <1>1, <1>t DEF RunApplication, furi_hal_power_insomnia_enter, Assert, TypeOK
<1>3. NoAssertFails'
  BY <1>t, <1>m, <1>2 DEF NoAssertFails, TypeOK, Job
<1>4. ThreadConsistent'
  <2>1. TaskConsistent(k)
    BY <1>m DEF LoaderInv, ThreadConsistent, TaskConsistent
  <2>2. TaskConsistent(k)'
    BY <1>t, <1>m, <1>2, <2>1 DEF TaskConsistent, TypeOK
  <2> QED BY <1>m, <2>2 DEF ThreadConsistent, TaskConsistent
<1>5. LockCounts'
  BY <1>t, <1>m DEF LoaderInv, LockCounts, Count
<1>6. InsomniaCounts'
  BY <1>t, <1>m, <1>2 DEF LoaderInv, InsomniaCounts, Count
<1> QED
  BY <1>m, <1>3, <1>4, <1>5, <1>6 DEF LoaderInv

\* It returns.
LEMMA ReturnsPreserves ==
    ASSUME LoaderInv, NEW k \in Tasks, ApplicationReturns(k)
    PROVE  LoaderInv'
<1> USE LoaderAssumption
<1>t. TypeOK /\ fault = NULL /\ Move(k, "run", "stopped")
      /\ UNCHANGED <<lock_count, application_arguments, insomnia>>
  BY DEF LoaderInv, NoAssertFails, ApplicationReturns
<1>m. /\ task[k] = "run" /\ task'[k] = "stopped" /\ task' \in [Tasks -> TaskLabels]
      /\ k \in ActiveTasks /\ Starters' = {} /\ ActiveTasks' = {k}
      /\ Occupied /\ Occupied' /\ OneUser' /\ CliConsistent'
      /\ (CliAlone' <=> CliAlone) /\ (CliAwake' <=> CliAwake)
      /\ TaskAwake /\ TaskAwake'
      /\ UNCHANGED <<pc, request, flags, thread_job, wanted>>
  BY <1>t, TaskMovesAlone DEF Holding
<1>1. thread_state = "Running"
  BY <1>m DEF LoaderInv, ThreadConsistent
<1>2. thread_state' = "Stopped" /\ fault' = NULL /\ running' = [running EXCEPT ![k] = NULL]
  BY <1>1 DEF ApplicationReturns, Assert
<1>3. NoAssertFails'
  BY <1>t, <1>m, <1>2 DEF NoAssertFails, TypeOK, Job
<1>4. ThreadConsistent'
  <2>1. TaskConsistent(k)
    BY <1>m DEF LoaderInv, ThreadConsistent, TaskConsistent
  <2>2. TaskConsistent(k)'
    BY <1>t, <1>m, <1>2, <2>1 DEF TaskConsistent, TypeOK
  <2> QED BY <1>m, <2>2 DEF ThreadConsistent, TaskConsistent
<1>5. LockCounts'
  BY <1>t, <1>m DEF LoaderInv, LockCounts, Count
<1>6. InsomniaCounts'
  BY <1>t, <1>m, <1>2 DEF LoaderInv, InsomniaCounts, Count
<1> QED
  BY <1>m, <1>3, <1>4, <1>5, <1>6 DEF LoaderInv

\* Its arguments are freed.
LEMMA FreeArgumentsPreserves ==
    ASSUME LoaderInv, NEW k \in Tasks, FreeArguments(k)
    PROVE  LoaderInv'
<1> USE LoaderAssumption
<1>t. TypeOK /\ fault = NULL /\ Move(k, "stopped", "freed")
      /\ UNCHANGED <<lock_count, thread_state, insomnia, running, fault>>
  BY DEF LoaderInv, NoAssertFails, FreeArguments
<1>m. /\ task[k] = "stopped" /\ task'[k] = "freed" /\ task' \in [Tasks -> TaskLabels]
      /\ k \in ActiveTasks /\ Starters' = {} /\ ActiveTasks' = {k}
      /\ Occupied /\ Occupied' /\ OneUser' /\ CliConsistent'
      /\ (CliAlone' <=> CliAlone) /\ (CliAwake' <=> CliAwake)
      /\ TaskAwake /\ TaskAwake'
      /\ UNCHANGED <<pc, request, flags, thread_job, wanted>>
  BY <1>t, TaskMovesAlone DEF Holding
<1>2. application_arguments' = NULL
  BY DEF FreeArguments
<1>3. NoAssertFails'
  BY <1>t, <1>m, <1>2 DEF NoAssertFails, TypeOK, Job
<1>4. ThreadConsistent'
  <2>1. TaskConsistent(k)
    BY <1>m DEF LoaderInv, ThreadConsistent, TaskConsistent
  <2>2. TaskConsistent(k)'
    BY <1>t, <1>m, <1>2, <2>1 DEF TaskConsistent, TypeOK
  <2> QED BY <1>m, <2>2 DEF ThreadConsistent, TaskConsistent
<1>5. LockCounts'
  BY <1>t, <1>m DEF LoaderInv, LockCounts, Count
<1>6. InsomniaCounts'
  BY <1>t, <1>m, <1>2 DEF LoaderInv, InsomniaCounts, Count
<1> QED
  BY <1>m, <1>3, <1>4, <1>5, <1>6 DEF LoaderInv

\* The device may sleep again.
LEMMA RestPreserves ==
    ASSUME LoaderInv, NEW k \in Tasks, Rest(k)
    PROVE  LoaderInv'
<1> USE LoaderAssumption
<1>t. TypeOK /\ fault = NULL /\ Move(k, "freed", "rested")
      /\ UNCHANGED <<lock_count, application_arguments, thread_state, running>>
  BY DEF LoaderInv, NoAssertFails, Rest
<1>m. /\ task[k] = "freed" /\ task'[k] = "rested" /\ task' \in [Tasks -> TaskLabels]
      /\ k \in ActiveTasks /\ Starters' = {} /\ ActiveTasks' = {k}
      /\ Occupied /\ Occupied' /\ OneUser' /\ CliConsistent'
      /\ (CliAlone' <=> CliAlone) /\ (CliAwake' <=> CliAwake)
      /\ TaskAwake /\ ~TaskAwake'
      /\ UNCHANGED <<pc, request, flags, thread_job, wanted>>
  BY <1>t, TaskMovesAlone DEF Holding
<1>1. insomnia > 0
  BY <1>t, <1>m DEF LoaderInv, InsomniaCounts, Count
<1>2. insomnia' = insomnia - 1 /\ fault' = NULL /\ insomnia' \in 0 .. CountMax
  BY <1>1, <1>t DEF Rest, furi_hal_power_insomnia_exit, Assert, TypeOK
<1>3. NoAssertFails'
  BY <1>t, <1>m, <1>2 DEF NoAssertFails, TypeOK, Job
<1>4. ThreadConsistent'
  <2>1. TaskConsistent(k)
    BY <1>m DEF LoaderInv, ThreadConsistent, TaskConsistent
  <2>2. TaskConsistent(k)'
    BY <1>t, <1>m, <1>2, <2>1 DEF TaskConsistent, TypeOK
  <2> QED BY <1>m, <2>2 DEF ThreadConsistent, TaskConsistent
<1>5. LockCounts'
  BY <1>t, <1>m DEF LoaderInv, LockCounts, Count
<1>6. InsomniaCounts'
  BY <1>t, <1>m, <1>2 DEF LoaderInv, InsomniaCounts, Count
<1> QED
  BY <1>m, <1>3, <1>4, <1>5, <1>6 DEF LoaderInv

\* The unlock leaves nothing of the application to the next user.
LEMMA UnlockPreserves ==
    ASSUME LoaderInv, NEW k \in Tasks, Unlock(k)
    PROVE  LoaderInv'
<1> USE LoaderAssumption
<1>t. /\ TypeOK /\ fault = NULL /\ task[k] = "rested" /\ task' = [task EXCEPT ![k] = "stop event"]
      /\ UNCHANGED <<pc, request, flags, thread_job, wanted, application_arguments,
                     thread_state, insomnia, running, fault>>
  BY DEF LoaderInv, NoAssertFails, Unlock, Move, TaskGoto, callVars
<1>1. k \in ActiveTasks /\ Starters = {} /\ ActiveTasks = {k} /\ Occupied
  BY <1>t, TaskIsOnly DEF LoaderInv, ActiveTasks, Holding, Occupied
<1>2. Starters' = {} /\ ActiveTasks' = {} /\ ~Occupied'
  <2>1. Starters' = {}
    BY <1>t, <1>1 DEF Starters
  <2>2. \A l \in Tasks : task'[l] \in Holding => l # k /\ l \in ActiveTasks
    BY <1>t DEF TypeOK, Holding, ActiveTasks
  <2>3. ActiveTasks' = {}
    BY <2>2, <1>1 DEF ActiveTasks
  <2> QED BY <2>1, <2>3 DEF Occupied
<1>3. lock_count' = Count(CliAlone) /\ lock_count' \in 0 .. CountMax
  <2>1. lock_count = 1 + Count(CliAlone) /\ Count(CliAlone) \in {0, 1}
    BY <1>1 DEF LoaderInv, LockCounts, Count
  <2>2. lock_count' = IF lock_count > 0 THEN lock_count - 1 ELSE 0
    BY DEF Unlock, loader_unlock
  <2>3. PICK n \in {0, 1} : n = Count(CliAlone)
    BY <2>1
  <2>4. lock_count' = n
    BY <2>1, <2>2, <2>3
  <2> QED BY <2>3, <2>4
<1>4. (CliAlone' <=> CliAlone) /\ (CliAwake' <=> CliAwake) /\ (TaskAwake' <=> TaskAwake)
  BY <1>t DEF CliAlone, CliAwake, TaskAwake, TypeOK
<1>5. NoAssertFails'
  BY <1>t, <1>3 DEF NoAssertFails, TypeOK, TaskLabels
<1>6. OneUser'
  BY <1>2 DEF OneUser
<1>7. ThreadConsistent'
  BY <1>t, <1>1, <1>2 DEF LoaderInv, ThreadConsistent
<1>8. CliConsistent'
  BY <1>t DEF LoaderInv, CliConsistent
<1>9. LockCounts'
  BY <1>2, <1>3, <1>4 DEF LockCounts, Count
<1>10. InsomniaCounts'
  BY <1>t, <1>4 DEF LoaderInv, InsomniaCounts, Count
<1> QED
  BY <1>5, <1>6, <1>7, <1>8, <1>9, <1>10 DEF LoaderInv

\* What a task does after its unlock concerns nobody who uses the thread.
LEMMA StopPreserves ==
    ASSUME LoaderInv, NEW k \in Tasks, PublishStopped(k) \/ osThreadExit(k)
    PROVE  LoaderInv'
<1> USE LoaderAssumption
<1>1. PICK l \in {"stopping", "none"} :
        /\ TypeOK /\ fault = NULL /\ task[k] \in {"stop event", "stopping"}
        /\ task' = [task EXCEPT ![k] = l]
        /\ UNCHANGED <<lock_count, application_arguments, thread_state, thread_job, insomnia,
                       pc, request, flags, running, fault>>
        /\ \/ UNCHANGED wanted
           \/ wanted' = [wanted EXCEPT ![k] = NULL]
  BY DEF LoaderInv, NoAssertFails, PublishStopped, osThreadExit, Move, TaskGoto, callVars,
     threadVars
<1>2. Starters' = Starters /\ ActiveTasks' = ActiveTasks /\ k \notin ActiveTasks
  BY <1>1 DEF Starters, ActiveTasks, Holding, TypeOK
<1>3. \A j \in ActiveTasks : task'[j] = task[j] /\ wanted'[j] = wanted[j]
  BY <1>1, <1>2 DEF ActiveTasks, TypeOK
<1>4. (CliAlone' <=> CliAlone) /\ (CliAwake' <=> CliAwake) /\ (TaskAwake' <=> TaskAwake)
  BY <1>1 DEF CliAlone, CliAwake, TaskAwake, TypeOK
<1>5. NoAssertFails'
  BY <1>1 DEF NoAssertFails, TypeOK, TaskLabels
<1>6. OneUser'
  BY <1>2 DEF LoaderInv, OneUser
<1>7. ThreadConsistent'
  BY <1>1, <1>2, <1>3 DEF LoaderInv, ThreadConsistent, Occupied
<1>8. CliConsistent'
  BY <1>1 DEF LoaderInv, CliConsistent
<1>9. LockCounts'
  BY <1>1, <1>2, <1>4 DEF LoaderInv, LockCounts, Occupied, Count
<1>10. InsomniaCounts'
  BY <1>1, <1>4 DEF LoaderInv, InsomniaCounts, Count
<1> QED
  BY <1>5, <1>6, <1>7, <1>8, <1>9, <1>10 DEF LoaderInv

-----------------------------------------------------------------------------
\* Every step of every caller, the CLI and every task keeps the invariant.
LEMMA NextPreserves == LoaderInv /\ [Next]_vars => LoaderInv'
<1> SUFFICES ASSUME LoaderInv, [Next]_vars PROVE LoaderInv'
    OBVIOUS
<1>1. ASSUME NEW c \in Callers, loader_start(c) PROVE LoaderInv'
  BY <1>1, LoaderStartPreserves
<1>2. ASSUME NEW c \in Callers \cup {Cli}, StartStep(c) PROVE LoaderInv'
  BY <1>2, PreparePreserves, ThreadStartPreserves DEF StartStep
<1>3. ASSUME NEW f \in CliFlags, cli_execute_command(f) PROVE LoaderInv'
  BY <1>3, CliCommandPreserves
<1>4. CASE loader_cli_open
  BY <1>4, CliOpenPreserves
<1>5. CASE CliStep
  BY <1>2, <1>5, CliLockPreserves, CliBalancePreserves, CliUnlockPreserves,
     CliLeavePreserves DEF CliStep
<1>6. CASE CliCommandReturns
  BY <1>6, CliReturnsPreserves
<1>7. ASSUME NEW k \in Tasks, TaskOwnStep(k) \/ ApplicationReturns(k) PROVE LoaderInv'
  BY <1>7, BodyPreserves, RunPreserves, FreeArgumentsPreserves, RestPreserves,
     UnlockPreserves, ReturnsPreserves DEF TaskOwnStep
<1>8. ASSUME NEW k \in Tasks, PublishStep(k) PROVE LoaderInv'
  BY <1>8, PublishStartedPreserves, StartedPublishedPreserves, StopPreserves DEF PublishStep
<1>9. CASE UNCHANGED vars
  BY <1>9 DEF vars, threadVars, taskVars, callVars, LoaderInv, NoAssertFails, TypeOK, OneUser,
     Starters, ActiveTasks, ThreadConsistent, Occupied, CliConsistent, LockCounts, CliAlone,
     InsomniaCounts, CliAwake, TaskAwake, Count
<1> QED
  BY <1>1, <1>2, <1>3, <1>4, <1>5, <1>6, <1>7, <1>8, <1>9 DEF Next, LoaderStep

\* LoaderInv holds in every state of every behaviour.
THEOREM LoaderInvariant == Spec => []LoaderInv
<1> QED
  BY InitEstablishes, NextPreserves, PTL DEF Spec

\* What the invariant says of the number of users.
LEMMA UsersCounted ==
    ASSUME LoaderInv
    PROVE  Cardinality(Starters) + Cardinality(ActiveTasks) = Count(Occupied)
<1>1. CASE Starters = {} /\ ActiveTasks = {}
  BY <1>1, FS_EmptySet DEF Occupied, Count
<1>2. ASSUME NEW c, Starters = {c}, ActiveTasks = {}
      PROVE  Cardinality(Starters) + Cardinality(ActiveTasks) = Count(Occupied)
  BY <1>2, FS_EmptySet, FS_Singleton DEF Occupied, Count
<1>3. ASSUME NEW k, Starters = {}, ActiveTasks = {k}
      PROVE  Cardinality(Starters) + Cardinality(ActiveTasks) = Count(Occupied)
  <2>1. Cardinality(Starters) = 0 /\ Cardinality(ActiveTasks) = 1 /\ ActiveTasks # {}
    BY <1>3, FS_EmptySet, FS_Singleton
  <2> QED BY <2>1 DEF Occupied, Count
<1> QED
  BY <1>1, <1>2, <1>3 DEF LoaderInv, OneUser

\* The four properties follow from the invariant.
LEMMA InvariantSuffices ==
    LoaderInv => OneAtATime /\ LockBalanced /\ NoAssertFails /\ RunsWhatWasAsked
<1> SUFFICES ASSUME LoaderInv
             PROVE  OneAtATime /\ LockBalanced /\ NoAssertFails /\ RunsWhatWasAsked
    OBVIOUS
<1> USE LoaderAssumption
<1>1. OneAtATime
  BY UsersCounted DEF LoaderInv, LockCounts, OneAtATime, Occupied, Count
<1>2. QuietWhenIdle
  <2> SUFFICES ASSUME \A c \in Callers \cup {Cli} : pc[c] = "idle",
                      \A k \in Tasks : task[k] = "none"
               PROVE  lock_count = 0 /\ insomnia = 0 /\ application_arguments = NULL
                      /\ thread_state = "Stopped"
      BY DEF QuietWhenIdle
  <2>1. ~Occupied /\ ~CliAlone /\ ~CliAwake /\ ~TaskAwake
    BY DEF Occupied, Starters, ActiveTasks, Holding, CliAlone, CliAwake, TaskAwake
  <2>2. application_arguments = NULL /\ thread_state = "Stopped"
    BY <2>1 DEF LoaderInv, ThreadConsistent
  <2> QED BY <2>1, <2>2 DEF LoaderInv, LockCounts, InsomniaCounts, Count
<1>3. LockBalanced
  BY <1>2, UsersCounted DEF LockBalanced, LoaderInv, LockCounts, CliAlone, Count
<1>4. RunsWhatWasAsked
  BY DEF LoaderInv, ThreadConsistent, RunsWhatWasAsked, ActiveTasks, Holding
<1> QED
  BY <1>1, <1>3, <1>4 DEF LoaderInv

\* One application at a time from its start to its unlock, and no exclusive
\* command beside one it did not start, whoever competes for lock_count.
THEOREM LoaderAlwaysOneAtATime == Spec => []OneAtATime
<1> QED
  BY LoaderInvariant, InvariantSuffices, PTL

\* Every lock is given back exactly once, also when loader open counts for
\* itself after its application is over.
THEOREM LoaderLocksBalance == Spec => []LockBalanced
<1> QED
  BY LoaderInvariant, InvariantSuffices, PTL

\* The assertions of loader_start_application, furi_thread and the insomnia
\* counter hold.
THEOREM LoaderNeverAsserts == Spec => []NoAssertFails
<1> QED
  BY LoaderInvariant, InvariantSuffices, PTL

\* The application's function and arguments are the ones its starter asked
\* for, although the next start writes the same fields.
THEOREM LoaderRunsWhatWasAsked == Spec => []RunsWhatWasAsked
<1> QED
  BY LoaderInvariant, InvariantSuffices, PTL

-----------------------------------------------------------------------------
(* The loader's properties beside the desktop *)

\* A step of the composition is a step of the loader, or leaves it alone.
LEMMA DesktopStepIsLoaderStep == [DesktopNext]_allVars => [Next]_vars
<1> SUFFICES ASSUME [DesktopNext]_allVars PROVE [Next]_vars
    OBVIOUS
<1>1. CASE LoaderAlone
  BY <1>1 DEF LoaderAlone, Next
<1>2. ASSUME NEW k \in Tasks, TaskInDesktop(k) PROVE [Next]_vars
  <2>1. CASE furi_pubsub_publish(k)
    BY <2>1 DEF furi_pubsub_publish, Next, PublishStep
  <2>2. CASE desktop_scene_main_app_started_callback(k)
    BY <2>2 DEF desktop_scene_main_app_started_callback
  <2>3. CASE osSemaphoreAcquire(k)
    BY <2>3 DEF osSemaphoreAcquire
  <2>4. CASE PublishReturns(k)
    BY <2>4 DEF PublishReturns, Next, PublishStep
  <2> QED BY <1>2, <2>1, <2>2, <2>3, <2>4 DEF TaskInDesktop
<1>3. CASE DesktopStep
  BY <1>3 DEF DesktopStep, BeforeAppStarted, AfterAppFinished, OpenLockMenu, LockMenuExit,
     desktop_scene_main_on_exit, desktop_scene_main_on_enter, Takes
<1>4. CASE desktop_main_input
  BY <1>4 DEF desktop_main_input
<1>5. CASE UNCHANGED allVars
  BY <1>5 DEF allVars
<1> QED
  BY <1>1, <1>2, <1>3, <1>4, <1>5 DEF DesktopNext

\* The loader beside the desktop is the loader alone, whose publish calls the
\* desktop's callback can delay and no more.
THEOREM DesktopImplementsLoader == DesktopSpec => Init /\ [][Next]_vars
<1>1. DesktopInit => Init
  BY DEF DesktopInit
<1> QED
  BY <1>1, DesktopStepIsLoaderStep, PTL DEF DesktopSpec

\* The loader's invariant holds beside the desktop, for any overlaps.
THEOREM DesktopLoaderInvariant == DesktopSpec => []LoaderInv
<1> QED
  BY DesktopImplementsLoader, InitEstablishes, NextPreserves, PTL

\* So do its four safety properties: one application at a time, balanced locks,
\* no failed assertion, and what runs is what was asked for.
THEOREM DesktopLoaderCorrect ==
    DesktopSpec => [](OneAtATime /\ LockBalanced /\ NoAssertFails /\ RunsWhatWasAsked)
<1> QED
  BY DesktopLoaderInvariant, InvariantSuffices, PTL

-----------------------------------------------------------------------------
(* The animation manager *)

\* The animation that is shown is freed, without a failed assertion.
LEMMA UnloadFrees ==
    ASSUME NEW a \in AM!AnimationManagerStruct,
           a.current_animation # "none", a.freezed_animation_name = "none",
           a.state \in {"Idle", "Blocked"}, a.failed = "none",
           NEW b, b = AM!animation_manager_unload_and_stall_animation(a)
    PROVE  /\ b \in AM!AnimationManagerStruct /\ b.failed = "none"
           /\ b.current_animation = "none" /\ b.freezed_animation_name # "none"
           /\ b.state \in {"FreezedIdle", "FreezedBlocked"}
  BY DEF AM!animation_manager_unload_and_stall_animation, AM!Assert,
     AM!AnimationManagerStruct, AM!animation_manager_is_animation_loaded, AM!States, AM!Kinds

\* What the world asks for is answered, and the rest of the manager stays.
LEMMA CheckBlocking ==
    ASSUME NEW a \in AM!AnimationManagerStruct,
           NEW c, c = AM!animation_manager_check_blocking(a, Calm)
    PROVE  /\ c[2] \in AM!AnimationManagerStruct
           /\ c[2].failed = a.failed
           /\ c[2].freezed_animation_name = a.freezed_animation_name
           /\ IF c[1] THEN c[2].state = "Blocked" /\ c[2].current_animation = "blocking"
              ELSE c[2].state = a.state /\ c[2].current_animation = a.current_animation
<1> DEFINE n == AM!SdNotice(a, Calm)
<1>1. /\ n[1] \in BOOLEAN
      /\ n[2] \in AM!AnimationManagerStruct
      /\ n[2].failed = a.failed /\ n[2].state = a.state
      /\ n[2].freezed_animation_name = a.freezed_animation_name
      /\ n[2].current_animation = a.current_animation
  BY DEF AM!SdNotice, Calm, AM!AnimationManagerStruct
<1> DEFINE b == [n[2] EXCEPT !.levelup_pending = FALSE \/ @]
<1>2. c = IF n[1] THEN <<TRUE, AM!Block(b)>> ELSE <<FALSE, b>>
  BY <1>1 DEF AM!animation_manager_check_blocking, Calm
<1> HIDE DEF n
<1>3. /\ b \in AM!AnimationManagerStruct
      /\ b.failed = a.failed /\ b.state = a.state
      /\ b.freezed_animation_name = a.freezed_animation_name
      /\ b.current_animation = a.current_animation
  BY <1>1 DEF AM!AnimationManagerStruct
<1> HIDE DEF b
<1>4. /\ AM!Block(b) \in AM!AnimationManagerStruct
      /\ AM!Block(b).failed = a.failed /\ AM!Block(b).state = "Blocked"
      /\ AM!Block(b).freezed_animation_name = a.freezed_animation_name
      /\ AM!Block(b).current_animation = "blocking"
  BY <1>3 DEF AM!Block, AM!animation_manager_replace_current_animation,
     AM!AnimationManagerStruct, AM!States, AM!Kinds
<1> QED
  BY <1>1, <1>2, <1>3, <1>4

\* The animation that was freed is shown again, or another one is.
LEMMA LoadShows ==
    ASSUME NEW a \in AM!AnimationManagerStruct,
           a.current_animation = "none", a.freezed_animation_name # "none",
           a.state \in {"FreezedIdle", "FreezedBlocked"}, a.failed = "none",
           NEW b, b = AM!animation_manager_load_and_continue_animation(a, Calm)
    PROVE  /\ b \in AM!AnimationManagerStruct /\ b.failed = "none"
           /\ b.current_animation # "none" /\ b.freezed_animation_name = "none"
           /\ b.state \in {"Idle", "Blocked"}
<1> USE DEF AM!AnimationManagerStruct, AM!States, AM!Kinds
<1> DEFINE c == AM!animation_manager_check_blocking(a, Calm)
           r == AM!Restore(a, Calm)
           s == IF AM!animation_manager_is_animation_loaded(r) THEN r
                ELSE AM!animation_manager_start_new_idle(r)
<1>1. b = [s EXCEPT !.freezed_animation_name = "none"]
  BY DEF AM!animation_manager_load_and_continue_animation, AM!Assert,
     AM!animation_manager_is_animation_loaded
<1> HIDE DEF c
<1>2. /\ c[2] \in AM!AnimationManagerStruct
      /\ c[2].failed = "none"
      /\ IF c[1] THEN c[2].state = "Blocked" /\ c[2].current_animation = "blocking"
         ELSE c[2].state = a.state /\ c[2].current_animation = a.current_animation
  BY CheckBlocking DEF c
<1>3. /\ r \in AM!AnimationManagerStruct
      /\ r.failed = "none"
      /\ r.current_animation # "none" => r.state \in {"Idle", "Blocked"}
  <2>1. CASE a.state = "FreezedBlocked"
    <3>1. r = [[a EXCEPT !.current_animation = "blocking"] EXCEPT !.state = "Blocked"]
      BY <2>1 DEF AM!Restore, AM!animation_manager_replace_current_animation
    <3> QED BY <3>1
  <2>2. CASE a.state # "FreezedBlocked"
    <3>1. r = IF ~c[1]
              THEN [[c[2] EXCEPT !.current_animation = "idle"]
                      EXCEPT !.state = "Idle", !.timer = TRUE, !.missed = FALSE]
              ELSE c[2]
      BY <2>2 DEF AM!Restore, AM!animation_manager_replace_current_animation, c, Calm
    <3> HIDE DEF r
    <3>2. CASE ~c[1]
      BY <3>1, <3>2, <1>2
    <3>3. CASE c[1]
      BY <3>1, <3>3, <1>2
    <3> QED BY <3>2, <3>3
  <2> QED BY <2>1, <2>2
<1> HIDE DEF r
<1>4. /\ s \in AM!AnimationManagerStruct /\ s.failed = "none"
      /\ s.current_animation # "none" /\ s.state \in {"Idle", "Blocked"}
  <2>1. CASE r.current_animation # "none"
    <3>1. s = r
      BY <2>1 DEF AM!animation_manager_is_animation_loaded
    <3> HIDE DEF s, AM!AnimationManagerStruct
    <3> QED BY <3>1, <2>1, <1>3
  <2>2. CASE r.current_animation = "none"
    <3>1. s = [[r EXCEPT !.current_animation = "idle"]
                 EXCEPT !.state = "Idle", !.timer = TRUE, !.missed = FALSE]
      BY <2>2 DEF AM!animation_manager_is_animation_loaded,
         AM!animation_manager_start_new_idle, AM!animation_manager_replace_current_animation
    <3> HIDE DEF s
    <3> QED BY <3>1, <1>3
  <2> QED BY <2>1, <2>2
<1> HIDE DEF s
<1> QED
  BY <1>1, <1>4

\* The desktop begins with an animation.
LEMMA AllocShows ==
    ASSUME NEW b, b = AM!animation_manager_alloc(Calm)
    PROVE  /\ b \in AM!AnimationManagerStruct /\ b.failed = "none"
           /\ b.current_animation # "none" /\ b.freezed_animation_name = "none"
           /\ b.state \in {"Idle", "Blocked"}
<1> DEFINE a == [state |-> "Idle", current_animation |-> "none",
              freezed_animation_name |-> "none", timer |-> FALSE,
              levelup_pending |-> FALSE, levelup_active |-> FALSE,
              one_shot_view |-> FALSE, sd_shown_sd_ok |-> TRUE,
              sd_shown_no_db |-> FALSE, sd_show_url |-> FALSE,
              missed |-> FALSE, failed |-> "none"]
           c == AM!animation_manager_check_blocking(a, Calm)
<1>1. b = IF c[1] THEN c[2] ELSE AM!animation_manager_start_new_idle(c[2])
  BY DEF AM!animation_manager_alloc
<1>2. a \in AM!AnimationManagerStruct /\ a.freezed_animation_name = "none" /\ a.failed = "none"
  BY DEF AM!AnimationManagerStruct, AM!States, AM!Kinds
<1> HIDE DEF a, c
<1>3. /\ c[2] \in AM!AnimationManagerStruct
      /\ c[2].failed = "none" /\ c[2].freezed_animation_name = "none"
      /\ c[1] => c[2].state = "Blocked" /\ c[2].current_animation = "blocking"
  BY <1>2, CheckBlocking DEF c
<1> QED
  BY <1>1, <1>3 DEF AM!animation_manager_start_new_idle,
     AM!animation_manager_replace_current_animation, AM!AnimationManagerStruct,
     AM!States, AM!Kinds

-----------------------------------------------------------------------------
(* Turns, when starts and scene changes do not overlap *)

\* The queues that occur.
LEMMA Queues ==
    ASSUME NEW e, NEW f
    PROVE  /\ Append(<<>>, e) = <<e>> /\ Append(<<e>>, f) = <<e, f>>
           /\ Head(<<e>>) = e /\ Tail(<<e>>) = <<>>
           /\ Head(<<e, f>>) = e /\ Tail(<<e, f>>) = <<f>>
           /\ <<e>> # <<>> /\ <<e, f>> # <<>> /\ <<e>> # <<e, f>>
<1>1. Append(<<>>, e) = <<e>> /\ Append(<<e>>, f) = <<e, f>>
  <2>1. Append(<<>>, e) = <<e>>
    OBVIOUS
  <2>2. /\ <<e, f>> \in Seq({e, f}) /\ <<e>> \in Seq({e, f})
        /\ Len(<<e>>) = 1 /\ Len(<<e, f>>) = 2 /\ <<e>>[1] = e
        /\ <<e, f>>[1] = e /\ <<e, f>>[2] = f
    OBVIOUS
  <2>3. /\ Append(<<e>>, f) \in Seq({e, f}) /\ Len(Append(<<e>>, f)) = 2
        /\ Append(<<e>>, f)[1] = e /\ Append(<<e>>, f)[2] = f
    BY <2>2, AppendProperties
  <2>4. Append(<<e>>, f) = <<e, f>>
    <3>1. \A i \in 1 .. 2 : Append(<<e>>, f)[i] = <<e, f>>[i]
      BY <2>2, <2>3
    <3> QED BY <3>1, <2>2, <2>3, SeqEqual
  <2> QED BY <2>1, <2>4
<1>2. Head(<<e>>) = e /\ Tail(<<e>>) = <<>>
  OBVIOUS
<1>3. Head(<<e, f>>) = e
  OBVIOUS
<1>4. Tail(<<e, f>>) = <<f>>
  OBVIOUS
<1>5. <<e>> # <<>> /\ <<e, f>> # <<>> /\ <<e>> # <<e, f>>
  OBVIOUS
<1> QED
  BY <1>1, <1>2, <1>3, <1>4, <1>5

\* What a step of the loader between two events does to the tasks, the lock and
\* the claims on it: a caller or the CLI leaves the tasks alone and makes a new
\* claim only with the lock; a claim becomes a task; or a task goes on.
LEMMA LoaderStepKinds ==
    ASSUME LoaderInv, LoaderStep
    PROVE  \/ /\ UNCHANGED task
              /\ Claimed' => Claimed \/ (lock_count = 0 /\ lock_count' = 1)
              /\ lock_count = 0 => lock_count' \in {0, 1}
           \/ /\ Claimed /\ lock_count # 0 /\ ~Claimed'
              /\ \E k \in Tasks : task[k] = "none" /\ task' = [task EXCEPT ![k] = "created"]
           \/ /\ lock_count # 0 /\ ~Claimed'
              /\ \E k \in Tasks, l \in Holding \cup {"stop event"} :
                   /\ task' = [task EXCEPT ![k] = l]
                   /\ \/ task[k] = "created" /\ l = "start event"
                      \/ /\ task[k] \in {"started", "run", "stopped", "freed", "rested"}
                         /\ l \in {"run", "stopped", "freed", "rested", "stop event"}
<1> DEFINE Kind1 == /\ UNCHANGED task
                    /\ Claimed' => Claimed \/ (lock_count = 0 /\ lock_count' = 1)
                    /\ lock_count = 0 => lock_count' \in {0, 1}
           Kind2 == /\ Claimed /\ lock_count # 0 /\ ~Claimed'
                    /\ \E k \in Tasks : task[k] = "none" /\ task' = [task EXCEPT ![k] = "created"]
           Kind3 == /\ lock_count # 0 /\ ~Claimed'
                    /\ \E k \in Tasks, l \in Holding \cup {"stop event"} :
                         /\ task' = [task EXCEPT ![k] = l]
                         /\ \/ task[k] = "created" /\ l = "start event"
                            \/ /\ task[k] \in {"started", "run", "stopped", "freed", "rested"}
                               /\ l \in {"run", "stopped", "freed", "rested", "stop event"}
<1> SUFFICES Kind1 \/ Kind2 \/ Kind3
    OBVIOUS
<1> USE LoaderAssumption
<1>t. TypeOK
  BY DEF LoaderInv, NoAssertFails
<1>l. Occupied \/ CliAlone <=> lock_count # 0
  BY DEF LoaderInv, LockCounts, Count
<1>1. ASSUME NEW c \in Callers, loader_start(c) PROVE Kind1
  <2>1. UNCHANGED task
    BY <1>1 DEF loader_start, taskVars
  <2>2. CASE LockRefused /\ UNCHANGED <<pc, request>>
    BY <2>1, <2>2, <1>1 DEF LockRefused, loader_start, Claimed, Starters, CliAlone
  <2>3. CASE loader_lock
    BY <2>1, <2>3 DEF loader_lock, LockTaken
  <2> QED BY <2>2, <2>3, <1>1 DEF loader_start
<1>2. ASSUME NEW c \in Callers \cup {Cli}, loader_start_application(c) PROVE Kind1
  <2>1. c \in Starters
    BY <1>2 DEF loader_start_application, Starters
  <2> QED BY <2>1, <1>2 DEF loader_start_application, taskVars, Claimed
<1>3. ASSUME NEW c \in Callers \cup {Cli}, furi_thread_start(c) PROVE Kind2
  <2>1. c \in Starters
    BY <1>3 DEF furi_thread_start, Starters
  <2>2. Claimed /\ lock_count # 0 /\ Starters = {c}
    BY <2>1, <1>l, StarterIsOnly DEF Claimed, Occupied, LoaderInv
  <2>3. pc' = [pc EXCEPT ![c] = IF c = Cli THEN "opened" ELSE "idle"] /\ UNCHANGED flags
    BY <1>3 DEF furi_thread_start, Goto
  <2>4. ~(pc[Cli] = "executing" /\ CliAlone)
    BY <2>1 DEF LoaderInv, LockCounts, Occupied
  <2>5. Starters' = {}
    BY <2>2, <2>3, <1>t DEF Starters, TypeOK
  <2>6. ~(pc'[Cli] = "executing" /\ CliAlone')
    BY <2>3, <2>4, <1>t DEF CliAlone, TypeOK
  <2>7. \E k \in Tasks : task[k] = "none" /\ task' = [task EXCEPT ![k] = "created"]
    BY <1>3 DEF furi_thread_start, TaskGoto
  <2> QED BY <2>2, <2>5, <2>6, <2>7 DEF Claimed
<1>4. ASSUME NEW f \in CliFlags, cli_execute_command(f) PROVE Kind1
  <2>1. UNCHANGED <<task, lock_count>> /\ pc' = [pc EXCEPT ![Cli] = "command"] /\ pc[Cli] = "idle"
    BY <1>4 DEF cli_execute_command, taskVars, Goto
  <2>2. Starters' = Starters /\ pc'[Cli] = "command"
    BY <2>1, <1>t DEF Starters, TypeOK
  <2> QED BY <2>1, <2>2 DEF Claimed
<1>5. CASE loader_cli_open
  BY <1>5 DEF loader_cli_open, taskVars, Claimed, CliAlone, LoaderInv, NoAssertFails, TypeOK
<1>6. CASE CliLock
  <2>1. UNCHANGED <<task, flags>> /\ pc[Cli] = "command"
    BY <1>6 DEF CliLock, taskVars
  <2>2. PICK l \in {"executing", "leaving"} :
        /\ pc' = [pc EXCEPT ![Cli] = l]
        /\ \/ l = "executing" /\ flags.ParallelSafe /\ UNCHANGED lock_count
           \/ l = "executing" /\ ~flags.ParallelSafe /\ loader_lock
           \/ l = "leaving" /\ UNCHANGED lock_count
    BY <1>6 DEF CliLock, LockRefused, Goto
  <2>3. Starters' = Starters /\ pc'[Cli] = l
    BY <2>1, <2>2, <1>t DEF Starters, TypeOK
  <2>4. CASE loader_lock
    BY <2>1, <2>4 DEF loader_lock, LockTaken
  <2>5. CASE UNCHANGED lock_count /\ (l = "executing" => flags.ParallelSafe)
    BY <2>1, <2>3, <2>5 DEF Claimed, CliAlone
  <2> QED BY <2>2, <2>4, <2>5
<1>7. CASE CliBalance
  <2>1. UNCHANGED <<task, flags>> /\ lock_count' = lock_count + 1 /\ pc[Cli] = "opened"
        /\ pc' = [pc EXCEPT ![Cli] = "executed"]
    BY <1>7 DEF CliBalance, taskVars, LockTaken, Goto
  <2>2. Starters' = Starters /\ pc'[Cli] = "executed"
    BY <2>1, <1>t DEF Starters, TypeOK
  <2>3. Claimed' => Claimed
    BY <2>2 DEF Claimed
  <2>4. lock_count = 0 => lock_count' \in {0, 1}
    BY <2>1
  <2> QED BY <2>1, <2>3, <2>4
<1>8. CASE CliCommandReturns
  <2>1. UNCHANGED <<task, flags, lock_count>> /\ pc[Cli] = "executing"
        /\ pc' = [pc EXCEPT ![Cli] = "executed"]
    BY <1>8 DEF CliCommandReturns, taskVars, Goto
  <2>2. Starters' = Starters /\ pc'[Cli] = "executed"
    BY <2>1, <1>t DEF Starters, TypeOK
  <2> QED BY <2>1, <2>2 DEF Claimed
<1>9. CASE CliUnlock
  <2>1. UNCHANGED <<task, flags>> /\ pc[Cli] = "executed" /\ pc' = [pc EXCEPT ![Cli] = "leaving"]
        /\ (lock_count = 0 => lock_count' = 0)
    BY <1>9 DEF CliUnlock, taskVars, Goto, loader_unlock
  <2>2. Starters' = Starters /\ pc'[Cli] = "leaving"
    BY <2>1, <1>t DEF Starters, TypeOK
  <2> QED BY <2>1, <2>2 DEF Claimed
<1>10. CASE CliLeave
  <2>1. UNCHANGED <<task, lock_count>> /\ pc[Cli] = "leaving" /\ pc' = [pc EXCEPT ![Cli] = "idle"]
    BY <1>10 DEF CliLeave, taskVars, Goto
  <2>2. Starters' = Starters /\ pc'[Cli] = "idle"
    BY <2>1, <1>t DEF Starters, TypeOK
  <2> QED BY <2>1, <2>2 DEF Claimed
<1>11. ASSUME NEW k \in Tasks, TaskOwnStep(k) \/ ApplicationReturns(k) PROVE Kind3
  <2>1. PICK l \in Holding \cup {"stop event"} :
          /\ task' = [task EXCEPT ![k] = l]
          /\ UNCHANGED <<pc, flags>>
          /\ \/ task[k] = "created" /\ l = "start event"
             \/ /\ task[k] \in {"started", "run", "stopped", "freed", "rested"}
                /\ l \in {"run", "stopped", "freed", "rested", "stop event"}
    BY <1>11 DEF TaskOwnStep, furi_thread_body, RunApplication, ApplicationReturns,
       FreeArguments, Rest, Unlock, Move, TaskGoto, Holding, callVars
  <2>2. k \in ActiveTasks
    BY <2>1 DEF ActiveTasks, Holding
  <2>3. lock_count # 0 /\ Starters = {} /\ ~(pc[Cli] = "executing" /\ CliAlone)
    BY <2>2, <1>l, TaskIsOnly DEF LoaderInv, LockCounts, Occupied
  <2>4. ~Claimed'
    BY <2>1, <2>3 DEF Claimed, Starters, CliAlone
  <2> QED BY <2>1, <2>3, <2>4
<1> HIDE DEF Kind1, Kind2, Kind3
<1> QED
  BY <1>1, <1>2, <1>3, <1>4, <1>5, <1>6, <1>7, <1>8, <1>9, <1>10, <1>11
     DEF LoaderStep, StartStep, CliStep

\* The desktop begins with its animation, and nothing goes on.
LEMMA TurnsInit == DesktopInit => TurnsInv
<1> SUFFICES ASSUME DesktopInit PROVE TurnsInv
    OBVIOUS
<1> USE LoaderAssumption, LoaderDesktopAssumption DEF DesktopInit, Init
<1>1. DesktopTypeOK
  <2>1. subscribed = (scene = "main")
    BY Zenon
  <2> QED BY <2>1 DEF DesktopTypeOK
<1>2. am \in AM!AnimationManagerStruct /\ am.failed = "none" /\ Shown
  BY AllocShows DEF Shown, AM!animation_manager_is_animation_loaded
<1>3. NoTask /\ Settled /\ ~SceneChanging
  BY <1>2 DEF NoTask, Settled, SceneChanging
<1>4. CallbacksConsistent
  BY DEF CallbacksConsistent
<1>5. ScenesConsistent
  BY <1>3 DEF ScenesConsistent
<1>6. TurnsConsistent
  BY <1>3 DEF TurnsConsistent, NoTask
<1> QED
  BY <1>1, <1>2, <1>4, <1>5, <1>6 DEF TurnsInv, AnimationInTurns

\* The loader moves on: a start claims the thread only when the end of the
\* application before it has been published, and no scene is being changed.
LEMMA LoaderAloneTurns ==
    ASSUME TurnsInv, LoaderInv, LoaderAlone, Overlaps = {}
    PROVE  TurnsInv'
<1> USE LoaderAssumption
<1>u. UNCHANGED <<mutex, subscribed, callback, queue, semaphore, scene, desktop, am>>
  BY DEF LoaderAlone, desktopVars
<1>t. task \in [Tasks -> TaskLabels] /\ LoaderStep
  BY DEF LoaderInv, NoAssertFails, TypeOK, LoaderAlone
<1>l. lock_count = 0 => \A k \in Tasks : task[k] \notin Holding
  BY DEF LoaderInv, LockCounts, Count, Occupied, CliAlone, ActiveTasks
<1>a. lock_count = 0 /\ lock_count' = 1 =>
        /\ ~SceneChanging
        /\ subscribed => \A k \in Tasks : task[k] \notin {"stop event", "stopping"}
  BY DEF LoaderAlone, LockAllowed
<1>s. /\ Shown' <=> Shown
      /\ Settled' <=> Settled
      /\ SceneChanging' <=> SceneChanging
  BY <1>u DEF Shown, Settled, Freed, SceneChanging
<1>f. Freed' <=> Freed
  BY <1>u DEF Freed
<1>1. DesktopTypeOK' /\ (am \in AM!AnimationManagerStruct)' /\ AnimationInTurns'
  BY <1>u DEF TurnsInv, DesktopTypeOK, AnimationInTurns
<1>2. CASE /\ UNCHANGED task
           /\ Claimed' => Claimed \/ (lock_count = 0 /\ lock_count' = 1)
           /\ lock_count = 0 => lock_count' \in {0, 1}
  <2>1. CallbacksConsistent'
    BY <1>2, <1>u DEF TurnsInv, CallbacksConsistent
  <2>2. NoTask' <=> NoTask
    BY <1>2 DEF NoTask
  <2>3. ScenesConsistent'
    BY <1>2, <1>u, <1>a, <1>s, <2>2 DEF TurnsInv, ScenesConsistent
  <2>4. lock_count = 0 /\ lock_count' = 1 /\ subscribed => NoTask
    <3> SUFFICES ASSUME lock_count = 0, lock_count' = 1, subscribed, NEW k \in Tasks
                 PROVE  task[k] = "none"
        BY DEF NoTask
    <3> QED BY <1>a, <1>l, <1>t DEF TaskLabels, Holding
  <2>5. \A k \in Tasks : AppInTurn(k) => AppInTurn(k)'
    BY <1>2, <1>u, <1>s, <1>f DEF AppInTurn, BeforeOrAfter, WaitsForMemory, OwnsMemory
  <2>6. TurnsConsistent'
    BY <1>2, <1>u, <1>s, <2>2, <2>4, <2>5 DEF TurnsInv, TurnsConsistent
  <2> QED BY <1>1, <2>1, <2>3, <2>6 DEF TurnsInv
<1>3. ASSUME Claimed, lock_count # 0, ~Claimed', NEW k \in Tasks, task[k] = "none",
             task' = [task EXCEPT ![k] = "created"]
      PROVE  TurnsInv'
  <2>0. ~SceneChanging
    BY <1>3 DEF TurnsInv, ScenesConsistent
  <2>1. CallbacksConsistent'
    BY <1>3, <1>u, <1>t DEF TurnsInv, CallbacksConsistent
  <2>2. ScenesConsistent'
    BY <2>0, <1>u, <1>s DEF TurnsInv, ScenesConsistent
  <2>3. subscribed => NoTask /\ semaphore = 0 /\ Settled
    <3>1. ASSUME NEW e \in SceneEvents, queue = <<e>> PROVE FALSE
      <4>1. 1 \in DOMAIN queue /\ queue[1] = e
        BY <3>1
      <4> QED BY <4>1, <2>0 DEF SceneChanging
    <3> QED BY <1>3, <3>1 DEF TurnsInv, TurnsConsistent
  <2>4. task'[k] = "created" /\ \A l \in Tasks \ {k} : task'[l] = task[l]
    BY <1>3, <1>t
  <2>5. subscribed => AppInTurn(k)'
    BY <2>3, <2>4, <1>u, <1>s DEF AppInTurn, BeforeOrAfter, WaitsForMemory, OwnsMemory
  <2>6. ~NoTask'
    BY <2>4 DEF NoTask
  <2>7. TurnsConsistent'
    BY <1>3, <1>u, <1>s, <2>3, <2>4, <2>5, <2>6 DEF TurnsInv, TurnsConsistent, NoTask
  <2> QED BY <1>1, <2>1, <2>2, <2>7 DEF TurnsInv
<1>4. ASSUME lock_count # 0, ~Claimed', NEW k \in Tasks,
             NEW l \in Holding \cup {"stop event"},
             task' = [task EXCEPT ![k] = l],
             \/ task[k] = "created" /\ l = "start event"
             \/ /\ task[k] \in {"started", "run", "stopped", "freed", "rested"}
                /\ l \in {"run", "stopped", "freed", "rested", "stop event"}
      PROVE  TurnsInv'
  <2>0. ~SceneChanging
    BY <1>4 DEF TurnsInv, ScenesConsistent
  <2>4. task'[k] = l /\ \A j \in Tasks \ {k} : task'[j] = task[j]
    BY <1>4, <1>t
  <2>1. CallbacksConsistent'
    BY <1>4, <1>u, <2>4 DEF TurnsInv, CallbacksConsistent
  <2>2. ScenesConsistent'
    BY <2>0, <1>u, <1>s DEF TurnsInv, ScenesConsistent
  <2>3. AppInTurn(k) => AppInTurn(k)'
    BY <1>4, <2>4, <1>u, <1>s, <1>f DEF AppInTurn, BeforeOrAfter, WaitsForMemory, OwnsMemory
  <2>5. task[k] # "none" /\ l # "none" /\ ~NoTask'
    BY <1>4, <2>4 DEF NoTask
  <2>6. subscribed => \A j \in Tasks : task'[j] # "none" => j = k
    BY <2>4, <2>5 DEF TurnsInv, TurnsConsistent
  <2>7. TurnsConsistent'
    BY <1>4, <1>u, <1>s, <2>3, <2>5, <2>6 DEF TurnsInv, TurnsConsistent
  <2> QED BY <1>1, <2>1, <2>2, <2>7 DEF TurnsInv
<1> QED
  BY <1>2, <1>3, <1>4, <1>t, LoaderStepKinds

\* A task that is in its turn is the only one, in the loop of a desktop that
\* is not changing its scene.
LEMMA InTurn ==
    ASSUME TurnsInv, NEW k \in Tasks, task[k] # "none"
    PROVE  /\ ~NoTask /\ ~SceneChanging /\ desktop = "loop"
           /\ subscribed => AppInTurn(k) /\ ~Claimed
           /\ subscribed => \A l \in Tasks \ {k} : task[l] = "none"
<1>1. ~NoTask
  BY DEF NoTask
<1>2. ~SceneChanging /\ desktop = "loop"
  BY <1>1 DEF TurnsInv, ScenesConsistent, SceneChanging
<1> QED
  BY <1>1, <1>2 DEF TurnsInv, TurnsConsistent

\* A task publishes: it holds the mutex and, if the desktop is subscribed, is
\* about to send it an event.
LEMMA PublishTurns ==
    ASSUME TurnsInv, LoaderInv, NEW k \in Tasks, furi_pubsub_publish(k)
    PROVE  TurnsInv'
<1> USE LoaderAssumption
<1>t. task \in [Tasks -> TaskLabels] /\ mutex = NULL
  BY DEF LoaderInv, NoAssertFails, TypeOK, furi_pubsub_publish
<1>1. PICK l \in {"starting", "stopping"} :
        /\ task[k] = IF l = "starting" THEN "start event" ELSE "stop event"
        /\ task' = [task EXCEPT ![k] = l]
        /\ UNCHANGED <<pc, flags, lock_count>>
  BY DEF furi_pubsub_publish, PublishStarted, PublishStopped, Move, TaskGoto, callVars
<1>2. /\ mutex' = k
      /\ callback' = [callback EXCEPT ![k] = IF subscribed THEN "send" ELSE "done"]
      /\ UNCHANGED <<subscribed, queue, semaphore, scene, desktop, am>>
  BY DEF furi_pubsub_publish
<1>3. /\ ~NoTask /\ ~SceneChanging /\ desktop = "loop"
      /\ subscribed => AppInTurn(k) /\ ~Claimed
      /\ subscribed => \A j \in Tasks \ {k} : task[j] = "none"
  BY <1>1, InTurn
<1>4. /\ task'[k] = l /\ \A j \in Tasks \ {k} : task'[j] = task[j] /\ callback'[j] = callback[j]
      /\ callback'[k] = IF subscribed THEN "send" ELSE "done"
      /\ callback' \in [Tasks -> {"none", "send", "wait", "done"}]
      /\ \A j \in Tasks : callback[j] = "none"
  BY <1>1, <1>2, <1>t DEF TurnsInv, DesktopTypeOK
<1>5. DesktopTypeOK'
  BY <1>2, <1>4 DEF TurnsInv, DesktopTypeOK
<1>6. (am \in AM!AnimationManagerStruct)' /\ AnimationInTurns'
  BY <1>2 DEF TurnsInv, AnimationInTurns
<1>7. CallbacksConsistent'
  BY <1>1, <1>2, <1>4 DEF TurnsInv, CallbacksConsistent
<1>8. /\ Shown' <=> Shown
      /\ Freed' <=> Freed
      /\ Settled' <=> Settled
      /\ SceneChanging' <=> SceneChanging
      /\ Claimed' <=> Claimed
  BY <1>1, <1>2 DEF Shown, Settled, Freed, SceneChanging, Claimed, Starters, CliAlone
<1>9. ScenesConsistent'
  BY <1>2, <1>3, <1>8 DEF TurnsInv, ScenesConsistent
<1>10. subscribed => AppInTurn(k)'
  BY <1>1, <1>2, <1>3, <1>4, <1>8 DEF AppInTurn, BeforeOrAfter, WaitsForMemory, OwnsMemory
<1>11. TurnsConsistent'
  <2>1. ~NoTask'
    BY <1>4 DEF NoTask
  <2> QED BY <2>1, <1>2, <1>3, <1>4, <1>8, <1>10 DEF TurnsInv, TurnsConsistent
<1> QED
  BY <1>5, <1>6, <1>7, <1>9, <1>11 DEF TurnsInv

\* The callback sends its event: a start to a desktop that has an animation or
\* is about to load it, an end to one that has none.
LEMMA SendTurns ==
    ASSUME TurnsInv, NEW k \in Tasks, desktop_scene_main_app_started_callback(k)
    PROVE  TurnsInv'
<1> USE LoaderAssumption, LoaderDesktopAssumption
<1> DEFINE e == IF task[k] = "starting" THEN "BeforeAppStarted" ELSE "AfterAppFinished"
           to == IF task[k] = "starting" THEN "wait" ELSE "done"
<1>1. /\ callback[k] = "send" /\ Len(queue) < QueueSize
      /\ queue' = Append(queue, e) /\ callback' = [callback EXCEPT ![k] = to]
      /\ UNCHANGED <<vars, mutex, subscribed, semaphore, scene, desktop, am>>
  BY DEF desktop_scene_main_app_started_callback
<1>u. UNCHANGED <<task, pc, flags, lock_count>>
  BY <1>1 DEF vars, taskVars, callVars
<1>2. task[k] \in {"starting", "stopping"} /\ subscribed
  BY <1>1 DEF TurnsInv, CallbacksConsistent
<1>3. /\ ~NoTask /\ ~SceneChanging /\ desktop = "loop"
      /\ AppInTurn(k) /\ ~Claimed
      /\ \A j \in Tasks \ {k} : task[j] = "none"
  BY <1>2, InTurn
<1>4. /\ callback'[k] = to /\ \A j \in Tasks \ {k} : callback'[j] = callback[j]
      /\ callback' \in [Tasks -> {"none", "send", "wait", "done"}]
  BY <1>1 DEF TurnsInv, DesktopTypeOK
<1>5. DesktopTypeOK'
  <2>1. /\ queue' \in Seq(SceneEvents \cup {"BeforeAppStarted", "AfterAppFinished"})
        /\ Len(queue') = Len(queue) + 1 /\ Len(queue) \in Nat
    BY <1>1, AppendProperties, LenProperties DEF TurnsInv, DesktopTypeOK
  <2> QED BY <2>1, <1>1, <1>4 DEF TurnsInv, DesktopTypeOK
<1>6. (am \in AM!AnimationManagerStruct)' /\ AnimationInTurns'
  BY <1>1 DEF TurnsInv, AnimationInTurns
<1>7. CallbacksConsistent'
  BY <1>1, <1>2, <1>4, <1>u DEF TurnsInv, CallbacksConsistent
<1>8. /\ Shown' <=> Shown
      /\ Freed' <=> Freed
      /\ Claimed' <=> Claimed
      /\ NoTask' <=> NoTask
  BY <1>1, <1>u DEF Shown, Freed, Claimed, Starters, CliAlone, NoTask
<1>9. /\ semaphore = 0
      /\ \/ task[k] = "starting" /\ queue' = <<"BeforeAppStarted">> /\ Shown
         \/ task[k] = "starting" /\ queue' = <<"AfterAppFinished", "BeforeAppStarted">> /\ Freed
         \/ task[k] = "stopping" /\ queue' = <<"AfterAppFinished">> /\ Freed
  <2>1. CASE task[k] = "starting"
    <3>1. semaphore = 0 /\ Settled /\ queue' = Append(queue, "BeforeAppStarted")
      BY <2>1, <1>1, <1>3 DEF AppInTurn, BeforeOrAfter
    <3>2. CASE queue = <<>> /\ Shown
      BY <3>1, <3>2, <2>1, Queues
    <3>3. CASE queue = <<"AfterAppFinished">> /\ Freed
      BY <3>1, <3>3, <2>1, Queues
    <3> QED BY <3>1, <3>2, <3>3 DEF Settled
  <2>2. CASE task[k] = "stopping"
    <3>1. semaphore = 0 /\ queue = <<>> /\ Freed
      BY <2>2, <1>1, <1>3 DEF AppInTurn, OwnsMemory
    <3>2. queue' = Append(queue, "AfterAppFinished")
      BY <2>2, <1>1
    <3> QED BY <3>1, <3>2, <2>2, Queues
  <2> QED BY <1>2, <2>1, <2>2
<1>10. ~SceneChanging'
  <2>1. \A i \in DOMAIN queue' : queue'[i] \notin SceneEvents
    BY <1>9 DEF SceneEvents
  <2> QED BY <2>1, <1>1, <1>3 DEF SceneChanging
<1>11. ScenesConsistent'
  BY <1>1, <1>3, <1>10 DEF ScenesConsistent
<1>12. AppInTurn(k)'
  BY <1>1, <1>2, <1>4, <1>8, <1>9, <1>u
     DEF AppInTurn, BeforeOrAfter, WaitsForMemory, OwnsMemory, Settled
<1>13. TurnsConsistent'
  BY <1>1, <1>2, <1>3, <1>8, <1>12, <1>u DEF TurnsInv, TurnsConsistent
<1> QED
  BY <1>5, <1>6, <1>7, <1>11, <1>13 DEF TurnsInv

\* The semaphore lets the task go on once the animation is freed.
LEMMA AcquireTurns ==
    ASSUME TurnsInv, NEW k \in Tasks, osSemaphoreAcquire(k)
    PROVE  TurnsInv'
<1> USE LoaderAssumption
<1>1. /\ callback[k] = "wait" /\ semaphore > 0 /\ semaphore' = semaphore - 1
      /\ callback' = [callback EXCEPT ![k] = "done"]
      /\ UNCHANGED <<vars, mutex, subscribed, queue, scene, desktop, am>>
  BY DEF osSemaphoreAcquire
<1>u. UNCHANGED <<task, pc, flags, lock_count>>
  BY <1>1 DEF vars, taskVars, callVars
<1>2. task[k] = "starting" /\ subscribed
  BY <1>1 DEF TurnsInv, CallbacksConsistent
<1>3. /\ ~NoTask /\ ~SceneChanging /\ desktop = "loop"
      /\ AppInTurn(k) /\ ~Claimed
      /\ \A j \in Tasks \ {k} : task[j] = "none"
  BY <1>2, InTurn
<1>4. /\ callback'[k] = "done" /\ \A j \in Tasks \ {k} : callback'[j] = callback[j]
      /\ callback' \in [Tasks -> {"none", "send", "wait", "done"}]
  BY <1>1 DEF TurnsInv, DesktopTypeOK
<1>5. semaphore = 1 /\ semaphore' = 0 /\ queue = <<>> /\ Freed
  BY <1>1, <1>2, <1>3 DEF AppInTurn, WaitsForMemory
<1>6. DesktopTypeOK'
  BY <1>1, <1>4, <1>5 DEF TurnsInv, DesktopTypeOK
<1>7. (am \in AM!AnimationManagerStruct)' /\ AnimationInTurns'
  BY <1>1 DEF TurnsInv, AnimationInTurns
<1>8. CallbacksConsistent'
  BY <1>1, <1>2, <1>4, <1>u DEF TurnsInv, CallbacksConsistent
<1>9. /\ Freed' <=> Freed
      /\ Claimed' <=> Claimed
      /\ NoTask' <=> NoTask
      /\ SceneChanging' <=> SceneChanging
  BY <1>1, <1>u DEF Freed, Claimed, Starters, CliAlone, NoTask, SceneChanging
<1>10. ScenesConsistent'
  BY <1>1, <1>3, <1>9 DEF ScenesConsistent
<1>11. AppInTurn(k)'
  BY <1>1, <1>2, <1>4, <1>5, <1>9, <1>u
     DEF AppInTurn, BeforeOrAfter, WaitsForMemory, OwnsMemory
<1>12. TurnsConsistent'
  BY <1>1, <1>2, <1>3, <1>9, <1>11, <1>u DEF TurnsInv, TurnsConsistent
<1> QED
  BY <1>6, <1>7, <1>8, <1>10, <1>12 DEF TurnsInv

\* The publish returns; a task that ends leaves the desktop settled.
LEMMA ReturnTurns ==
    ASSUME TurnsInv, LoaderInv, NEW k \in Tasks, PublishReturns(k)
    PROVE  TurnsInv'
<1> USE LoaderAssumption
<1>t. task \in [Tasks -> TaskLabels]
  BY DEF LoaderInv, NoAssertFails, TypeOK
<1>1. PICK l \in {"started", "none"} :
        /\ task[k] = IF l = "started" THEN "starting" ELSE "stopping"
        /\ task' = [task EXCEPT ![k] = l]
        /\ UNCHANGED <<pc, flags, lock_count>>
  BY DEF PublishReturns, StartedPublished, osThreadExit, Move, TaskGoto, callVars
<1>2. /\ callback[k] = "done" /\ mutex' = NULL
      /\ callback' = [callback EXCEPT ![k] = "none"]
      /\ UNCHANGED <<subscribed, queue, semaphore, scene, desktop, am>>
  BY DEF PublishReturns
<1>3. /\ ~NoTask /\ ~SceneChanging /\ desktop = "loop"
      /\ subscribed => AppInTurn(k) /\ ~Claimed
      /\ subscribed => \A j \in Tasks \ {k} : task[j] = "none"
  BY <1>1, InTurn
<1>4. /\ task'[k] = l /\ \A j \in Tasks \ {k} : task'[j] = task[j] /\ callback'[j] = callback[j]
      /\ callback'[k] = "none"
      /\ callback' \in [Tasks -> {"none", "send", "wait", "done"}]
      /\ \A j \in Tasks \ {k} : callback[j] = "none"
  BY <1>1, <1>2, <1>t DEF TurnsInv, DesktopTypeOK
<1>5. DesktopTypeOK'
  BY <1>2, <1>4 DEF TurnsInv, DesktopTypeOK
<1>6. (am \in AM!AnimationManagerStruct)' /\ AnimationInTurns'
  BY <1>2 DEF TurnsInv, AnimationInTurns
<1>7. CallbacksConsistent'
  BY <1>1, <1>2, <1>4 DEF TurnsInv, CallbacksConsistent
<1>8. /\ Shown' <=> Shown
      /\ Freed' <=> Freed
      /\ Settled' <=> Settled
      /\ SceneChanging' <=> SceneChanging
      /\ Claimed' <=> Claimed
  BY <1>1, <1>2 DEF Shown, Settled, Freed, SceneChanging, Claimed, Starters, CliAlone
<1>9. ScenesConsistent'
  BY <1>2, <1>3, <1>8 DEF TurnsInv, ScenesConsistent
<1>10. CASE subscribed
  <2>1. CASE l = "started"
    <3>1. AppInTurn(k)' /\ ~NoTask'
      BY <2>1, <1>10, <1>1, <1>2, <1>3, <1>4, <1>8
         DEF AppInTurn, BeforeOrAfter, WaitsForMemory, OwnsMemory, NoTask
    <3>2. TurnsConsistent'
      BY <3>1, <1>10, <1>2, <1>3, <1>4, <1>8 DEF TurnsConsistent
    <3> QED BY <3>2, <1>5, <1>6, <1>7, <1>9 DEF TurnsInv
  <2>2. CASE l = "none"
    <3>1. NoTask' /\ semaphore = 0 /\ Settled
      BY <2>2, <1>10, <1>1, <1>2, <1>3, <1>4 DEF AppInTurn, BeforeOrAfter, NoTask
    <3>2. TurnsConsistent'
      BY <3>1, <1>10, <1>2, <1>8 DEF TurnsConsistent, NoTask
    <3> QED BY <3>2, <1>5, <1>6, <1>7, <1>9 DEF TurnsInv
  <2> QED BY <2>1, <2>2
<1>11. CASE ~subscribed
  <2>1. TurnsConsistent'
    BY <1>11, <1>2, <1>8 DEF TurnsInv, TurnsConsistent
  <2> QED BY <2>1, <1>5, <1>6, <1>7, <1>9 DEF TurnsInv
<1> QED
  BY <1>10, <1>11

\* Where the desktop is when it has an event to handle.
LEMMA EventInTurn ==
    ASSUME TurnsInv, LoaderInv, queue # <<>>
    PROVE  \/ /\ queue = <<"AfterAppFinished">> /\ Freed /\ subscribed /\ semaphore = 0
              /\ \A k \in Tasks : task[k] # "none" => BeforeOrAfter(k)
           \/ /\ queue = <<"BeforeAppStarted">> /\ Shown /\ subscribed /\ ~NoTask
              /\ \A k \in Tasks : task[k] # "none" => WaitsForMemory(k)
           \/ /\ queue = <<"AfterAppFinished", "BeforeAppStarted">> /\ Freed
              /\ subscribed /\ ~NoTask /\ semaphore = 0
              /\ \A k \in Tasks : task[k] # "none" => WaitsForMemory(k)
           \/ /\ \E e \in SceneEvents : queue = <<e>>
              /\ Shown /\ NoTask /\ semaphore = 0
<1>t. task \in [Tasks -> TaskLabels]
  BY DEF LoaderInv, NoAssertFails, TypeOK
<1>x. ~(Freed /\ Shown)
  BY DEF Freed, Shown
<1>1. ASSUME NEW e \in SceneEvents, queue = <<e>> PROVE NoTask
  <2>1. 1 \in DOMAIN queue /\ queue[1] = e
    BY <1>1
  <2> QED BY <2>1 DEF SceneChanging, TurnsInv, ScenesConsistent
<1>2. CASE NoTask \/ ~subscribed
  <2>1. /\ semaphore = 0
        /\ Settled \/ (Shown /\ \E e \in SceneEvents : queue = <<e>>)
        /\ ~subscribed => Shown
    BY <1>2 DEF TurnsInv, TurnsConsistent
  <2>2. CASE Settled
    BY <2>1, <2>2, <1>2, <1>x DEF Settled, NoTask
  <2>3. CASE Shown /\ \E e \in SceneEvents : queue = <<e>>
    BY <2>1, <2>3, <1>1
  <2> QED BY <2>1, <2>2, <2>3
<1>3. CASE ~NoTask /\ subscribed
  <2>1. PICK k \in Tasks : task[k] # "none"
    BY <1>3 DEF NoTask
  <2>2. AppInTurn(k) /\ \A l \in Tasks : task[l] # "none" => l = k
    BY <2>1, <1>3 DEF TurnsInv, TurnsConsistent
  <2>3. BeforeOrAfter(k) \/ WaitsForMemory(k) \/ OwnsMemory(k)
    BY <2>1, <1>t DEF TurnsInv, DesktopTypeOK, CallbacksConsistent, TaskLabels, Holding,
       BeforeOrAfter, WaitsForMemory, OwnsMemory
  <2>4. CASE BeforeOrAfter(k)
    BY <2>2, <2>4, <1>3 DEF AppInTurn, Settled
  <2>5. CASE WaitsForMemory(k)
    BY <2>2, <2>5, <1>3 DEF AppInTurn
  <2>6. CASE OwnsMemory(k)
    BY <2>2, <2>6 DEF AppInTurn
  <2> QED BY <2>3, <2>4, <2>5, <2>6
<1> QED
  BY <1>2, <1>3

\* Once the desktop has handled an event of an application, it is where the
\* task, if there is one, expects it.
LEMMA HandledTurns ==
    ASSUME TurnsInv, subscribed, desktop = "loop",
           UNCHANGED <<vars, mutex, subscribed, callback, scene, desktop>>,
           queue' = <<>> \/ queue' = <<"BeforeAppStarted">>, semaphore' \in {0, 1},
           am' \in AM!AnimationManagerStruct, am'.failed = "none",
           NoTask => semaphore' = 0 /\ Settled',
           \A k \in Tasks : task[k] # "none" => AppInTurn(k)'
    PROVE  TurnsInv'
<1> USE LoaderAssumption, LoaderDesktopAssumption
<1>u. UNCHANGED <<task, pc, flags, lock_count>>
  BY DEF vars, taskVars, callVars
<1>1. /\ queue' \in Seq(SceneEvents \cup {"BeforeAppStarted", "AfterAppFinished"})
      /\ Len(queue') <= QueueSize
      /\ \A i \in DOMAIN queue' : queue'[i] \notin SceneEvents
  <2>1. CASE queue' = <<>>
    BY <2>1
  <2>2. CASE queue' = <<"BeforeAppStarted">>
    BY <2>2 DEF SceneEvents
  <2> QED BY <2>1, <2>2
<1>2. DesktopTypeOK'
  BY <1>1 DEF TurnsInv, DesktopTypeOK
<1>3. CallbacksConsistent'
  BY <1>u DEF TurnsInv, CallbacksConsistent
<1>4. ScenesConsistent'
  BY <1>1 DEF ScenesConsistent, SceneChanging
<1>5. (NoTask' <=> NoTask) /\ (Claimed' <=> Claimed)
  BY <1>u DEF NoTask, Claimed, Starters, CliAlone
<1>6. TurnsConsistent'
  BY <1>5, <1>u DEF TurnsInv, TurnsConsistent
<1> QED
  BY <1>2, <1>3, <1>4, <1>6 DEF TurnsInv, AnimationInTurns

\* A start is told to a desktop that shows its animation: it gives the memory
\* back and releases the task.
LEMMA BeforeAppStartedTurns ==
    ASSUME TurnsInv, LoaderInv, BeforeAppStarted
    PROVE  TurnsInv'
<1>1. /\ desktop = "loop" /\ queue # <<>> /\ Head(queue) = "BeforeAppStarted"
      /\ queue' = Tail(queue)
      /\ UNCHANGED <<vars, mutex, subscribed, callback, scene, desktop>>
  BY DEF BeforeAppStarted, Takes
<1>u. UNCHANGED task
  BY <1>1 DEF vars, taskVars
<1>2. /\ queue = <<"BeforeAppStarted">> /\ Shown /\ subscribed /\ ~NoTask
      /\ \A k \in Tasks : task[k] # "none" => WaitsForMemory(k)
  BY <1>1, EventInTurn, Queues DEF SceneEvents
<1>3. queue' = <<>>
  BY <1>1, <1>2, Queues
<1>4. scene = "main"
  BY <1>2, Zenon DEF TurnsInv, DesktopTypeOK
<1>5. am' = AM!animation_manager_unload_and_stall_animation(am) /\ semaphore' = 1
  BY <1>4 DEF BeforeAppStarted
<1>6. am' \in AM!AnimationManagerStruct /\ am'.failed = "none" /\ Freed'
  <2>1. /\ am \in AM!AnimationManagerStruct /\ am.failed = "none"
        /\ am.current_animation # "none" /\ am.freezed_animation_name = "none"
        /\ am.state \in {"Idle", "Blocked"}
    BY <1>2 DEF TurnsInv, AnimationInTurns, Shown, AM!animation_manager_is_animation_loaded
  <2> QED BY <2>1, <1>5, UnloadFrees DEF Freed, AM!animation_manager_is_animation_loaded
<1>7. \A k \in Tasks : task[k] # "none" => AppInTurn(k)'
  BY <1>1, <1>2, <1>3, <1>5, <1>6, <1>u
     DEF AppInTurn, BeforeOrAfter, WaitsForMemory, OwnsMemory
<1> QED
  BY <1>1, <1>2, <1>3, <1>5, <1>6, <1>7, HandledTurns

\* An end is told to a desktop that has freed its animation: it loads one.
LEMMA AfterAppFinishedTurns ==
    ASSUME TurnsInv, LoaderInv, AfterAppFinished
    PROVE  TurnsInv'
<1>1. /\ desktop = "loop" /\ queue # <<>> /\ Head(queue) = "AfterAppFinished"
      /\ queue' = Tail(queue)
      /\ UNCHANGED <<vars, mutex, subscribed, callback, scene, desktop, semaphore>>
  BY DEF AfterAppFinished, Takes
<1>u. UNCHANGED task
  BY <1>1 DEF vars, taskVars
<1>2. /\ Freed /\ subscribed /\ semaphore = 0
      /\ \/ /\ queue = <<"AfterAppFinished">>
            /\ \A k \in Tasks : task[k] # "none" => BeforeOrAfter(k)
         \/ /\ queue = <<"AfterAppFinished", "BeforeAppStarted">> /\ ~NoTask
            /\ \A k \in Tasks : task[k] # "none" => WaitsForMemory(k)
  BY <1>1, EventInTurn, Queues DEF SceneEvents
<1>4. scene = "main"
  BY <1>2, Zenon DEF TurnsInv, DesktopTypeOK
<1>5. am' = AM!animation_manager_load_and_continue_animation(am, Calm)
  BY <1>4 DEF AfterAppFinished
<1>6. am' \in AM!AnimationManagerStruct /\ am'.failed = "none" /\ Shown'
  <2>1. /\ am \in AM!AnimationManagerStruct /\ am.failed = "none"
        /\ am.current_animation = "none" /\ am.freezed_animation_name # "none"
        /\ am.state \in {"FreezedIdle", "FreezedBlocked"}
    BY <1>2 DEF TurnsInv, AnimationInTurns, Freed, AM!animation_manager_is_animation_loaded
  <2> QED BY <2>1, <1>5, LoadShows DEF Shown, AM!animation_manager_is_animation_loaded
<1>7. CASE /\ queue = <<"AfterAppFinished">>
           /\ \A k \in Tasks : task[k] # "none" => BeforeOrAfter(k)
  <2>1. queue' = <<>> /\ Settled'
    BY <1>7, <1>1, <1>6, Queues DEF Settled
  <2>2. \A k \in Tasks : task[k] # "none" => AppInTurn(k)'
    BY <1>7, <1>1, <1>2, <2>1, <1>u DEF AppInTurn, BeforeOrAfter, WaitsForMemory, OwnsMemory
  <2> QED BY <1>1, <1>2, <1>6, <2>1, <2>2, HandledTurns
<1>8. CASE /\ queue = <<"AfterAppFinished", "BeforeAppStarted">> /\ ~NoTask
           /\ \A k \in Tasks : task[k] # "none" => WaitsForMemory(k)
  <2>1. queue' = <<"BeforeAppStarted">>
    BY <1>8, <1>1, Queues
  <2>2. \A k \in Tasks : task[k] # "none" => AppInTurn(k)'
    BY <1>8, <1>1, <1>2, <1>6, <2>1, <1>u
       DEF AppInTurn, BeforeOrAfter, WaitsForMemory, OwnsMemory
  <2> QED BY <1>1, <1>2, <1>6, <1>8, <2>1, <2>2, HandledTurns
<1> QED
  BY <1>2, <1>7, <1>8

\* While nothing else goes on, the scene may change.
LEMMA SceneTurns ==
    ASSUME TurnsInv, NoTask, lock_count = 0, semaphore = 0, Shown,
           UNCHANGED <<vars, mutex, callback, semaphore, am>>,
           subscribed' = (scene' = "main"), scene' \in {"main", "lock_menu"},
           \/ desktop' = "loop"
           \/ desktop' = "exit" /\ scene' = "main"
           \/ desktop' = "enter" /\ scene' = "lock_menu",
           queue' = <<>> \/ (desktop' = "loop" /\ \E e \in SceneEvents : queue' = <<e>>)
    PROVE  TurnsInv'
<1> USE LoaderAssumption, LoaderDesktopAssumption
<1>u. UNCHANGED <<task, pc, flags, lock_count>>
  BY DEF vars, taskVars, callVars
<1>1. /\ queue' \in Seq(SceneEvents \cup {"BeforeAppStarted", "AfterAppFinished"})
      /\ Len(queue') <= QueueSize
  <2>1. CASE queue' = <<>>
    BY <2>1
  <2>2. ASSUME NEW e \in SceneEvents, queue' = <<e>> PROVE <1>1!:
    BY <2>2
  <2> QED BY <2>1, <2>2
<1>2. DesktopTypeOK'
  <2>1. (subscribed = (scene = "main"))'
    OBVIOUS
  <2> QED BY <1>1, <2>1 DEF TurnsInv, DesktopTypeOK
<1>3. NoTask' /\ Shown' /\ lock_count' = 0 /\ semaphore' = 0
  BY <1>u DEF NoTask, Shown
<1>4. CallbacksConsistent'
  BY <1>u DEF TurnsInv, CallbacksConsistent, NoTask
<1>5. ScenesConsistent'
  BY <1>3 DEF ScenesConsistent
<1>6. Settled' \/ (Shown' /\ \E e \in SceneEvents : queue' = <<e>>)
  BY <1>3 DEF Settled
<1>7. TurnsConsistent'
  BY <1>3, <1>6 DEF TurnsConsistent, NoTask
<1> QED
  BY <1>2, <1>4, <1>5, <1>7 DEF TurnsInv, AnimationInTurns

\* While a scene is being changed nothing else goes on.
LEMMA SceneAlone ==
    ASSUME TurnsInv, SceneChanging
    PROVE  /\ NoTask /\ lock_count = 0 /\ semaphore = 0
           /\ queue = <<>> => Shown
<1>1. NoTask /\ lock_count = 0
  BY DEF TurnsInv, ScenesConsistent
<1>2. semaphore = 0 /\ (Settled \/ Shown)
  BY <1>1 DEF TurnsInv, TurnsConsistent
<1> QED
  BY <1>1, <1>2, Queues DEF Settled

\* A key of the user is answered: the desktop is about to change its scene.
LEMMA LockMenuTurns ==
    ASSUME TurnsInv, LoaderInv, OpenLockMenu \/ LockMenuExit
    PROVE  TurnsInv'
<1>1. /\ desktop = "loop" /\ queue # <<>> /\ Head(queue) \in SceneEvents
      /\ queue' = Tail(queue)
      /\ UNCHANGED <<vars, mutex, subscribed, callback, am, semaphore, scene>>
      /\ \/ desktop' = "loop"
         \/ desktop' = "exit" /\ scene = "main"
         \/ desktop' = "enter" /\ scene # "main"
  BY DEF OpenLockMenu, LockMenuExit, Takes, SceneEvents
<1>2. PICK e \in SceneEvents : queue = <<e>> /\ Shown /\ NoTask /\ semaphore = 0
  BY <1>1, EventInTurn, Queues DEF SceneEvents
<1>3. queue' = <<>>
  BY <1>1, <1>2, Queues
<1>4. lock_count = 0
  <2>1. 1 \in DOMAIN queue /\ queue[1] = e
    BY <1>2
  <2> QED BY <2>1 DEF SceneChanging, TurnsInv, ScenesConsistent
<1>5. subscribed' = (scene' = "main") /\ scene' \in {"main", "lock_menu"}
  <2>1. subscribed = (scene = "main") /\ scene \in {"main", "lock_menu"}
    BY DEF TurnsInv, DesktopTypeOK
  <2>2. subscribed' = subscribed /\ scene' = scene
    BY <1>1
  <2> QED BY <2>1, <2>2, Zenon
<1> QED
  BY <1>1, <1>2, <1>3, <1>4, <1>5, SceneTurns

\* The main scene is left, or entered: no release of the semaphore is pending.
LEMMA SceneChangeTurns ==
    ASSUME TurnsInv, desktop_scene_main_on_exit \/ desktop_scene_main_on_enter
    PROVE  TurnsInv'
<1>1. /\ desktop \in {"exit", "enter"} /\ desktop' = "loop"
      /\ UNCHANGED <<vars, mutex, callback, queue, semaphore>>
      /\ am' = AM!Assert(am, semaphore = 0, "semaphore")
      /\ scene' \in {"main", "lock_menu"}
  BY DEF desktop_scene_main_on_exit, desktop_scene_main_on_enter
<1>2. subscribed' = (scene' = "main")
  <2>1. CASE desktop_scene_main_on_exit
    <3>1. subscribed' = FALSE /\ scene' # "main"
      BY <2>1 DEF desktop_scene_main_on_exit
    <3> QED BY <3>1
  <2>2. CASE desktop_scene_main_on_enter
    <3>1. subscribed' = TRUE /\ scene' = "main"
      BY <2>2 DEF desktop_scene_main_on_enter
    <3> QED BY <3>1
  <2> QED BY <2>1, <2>2
<1>3. SceneChanging /\ queue = <<>>
  BY <1>1 DEF SceneChanging, TurnsInv, ScenesConsistent
<1>4. NoTask /\ lock_count = 0 /\ semaphore = 0 /\ Shown
  BY <1>3, SceneAlone
<1>5. am' = am
  BY <1>1, <1>4 DEF AM!Assert
<1> QED
  BY <1>1, <1>2, <1>3, <1>4, <1>5, SceneTurns

\* The user presses a key while the desktop has nothing to do.
LEMMA InputTurns ==
    ASSUME TurnsInv, desktop_main_input, Overlaps = {}
    PROVE  TurnsInv'
<1>1. /\ Quiet /\ ~SceneChanging
      /\ UNCHANGED <<vars, mutex, subscribed, callback, semaphore, scene, desktop, am>>
  BY DEF desktop_main_input
<1>2. PICK e \in SceneEvents : queue' = Append(queue, e)
  BY DEF desktop_main_input, SceneEvents
<1>3. desktop' = "loop" /\ NoTask /\ lock_count = 0 /\ queue = <<>>
  BY <1>1 DEF Quiet, NoTask, SceneChanging
<1>4. semaphore = 0 /\ Shown
  BY <1>3, Queues DEF TurnsInv, TurnsConsistent, Settled
<1>5. queue' = <<e>>
  BY <1>2, <1>3, Queues
<1>6. subscribed' = (scene' = "main") /\ scene' \in {"main", "lock_menu"}
  <2>1. subscribed = (scene = "main") /\ scene \in {"main", "lock_menu"}
    BY DEF TurnsInv, DesktopTypeOK
  <2>2. subscribed' = subscribed /\ scene' = scene
    BY <1>1
  <2> QED BY <2>1, <2>2, Zenon
<1> QED
  BY <1>1, <1>3, <1>4, <1>5, <1>6, SceneTurns

\* Every step of the loader and the desktop keeps the turns.
LEMMA TurnsNext ==
    ASSUME TurnsInv, LoaderInv, [DesktopNext]_allVars, Overlaps = {}
    PROVE  TurnsInv'
<1>1. CASE LoaderAlone
  BY <1>1, LoaderAloneTurns
<1>2. ASSUME NEW k \in Tasks, TaskInDesktop(k) PROVE TurnsInv'
  BY <1>2, PublishTurns, SendTurns, AcquireTurns, ReturnTurns DEF TaskInDesktop
<1>3. CASE DesktopStep
  BY <1>3, BeforeAppStartedTurns, AfterAppFinishedTurns, LockMenuTurns, SceneChangeTurns
     DEF DesktopStep
<1>4. CASE desktop_main_input
  BY <1>4, InputTurns
<1>5. CASE UNCHANGED allVars
  <2>1. UNCHANGED <<task, pc, flags, lock_count, mutex, subscribed, callback, queue,
                    semaphore, scene, desktop, am>>
    BY <1>5 DEF allVars, desktopVars, vars, taskVars, callVars
  <2>2. DesktopTypeOK' /\ (am \in AM!AnimationManagerStruct)' /\ AnimationInTurns'
    BY <2>1 DEF TurnsInv, DesktopTypeOK, AnimationInTurns
  <2>3. CallbacksConsistent'
    BY <2>1 DEF TurnsInv, CallbacksConsistent
  <2>4. /\ (Shown' <=> Shown) /\ (Settled' <=> Settled) /\ (Freed' <=> Freed)
        /\ (SceneChanging' <=> SceneChanging) /\ (Claimed' <=> Claimed)
        /\ (NoTask' <=> NoTask)
    BY <2>1 DEF Shown, Settled, Freed, SceneChanging, Claimed, Starters, CliAlone, NoTask
  <2>5. ScenesConsistent'
    BY <2>1, <2>4 DEF TurnsInv, ScenesConsistent
  <2>6. \A k \in Tasks : AppInTurn(k) => AppInTurn(k)'
    BY <2>1, <2>4 DEF AppInTurn, BeforeOrAfter, WaitsForMemory, OwnsMemory
  <2>7. TurnsConsistent'
    BY <2>1, <2>4, <2>6 DEF TurnsInv, TurnsConsistent
  <2> QED BY <2>2, <2>3, <2>5, <2>7 DEF TurnsInv
<1> QED
  BY <1>1, <1>2, <1>3, <1>4, <1>5 DEF DesktopNext

\* The memory of the animation changes hands in turns (desktop_scene_main.c,
\* animation_manager.c), when a start waits for the end of the application
\* before it and the scene is changed while no application is around.
THEOREM TurnsInvariant ==
    ASSUME Overlaps = {}
    PROVE  DesktopSpec => []TurnsInv
<1>1. TurnsInv /\ LoaderInv /\ [DesktopNext]_allVars => TurnsInv'
  BY TurnsNext
<1> QED
  BY <1>1, TurnsInit, DesktopLoaderInvariant, PTL DEF DesktopSpec

\* An application runs only after the desktop has given the memory of its
\* animation back: the semaphore does its work, whatever the number of callers
\* and tasks and the size of the queue.
THEOREM AppHasMemory ==
    ASSUME Overlaps = {}
    PROVE  DesktopSpec => []AppHasTheMemory
<1>1. TurnsInv => AppHasTheMemory
  <2> SUFFICES ASSUME TurnsInv PROVE AppHasTheMemory
      OBVIOUS
  <2>1. DesktopTypeOK
    BY DEF TurnsInv
  <2>2. ASSUME NEW k \in Tasks, task[k] = "run", scene = "main"
        PROVE  ~AM!animation_manager_is_animation_loaded(am)
    <3>1. subscribed
      BY <2>1, <2>2, Zenon DEF DesktopTypeOK
    <3>2. AppInTurn(k) /\ OwnsMemory(k)
      BY <2>2, <3>1 DEF TurnsInv, TurnsConsistent, OwnsMemory
    <3> QED BY <3>2 DEF AppInTurn, Freed
  <2> QED BY <2>1, <2>2 DEF AppHasTheMemory
<1> QED
  BY <1>1, TurnsInvariant, PTL

\* No assertion of the animation manager or of the main scene about the
\* semaphore fails.
THEOREM AnimationTakesTurns ==
    ASSUME Overlaps = {}
    PROVE  DesktopSpec => []AnimationInTurns
<1>1. TurnsInv => AnimationInTurns
  BY DEF TurnsInv
<1> QED
  BY <1>1, TurnsInvariant, PTL
=============================================================================
