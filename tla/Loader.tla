------------------------------- MODULE Loader -------------------------------
(***************************************************************************)
(* Starting and stopping applications: applications/loader/loader.c, the   *)
(* FuriThread it runs them on (core/furi/thread.c), the CLI that shares    *)
(* its lock (cli_execute_command in applications/cli/cli.c) and the        *)
(* insomnia counter both use (furi_hal_power.c).                           *)
(*                                                                         *)
(* Callers are the threads that call loader_start or choose an             *)
(* application in the loader's menu; Cli is the console thread.  There is  *)
(* one FuriThread, application_thread, but every start gives it a new RTOS *)
(* task, and a task whose application is over may still be busy in the     *)
(* state callback when the next one starts.  lock_count and insomnia are   *)
(* changed in critical sections; the other fields are bare memory, written *)
(* by whoever thinks it has the lock, so each block of assignments is a    *)
(* step of its own.                                                        *)
(*                                                                         *)
(* Publishing an event is a call that begins and ends (Publish, Published):*)
(* what happens in between belongs to the subscribers.                     *)
(*                                                                         *)
(* osThreadNew does not fail: it fails only without memory, and then       *)
(* pvPortMalloc has crashed the firmware already (memmgr_heap.c:470).      *)
(***************************************************************************)
EXTENDS Naturals, FiniteSets

CONSTANTS Callers,   \* threads that start applications
          Cli,       \* the console thread
          Tasks,     \* RTOS tasks the applications run in
          Apps,      \* applications
          NULL,
          CountMax   \* UINT8_MAX, where lock_count and insomnia end

ASSUME LoaderAssumption ==
    /\ NULL \notin Callers \cup Tasks \cup Apps \cup {Cli}
    /\ NULL \notin {"insomnia", "start", "body"}
    /\ Cli \notin Callers
    /\ CountMax \in Nat /\ CountMax >= 2

VARIABLES lock_count,            \* loader->lock_count
          application_arguments, \* the string it points to, by who made it
          thread_state,          \* application_thread->state
          thread_job,            \* its callback and its context
          insomnia,              \* furi_hal_power.insomnia
          pc,                    \* where each caller and the CLI is
          request,               \* the job it wants to start
          flags,                 \* flags of the command the CLI executes
          task,                  \* task[k]: where task k is
          wanted,                \* wanted[k]: the job task k was made for
          running,               \* running[k]: the job task k runs
          fault                  \* the assertion that halted the firmware

threadVars == <<application_arguments, thread_state, thread_job>>
taskVars == <<task, wanted, running>>
callVars == <<pc, request, flags>>
vars == <<lock_count, threadVars, insomnia, callVars, taskVars, fault>>

\* An application and the argument string its caller made for it, if any.
Job == [app : Apps, arguments : Callers \cup {Cli, NULL}]

CliFlags == [ParallelSafe : BOOLEAN, InsomniaSafe : BOOLEAN]

Init ==
    /\ lock_count = 0
    /\ application_arguments = NULL
    /\ thread_state = "Stopped"
    /\ thread_job = NULL
    /\ insomnia = 0
    /\ pc = [c \in Callers \cup {Cli} |-> "idle"]
    /\ request = [c \in Callers \cup {Cli} |-> NULL]
    /\ flags = NULL
    /\ task = [k \in Tasks |-> "none"]
    /\ wanted = [k \in Tasks |-> NULL]
    /\ running = [k \in Tasks |-> NULL]
    /\ fault = NULL

Running == fault = NULL

Goto(c, l) == pc' = [pc EXCEPT ![c] = l]
TaskGoto(k, l) == task' = [task EXCEPT ![k] = l]

\* The step goes on, unless the asserted condition is false.
Assert(condition, what) == fault' = IF condition THEN NULL ELSE what

-----------------------------------------------------------------------------
(* The lock and the insomnia counter *)

LockTaken == lock_count' = lock_count + 1
loader_lock == lock_count = 0 /\ LockTaken
LockRefused == lock_count # 0 /\ UNCHANGED lock_count

loader_unlock == lock_count' = IF lock_count > 0 THEN lock_count - 1 ELSE 0

furi_hal_power_insomnia_enter ==
    /\ Assert(insomnia < CountMax, "insomnia")
    /\ insomnia' = insomnia + 1

furi_hal_power_insomnia_exit ==
    /\ Assert(insomnia > 0, "insomnia")
    /\ insomnia' = IF insomnia > 0 THEN insomnia - 1 ELSE CountMax

-----------------------------------------------------------------------------
(* Starting an application: Callers and the CLI's loader open *)

\* loader_start and loader_menu_callback: take the lock or give up.
loader_start(c) ==
    /\ Running
    /\ pc[c] = "idle"
    /\ \E j \in [app : Apps, arguments : {c, NULL}] :
        \/ /\ loader_lock
           /\ Goto(c, "locked")
           /\ request' = [request EXCEPT ![c] = j]
        \/ /\ LockRefused
           /\ UNCHANGED <<pc, request>>
    /\ UNCHANGED <<threadVars, insomnia, flags, taskVars, fault>>

PrepareWithoutContext(c) ==
    /\ Running
    /\ pc[c] = "locked"
    /\ Assert(application_arguments = NULL /\ thread_state = "Stopped",
              "start")
    /\ application_arguments' = request[c].arguments
    /\ thread_job' = [request[c] EXCEPT !.arguments = NULL]
    /\ Goto(c, "prepared")
    /\ UNCHANGED <<lock_count, thread_state, insomnia, request, flags,
                   taskVars>>

\* loader_start_application up to furi_thread_start: the arguments and the
\* setters of the thread, which assert that it is stopped.
loader_start_application(c) ==
    /\ Running
    /\ pc[c] = "locked"
    /\ Assert(application_arguments = NULL /\ thread_state = "Stopped",
              "start")
    /\ application_arguments' = request[c].arguments
    /\ thread_job' = request[c]
    /\ Goto(c, "prepared")
    /\ UNCHANGED <<lock_count, thread_state, insomnia, request, flags,
                   taskVars>>

\* furi_thread_start: the loader's state callback ignores Starting.
furi_thread_start(c) ==
    /\ Running
    /\ pc[c] = "prepared"
    /\ Assert(thread_state = "Stopped", "start")
    /\ thread_state' = "Starting"
    /\ \E k \in Tasks :
        /\ task[k] = "none"
        /\ TaskGoto(k, "created")
        /\ wanted' = [wanted EXCEPT ![k] = request[c]]
    /\ Goto(c, IF c = Cli THEN "opened" ELSE "idle")
    /\ request' = [request EXCEPT ![c] = NULL]
    /\ UNCHANGED <<lock_count, application_arguments, thread_job, insomnia,
                   flags, running>>

-----------------------------------------------------------------------------
(* The CLI *)

\* cli_execute_command: insomnia first.
cli_execute_command(f) ==
    /\ Running
    /\ pc[Cli] = "idle"
    /\ flags' = f
    /\ IF f.InsomniaSafe THEN UNCHANGED <<insomnia, fault>>
                         ELSE furi_hal_power_insomnia_enter
    /\ Goto(Cli, "command")
    /\ UNCHANGED <<lock_count, threadVars, request, taskVars>>

\* "Ensure that we running alone", unless the command is ParallelSafe.
CliLock ==
    /\ Running
    /\ pc[Cli] = "command"
    /\ \/ /\ flags.ParallelSafe
          /\ Goto(Cli, "executing")
          /\ UNCHANGED lock_count
       \/ /\ ~flags.ParallelSafe
          /\ loader_lock
          /\ Goto(Cli, "executing")
       \/ /\ ~flags.ParallelSafe
          /\ LockRefused
          /\ Goto(Cli, "leaving")
    /\ UNCHANGED <<threadVars, insomnia, request, flags, taskVars, fault>>

\* The command is loader open, registered with CliCommandFlagDefault, and the
\* application is found.
loader_cli_open ==
    /\ Running
    /\ pc[Cli] = "executing"
    /\ flags = [ParallelSafe |-> FALSE, InsomniaSafe |-> FALSE]
    /\ \E j \in [app : Apps, arguments : {Cli, NULL}] :
          request' = [request EXCEPT ![Cli] = j]
    /\ Goto(Cli, "locked")
    /\ UNCHANGED <<lock_count, threadVars, insomnia, flags, taskVars, fault>>

\* "We must to increment lock counter to keep balance"
OpenWithoutBalance ==
    /\ Running
    /\ pc[Cli] = "opened"
    /\ Goto(Cli, "executed")
    /\ UNCHANGED <<lock_count, threadVars, insomnia, request, flags, taskVars,
                   fault>>

CliBalance ==
    /\ Running
    /\ pc[Cli] = "opened"
    /\ LockTaken
    /\ Goto(Cli, "executed")
    /\ UNCHANGED <<threadVars, insomnia, request, flags, taskVars, fault>>

\* Any other command returns.
CliCommandReturns ==
    /\ Running
    /\ pc[Cli] = "executing"
    /\ Goto(Cli, "executed")
    /\ UNCHANGED <<lock_count, threadVars, insomnia, request, flags, taskVars,
                   fault>>

CliUnlock ==
    /\ Running
    /\ pc[Cli] = "executed"
    /\ IF flags.ParallelSafe THEN UNCHANGED lock_count ELSE loader_unlock
    /\ Goto(Cli, "leaving")
    /\ UNCHANGED <<threadVars, insomnia, request, flags, taskVars, fault>>

CliLeave ==
    /\ Running
    /\ pc[Cli] = "leaving"
    /\ IF flags.InsomniaSafe THEN UNCHANGED <<insomnia, fault>>
                             ELSE furi_hal_power_insomnia_exit
    /\ flags' = NULL
    /\ Goto(Cli, "idle")
    /\ UNCHANGED <<lock_count, threadVars, request, taskVars>>

-----------------------------------------------------------------------------
(* The application's task: furi_thread_body and loader_thread_state_callback *)

\* A step of a task that moves it from one label to the next and leaves what
\* the callers work on alone.
Move(k, from, to) ==
    /\ Running
    /\ task[k] = from
    /\ TaskGoto(k, to)
    /\ UNCHANGED <<callVars, thread_job, wanted>>

\* furi_thread_set_state(Running); then the state callback runs.
furi_thread_body(k) ==
    /\ Move(k, "created", "start event")
    /\ Assert(thread_state = "Starting", "body")
    /\ thread_state' = "Running"
    /\ UNCHANGED <<lock_count, application_arguments, insomnia, running>>

\* furi_pubsub_publish(ApplicationStarted) is called ...
PublishStarted(k) ==
    /\ Move(k, "start event", "starting")
    /\ UNCHANGED <<lock_count, application_arguments, thread_state, insomnia,
                   running, fault>>

\* ... and returns.
StartedPublished(k) ==
    /\ Move(k, "starting", "started")
    /\ UNCHANGED <<lock_count, application_arguments, thread_state, insomnia,
                   running, fault>>

\* Insomnia, and then thread->callback(thread->context).
RunApplication(k) ==
    /\ Move(k, "started", "run")
    /\ furi_hal_power_insomnia_enter
    /\ running' = [running EXCEPT ![k] = thread_job]
    /\ UNCHANGED <<lock_count, application_arguments, thread_state>>

\* The application returns; the thread is Stopped before its callback runs.
ApplicationReturns(k) ==
    /\ Move(k, "run", "stopped")
    /\ Assert(thread_state = "Running", "body")
    /\ thread_state' = "Stopped"
    /\ running' = [running EXCEPT ![k] = NULL]
    /\ UNCHANGED <<lock_count, application_arguments, insomnia>>

FreeArguments(k) ==
    /\ Move(k, "stopped", "freed")
    /\ application_arguments' = NULL
    /\ UNCHANGED <<lock_count, thread_state, insomnia, running, fault>>

Rest(k) ==
    /\ Move(k, "freed", "rested")
    /\ furi_hal_power_insomnia_exit
    /\ UNCHANGED <<lock_count, application_arguments, thread_state, running>>

Unlock(k) ==
    /\ Move(k, "rested", "stop event")
    /\ loader_unlock
    /\ UNCHANGED <<application_arguments, thread_state, insomnia, running,
                   fault>>

\* furi_pubsub_publish(ApplicationStopped) is called ...
PublishStopped(k) ==
    /\ Move(k, "stop event", "stopping")
    /\ UNCHANGED <<lock_count, application_arguments, thread_state, insomnia,
                   running, fault>>

\* ... returns, and the task ends in osThreadExit.
osThreadExit(k) ==
    /\ Running
    /\ task[k] = "stopping"
    /\ TaskGoto(k, "none")
    /\ wanted' = [wanted EXCEPT ![k] = NULL]
    /\ UNCHANGED <<lock_count, threadVars, insomnia, callVars, running, fault>>

-----------------------------------------------------------------------------
StartStep(c) == loader_start_application(c) \/ furi_thread_start(c)

CliStep ==
    \/ StartStep(Cli)
    \/ CliLock
    \/ CliBalance
    \/ CliUnlock
    \/ CliLeave

TaskOwnStep(k) ==
    \/ furi_thread_body(k)
    \/ RunApplication(k)
    \/ FreeArguments(k)
    \/ Rest(k)
    \/ Unlock(k)

PublishStep(k) ==
    \/ PublishStarted(k)
    \/ StartedPublished(k)
    \/ PublishStopped(k)
    \/ osThreadExit(k)

\* Everything but the publish calls, which the subscribers take part in.
LoaderStep ==
    \/ \E c \in Callers : loader_start(c) \/ StartStep(c)
    \/ \E f \in CliFlags : cli_execute_command(f)
    \/ loader_cli_open
    \/ CliStep
    \/ CliCommandReturns
    \/ \E k \in Tasks : TaskOwnStep(k) \/ ApplicationReturns(k)

Next == LoaderStep \/ \E k \in Tasks : PublishStep(k)

\* Threads inside the code run on and subscribers return from their callbacks;
\* nobody has to start an application or a command, and none has to end.
Fairness ==
    /\ \A c \in Callers : WF_vars(StartStep(c))
    /\ WF_vars(CliStep)
    /\ \A k \in Tasks : WF_vars(TaskOwnStep(k) \/ PublishStep(k))

Spec == Init /\ [][Next]_vars /\ Fairness

-----------------------------------------------------------------------------
(* Properties *)

TaskLabels == {"none", "created", "start event", "starting", "started", "run",
               "stopped", "freed", "rested", "stop event", "stopping"}

\* The state of the loader, its thread and its callers is well formed.
TypeOK ==
    /\ lock_count \in 0..CountMax
    /\ application_arguments \in Callers \cup {Cli, NULL}
    /\ thread_state \in {"Stopped", "Starting", "Running"}
    /\ thread_job \in Job \cup {NULL}
    /\ insomnia \in 0..CountMax
    /\ pc \in [Callers \cup {Cli} -> {"idle", "command", "executing", "locked",
                                      "prepared", "opened", "executed",
                                      "leaving"}]
    /\ request \in [Callers \cup {Cli} -> Job \cup {NULL}]
    /\ flags \in CliFlags \cup {NULL}
    /\ task \in [Tasks -> TaskLabels]
    /\ wanted \in [Tasks -> Job \cup {NULL}]
    /\ running \in [Tasks -> Job \cup {NULL}]
    /\ fault \in {NULL, "insomnia", "start", "body"}

\* Callers and tasks that use application_thread and application_arguments.
Starters == {c \in Callers \cup {Cli} : pc[c] \in {"locked", "prepared"}}
Holding == {"created", "start event", "starting", "started", "run", "stopped",
            "freed", "rested"}
ActiveTasks == {k \in Tasks : task[k] \in Holding}

\* An exclusive CLI command: one that holds the lock and has not passed it on
\* to the application it started.
CliAlone ==
    /\ pc[Cli] \in {"executing", "executed"}
    /\ ~flags.ParallelSafe

\* "Ensure that we running alone" (cli.c:155): one application at a time, from
\* its start to its unlock, and no exclusive command together with one that it
\* did not start itself.
OneAtATime ==
    /\ Cardinality(Starters) + Cardinality(ActiveTasks) <= 1
    /\ pc[Cli] = "executing" /\ CliAlone =>
          Starters = {} /\ ActiveTasks = {}

\* Once everybody is done nothing is left behind: the device may sleep, the
\* loader is unlocked and the next application can start.
QuietWhenIdle ==
    (/\ \A c \in Callers \cup {Cli} : pc[c] = "idle"
     /\ \A k \in Tasks : task[k] = "none") =>
        /\ lock_count = 0
        /\ insomnia = 0
        /\ application_arguments = NULL
        /\ thread_state = "Stopped"

\* The loader, the thread and the insomnia counter never fail an assertion
\* (loader.c:17, thread.c:37, 52, 74-117, furi_hal_power.c:93, 100).
NoAssertFails == TypeOK /\ fault = NULL

\* lock_count is the number of those who still have to unlock; while loader
\* open has not counted for itself (loader.c:125) it is one short, even if the
\* application is over by then.  When all are done nothing is left, and on
\* the way no assertion about the counters and the thread fails.
LockBalanced ==
    /\ NoAssertFails
    /\ QuietWhenIdle
    /\ lock_count + (IF pc[Cli] = "opened" THEN 1 ELSE 0)
         = Cardinality(Starters) + Cardinality(ActiveTasks)
             + (IF CliAlone \/ pc[Cli] = "opened" THEN 1 ELSE 0)

\* An application runs with the function and the arguments its own starter
\* asked for, and the arguments stay allocated until it returns, although the
\* next start writes the same fields.
RunsWhatWasAsked ==
    \A k \in Tasks : task[k] = "run" =>
        /\ running[k] = wanted[k]
        /\ application_arguments = wanted[k].arguments

\* At most one caller or task uses the thread.
OneUser ==
    \/ Starters = {} /\ ActiveTasks = {}
    \/ \E c \in Callers \cup {Cli} : Starters = {c} /\ ActiveTasks = {}
    \/ \E k \in Tasks : Starters = {} /\ ActiveTasks = {k}

Occupied == Starters # {} \/ ActiveTasks # {}

\* What the user of the thread has made of its state, its job and the
\* arguments; without a user it is stopped and the arguments are freed.
ThreadConsistent ==
    /\ ~Occupied => application_arguments = NULL /\ thread_state = "Stopped"
    /\ \A c \in Starters :
        /\ thread_state = "Stopped"
        /\ request[c] \in Job
        /\ pc[c] = "locked" => application_arguments = NULL
        /\ pc[c] = "prepared" => /\ application_arguments = request[c].arguments
                                 /\ thread_job = request[c]
    /\ \A k \in ActiveTasks :
        /\ task[k] = "created" => thread_state = "Starting"
        /\ task[k] \in {"start event", "starting", "started", "run"} =>
              thread_state = "Running"
        /\ task[k] \in {"stopped", "freed", "rested"} => thread_state = "Stopped"
        /\ wanted[k] \in Job
        /\ application_arguments = IF task[k] \in {"freed", "rested"} THEN NULL
                                   ELSE wanted[k].arguments
        /\ task[k] \in {"created", "start event", "starting", "started", "run"} =>
              thread_job = wanted[k]
        /\ task[k] = "run" => running[k] = wanted[k]

\* Only the CLI executes commands; the one that starts applications is loader
\* open, whose flags are CliCommandFlagDefault.
CliConsistent ==
    /\ \A c \in Callers : pc[c] \in {"idle", "locked", "prepared"}
    /\ pc[Cli] # "idle" => flags \in CliFlags
    /\ pc[Cli] \in {"locked", "prepared", "opened"} =>
          ~flags.ParallelSafe /\ ~flags.InsomniaSafe

Count(b) == IF b THEN 1 ELSE 0

\* lock_count counts the user of the thread and the exclusive command, which
\* has no user beside it while it executes.
LockCounts ==
    /\ lock_count = Count(Occupied) + Count(CliAlone)
    /\ pc[Cli] = "executing" /\ CliAlone => ~Occupied

CliAwake == pc[Cli] # "idle" /\ ~flags.InsomniaSafe
TaskAwake == \E k \in Tasks : task[k] \in {"run", "stopped", "freed"}

\* insomnia counts the command and the application that keep the device awake.
InsomniaCounts == insomnia = Count(CliAwake) + Count(TaskAwake)

\* The invariant that is inductive.
LoaderInv ==
    /\ NoAssertFails
    /\ OneUser
    /\ ThreadConsistent
    /\ CliConsistent
    /\ LockCounts
    /\ InsomniaCounts

\* Whoever got the lock to start an application sees one run: no start is lost
\* between the lock, the thread and the events of the application before it.
LockLeadsToRun ==
    \A c \in Callers \cup {Cli} :
        pc[c] = "locked" ~> \E k \in Tasks : task[k] = "run"
=============================================================================
