------------------------------ MODULE WorkItem ------------------------------
(***************************************************************************)
(* The modules of 04_Example that hand work to the system workqueue:       *)
(* 003_wait_queue, 009_work_queue and 013_system_workqueue.                *)
(*                                                                         *)
(* Init queues one work item.  In 003 and 009 it then sleeps, with         *)
(* wait_event_interruptible, until the handler has set a flag and woken    *)
(* it; 009 then frees the memory the two share, in 013 the handler does.   *)
(* No exit function waits for the handler.  The handler runs in a worker   *)
(* of its own; the steps in which the two touch shared memory interleave.  *)
(*                                                                         *)
(* No name is one of DeferredCallbacks, so that DeferredWorkProofs can     *)
(* extend both.                                                            *)
(***************************************************************************)
EXTENDS Integers

CONSTANT WorkExamples \* the modules that are loaded and unloaded

VARIABLES user,         \* the module that is loaded
          userState,    \* of the module
          ipc,          \* where its init function is
          hpc,          \* where the handler is
          flag,         \* condition, done or completed
          mem,          \* my_data
          frees,        \* how often it was freed
          waiting,      \* init is on the wait queue
          woken,        \* it was woken since it last got on it
          locked,       \* the handler holds the lock of the wait queue
          signalled,    \* a signal is pending for the loading process
          interrupted   \* the wait ended with -ERESTARTSYS

memory == <<mem, frees>>
waitQueue == <<waiting, woken, locked>>
signal == <<signalled, interrupted>>
workVars == <<user, userState, ipc, hpc, flag, memory, waitQueue, signal>>

WaitQueue003  == [waits |-> TRUE,  frees |-> "nobody"]
WorkQueue009  == [waits |-> TRUE,  frees |-> "init"]
WorkQueue013  == [waits |-> FALSE, frees |-> "handler"]

WorkInit ==
  /\ user \in WorkExamples
  /\ userState = "init" /\ ipc = "alloc" /\ hpc = "none"
  /\ flag = FALSE /\ mem = "none" /\ frees = 0
  /\ waiting = FALSE /\ woken = FALSE /\ locked = FALSE
  /\ signalled = FALSE /\ interrupted = FALSE

-----------------------------------------------------------------------------
(* The init function.                                                      *)

(* In 003 everything is static.                                            *)
Allocate ==
  /\ ipc = "alloc"
  /\ mem' = IF user.frees = "nobody" THEN "none" ELSE "live"
  /\ ipc' = "queue"
  /\ UNCHANGED <<user, userState, hpc, flag, frees, waitQueue, signal>>

(* -ENOMEM: the module is not loaded.                                      *)
NoMemory ==
  /\ ipc = "alloc" /\ user.frees # "nobody"
  /\ ipc' = "failed"
  /\ userState' = "gone"
  /\ UNCHANGED <<user, hpc, flag, memory, waitQueue, signal>>

ScheduleWork ==
  /\ ipc = "queue"
  /\ hpc' = "pending"
  /\ ipc' = IF user.waits THEN "check" ELSE "return"
  /\ UNCHANGED <<user, userState, flag, memory, waitQueue, signal>>

AfterWait == IF user.frees = "init" THEN "free" ELSE "return"

(* wait_event_interruptible: the flag is read once before the wait queue   *)
(* is touched, and again each time after init has got on the queue.        *)
CheckFlag ==
  /\ ipc = "check"
  /\ ipc' = IF flag THEN AfterWait ELSE "prepare"
  /\ UNCHANGED <<user, userState, hpc, flag, memory, waitQueue, signal>>

PrepareToWait ==
  /\ ipc = "prepare" /\ ~ locked
  /\ waiting' = ~ signalled
  /\ interrupted' = signalled
  /\ woken' = FALSE
  /\ ipc' = "recheck"
  /\ UNCHANGED <<user, userState, hpc, flag, memory, locked, signalled>>

Recheck ==
  /\ ipc = "recheck"
  /\ ipc' = IF flag \/ interrupted THEN "finish" ELSE "asleep"
  /\ interrupted' = (interrupted /\ ~ flag)
  /\ UNCHANGED <<user, userState, hpc, flag, memory, waitQueue, signalled>>

Awake ==
  /\ ipc = "asleep"
  /\ woken \/ signalled
  /\ ipc' = "prepare"
  /\ UNCHANGED <<user, userState, hpc, flag, memory, waitQueue, signal>>

(* The lock of the queue is taken only if init is still on it.             *)
FinishWait ==
  /\ ipc = "finish"
  /\ waiting => ~ locked
  /\ waiting' = FALSE
  /\ ipc' = AfterWait
  /\ UNCHANGED <<user, userState, hpc, flag, memory, woken, locked, signal>>

Signal ==
  /\ ipc \in {"check", "prepare", "recheck", "asleep"}
  /\ ~ signalled
  /\ signalled' = TRUE
  /\ UNCHANGED <<user, userState, ipc, hpc, flag, memory, waitQueue, interrupted>>

InitFrees ==
  /\ ipc = "free"
  /\ mem' = "freed" /\ frees' = frees + 1
  /\ ipc' = "return"
  /\ UNCHANGED <<user, userState, hpc, flag, waitQueue, signal>>

(* The result of wait_event_interruptible is not looked at.                *)
InitSucceeds ==
  /\ ipc = "return"
  /\ ipc' = "returned"
  /\ userState' = "live"
  /\ UNCHANGED <<user, hpc, flag, memory, waitQueue, signal>>

(* The exit function only prints.                                          *)
Unload ==
  /\ userState = "live"
  /\ userState' = "gone"
  /\ UNCHANGED <<user, ipc, hpc, flag, memory, waitQueue, signal>>

-----------------------------------------------------------------------------
(* The handler.                                                            *)

(* Slip: the flag is set before the work is done.                          *)
HandlerBegins_SetsFlag ==
  /\ hpc = "pending"
  /\ hpc' = "work"
  /\ flag' = TRUE
  /\ UNCHANGED <<user, userState, ipc, memory, waitQueue, signal>>

HandlerBegins ==
  /\ hpc = "pending"
  /\ hpc' = "work"
  /\ UNCHANGED <<user, userState, ipc, flag, memory, waitQueue, signal>>

(* Slip: the handler of 013 frees before it wakes anybody.                 *)
HandlerSetsFlag_Frees ==
  /\ hpc = "work"
  /\ flag' = TRUE
  /\ hpc' = "wake"
  /\ mem' = IF user.frees = "handler" THEN "freed" ELSE mem
  /\ UNCHANGED <<user, userState, ipc, frees, waitQueue, signal>>

HandlerSetsFlag ==
  /\ hpc = "work"
  /\ flag' = TRUE
  /\ hpc' = "wake"
  /\ UNCHANGED <<user, userState, ipc, memory, waitQueue, signal>>

(* Slip: nobody is woken.                                                  *)
HandlerWakes_Forgets ==
  /\ hpc = "wake"
  /\ locked' = TRUE
  /\ hpc' = "unlock"
  /\ UNCHANGED <<user, userState, ipc, flag, memory, waiting, woken, signal>>

(* wake_up_interruptible: whoever is on the queue is taken off it and      *)
(* woken, under the lock of the queue.                                     *)
HandlerWakes ==
  /\ hpc = "wake"
  /\ locked' = TRUE
  /\ woken' = (woken \/ waiting)
  /\ waiting' = FALSE
  /\ hpc' = "unlock"
  /\ UNCHANGED <<user, userState, ipc, flag, memory, signal>>

(* Slip: nobody frees.                                                     *)
HandlerUnlocks_Keeps ==
  /\ hpc = "unlock"
  /\ locked' = FALSE
  /\ hpc' = "return"
  /\ UNCHANGED <<user, userState, ipc, flag, memory, waiting, woken, signal>>

HandlerUnlocks ==
  /\ hpc = "unlock"
  /\ locked' = FALSE
  /\ hpc' = IF user.frees = "handler" THEN "free" ELSE "return"
  /\ UNCHANGED <<user, userState, ipc, flag, memory, waiting, woken, signal>>

HandlerFrees ==
  /\ hpc = "free"
  /\ mem' = "freed" /\ frees' = frees + 1
  /\ hpc' = "return"
  /\ UNCHANGED <<user, userState, ipc, flag, waitQueue, signal>>

HandlerReturns ==
  /\ hpc = "return"
  /\ hpc' = "returned"
  /\ UNCHANGED <<user, userState, ipc, flag, memory, waitQueue, signal>>

-----------------------------------------------------------------------------
InitStep ==
  \/ Allocate \/ NoMemory \/ ScheduleWork
  \/ CheckFlag \/ PrepareToWait \/ Recheck \/ Awake \/ FinishWait
  \/ InitFrees \/ InitSucceeds

HandlerStep ==
  \/ HandlerBegins \/ HandlerSetsFlag \/ HandlerWakes \/ HandlerUnlocks
  \/ HandlerFrees \/ HandlerReturns

WorkNext == InitStep \/ HandlerStep \/ Signal \/ Unload

WorkSpec == WorkInit /\ [][WorkNext]_workVars

(* The scheduler runs the loading process and the worker whenever they can *)
(* run; no signal need come and nobody need unload.                        *)
WorkFairSpec == WorkSpec /\ WF_workVars(InitStep) /\ WF_workVars(HandlerStep)

-----------------------------------------------------------------------------
(* Properties                                                              *)

WorkTypeOK ==
  /\ user \in WorkExamples
  /\ userState \in {"init", "live", "gone"}
  /\ ipc \in {"alloc", "queue", "check", "prepare", "recheck", "asleep", "finish",
              "free", "return", "returned", "failed"}
  /\ hpc \in {"none", "pending", "work", "wake", "unlock", "free", "return", "returned"}
  /\ mem \in {"none", "live", "freed"}
  /\ frees \in 0 .. 1
  /\ {flag, waiting, woken, locked, signalled, interrupted} \subseteq BOOLEAN

(* Where the handler has yet to touch my_data, which includes the wait     *)
(* queue whose lock it holds and the work item while it is queued.         *)
HandlerUsesData == hpc \in {"pending", "work", "wake", "unlock", "free"}

(* The handler of 009 can find its data freed by init, for which "done"    *)
(* indicates completion (work_queue_example.c:16).                         *)
NoUseAfterFree == HandlerUsesData => mem # "freed"

(* Memory is freed under the handler in one module and at one moment only: *)
(* never in 003 and in 013, which leaves it to the handler; in 009 not     *)
(* unless init was interrupted or saw the flag before it was woken.        *)
HandlerOwnsData ==
  HandlerUsesData /\ mem = "freed" =>
    user = WorkQueue009 /\ (interrupted \/ hpc \in {"wake", "unlock"})

(* my_data is never freed twice, and has been by the time both are         *)
(* through, also when init was interrupted or came too late to be woken.   *)
DataIsFreed ==
  /\ frees <= 1
  /\ ipc = "returned" /\ hpc = "returned" /\ user.frees # "nobody" => frees = 1

(* An init that was not interrupted has not returned before the work was   *)
(* done: 003 and 009 cannot be unloaded earlier.                           *)
WorkIsDone == hpc \in {"wake", "unlock", "free", "return", "returned"}

ReturnsOnlyWhenDone ==
  user.waits /\ ipc \in {"free", "return", "returned"} /\ ~ interrupted => WorkIsDone

(* The wake-up is not lost, wherever between its looks at the flag init is *)
(* when the handler sets it: without a signal, init returns.               *)
InitFinishes == <>(ipc \in {"returned", "failed"})
=============================================================================
