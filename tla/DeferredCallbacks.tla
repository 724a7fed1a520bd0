------------------------- MODULE DeferredCallbacks -------------------------
(***************************************************************************)
(* The modules of 04_Example whose code runs from timers and tasklets:     *)
(* 004_test_timer, 005_HRT, 008_tasklet, 010_tasklet_timer_interrupts and  *)
(* 011_tasklet_file_monitoring.                                            *)
(*                                                                         *)
(* An example is the calls its init function, its timer callback and its   *)
(* exit function make, in their order.  Init and exit run in the process   *)
(* that loads or unloads the module, the callback in the timer softirq and *)
(* the tasklet in its own, on any CPU: their steps interleave.             *)
(***************************************************************************)
EXTENDS Integers, Sequences

CONSTANTS Examples, \* the modules that are loaded and unloaded
          MaxFires  \* bound on the expiries of a timer

ASSUME MaxFiresAssumption == MaxFires \in Nat \ {0}

VARIABLES ex,       \* the module that is loaded and unloaded
          state,    \* of the module
          ops,      \* the calls its init or exit function has yet to make
          armed,    \* the timer is pending
          firing,   \* its callback runs
          cbOps,    \* the calls the callback has yet to make
          sched,    \* TASKLET_STATE_SCHED
          queued,   \* the tasklet waits to run
          running,  \* TASKLET_STATE_RUN
          fires,    \* timer_count
          requests, \* the calls of tasklet_schedule so far
          served,   \* those of them that were made before the last run began
          data,     \* fsnotify_data is allocated
          filename, \* the event whose file it names
          late      \* was it overwritten before the last event had been handled?

module == <<ex, state, ops>>
timer == <<armed, firing, cbOps, fires>>
tasklet == <<sched, queued, running>>
requested == <<requests, served>>
file == <<data, filename, late>>
vars == <<module, timer, tasklet, requested, file>>

-----------------------------------------------------------------------------
(* The examples.                                                           *)

Timer004 == [init |-> <<"mod_timer">>, callback |-> <<>>, exit |-> <<"del_timer">>]

(* An hrtimer; hrtimer_cancel waits for the callback as del_timer_sync.    *)
Hrt005 == [init |-> <<"mod_timer">>, callback |-> <<>>, exit |-> <<"del_timer_sync">>]

Tasklet008 == [init |-> <<"tasklet_schedule">>, callback |-> <<>>, exit |-> <<"tasklet_kill">>]

(* Slips of 010: exit in the other order; a callback that stops its own    *)
(* timer.                                                                  *)
TimerTasklet010_KillsFirst ==
  [init     |-> <<"mod_timer">>,
   callback |-> <<"tasklet_schedule", "mod_timer">>,
   exit     |-> <<"tasklet_kill", "del_timer_sync">>]
TimerTasklet010_StopsItself ==
  [init     |-> <<"mod_timer">>,
   callback |-> <<"tasklet_schedule", "del_timer_sync">>,
   exit     |-> <<"del_timer_sync", "tasklet_kill">>]
TimerTasklet010 ==
  [init     |-> <<"mod_timer">>,
   callback |-> <<"tasklet_schedule", "mod_timer">>,
   exit     |-> <<"del_timer_sync", "tasklet_kill">>]

(* Slips of 011: the event is scheduled before its file is named; the data *)
(* is freed before the tasklet is killed.                                  *)
FileTasklet011_NamesLater ==
  [init     |-> <<"kzalloc", "tasklet_schedule", "snprintf", "tasklet_schedule", "snprintf",
                  "tasklet_schedule", "snprintf">>,
   callback |-> <<>>,
   exit     |-> <<"tasklet_kill", "kfree">>]
FileTasklet011_FreesFirst ==
  [init     |-> <<"kzalloc", "snprintf", "tasklet_schedule", "snprintf", "tasklet_schedule",
                  "snprintf", "tasklet_schedule">>,
   callback |-> <<>>,
   exit     |-> <<"kfree", "tasklet_kill">>]
FileTasklet011 ==
  [init     |-> <<"kzalloc", "snprintf", "tasklet_schedule", "snprintf", "tasklet_schedule",
                  "snprintf", "tasklet_schedule">>,
   callback |-> <<>>,
   exit     |-> <<"tasklet_kill", "kfree">>]

-----------------------------------------------------------------------------
(* The kernel's calls.                                                     *)

ModTimer ==
  /\ armed' = TRUE
  /\ UNCHANGED <<tasklet, requested, file>>

DelTimer ==
  /\ armed' = FALSE
  /\ UNCHANGED <<tasklet, requested, file>>

(* A tasklet that is scheduled already is not scheduled twice.             *)
TaskletSchedule ==
  /\ requests' = requests + 1
  /\ sched' = TRUE
  /\ queued' = (queued \/ ~ sched)
  /\ UNCHANGED <<armed, running, served, file>>

(* Waits for the scheduled run to begin and keeps others from scheduling   *)
(* it again; then waits for the run to end.                                *)
TaskletKillBegin ==
  /\ ~ sched
  /\ sched' = TRUE
  /\ UNCHANGED <<armed, queued, running, requested, file>>

TaskletKillEnd ==
  /\ ~ running
  /\ sched' = FALSE
  /\ UNCHANGED <<armed, queued, running, requested, file>>

(* The name of the next file, which the handler may be about to print for  *)
(* the event before: init sleeps two seconds in between, and waits for     *)
(* nothing.                                                                *)
NameFile ==
  /\ filename' = filename + 1
  /\ late' = (late \/ queued \/ running)
  /\ UNCHANGED <<armed, tasklet, requested, data>>

SetData(allocated) ==
  /\ data' = allocated
  /\ UNCHANGED <<armed, tasklet, requested, filename, late>>

Call(op) ==
  \/ op = "mod_timer" /\ ModTimer
  \/ op = "del_timer" /\ DelTimer
  \/ op = "del_timer_sync" /\ ~ firing /\ DelTimer
  \/ op = "tasklet_schedule" /\ TaskletSchedule
  \/ op = "tasklet_kill" /\ TaskletKillBegin
  \/ op = "tasklet_kill_end" /\ TaskletKillEnd
  \/ op = "snprintf" /\ NameFile
  \/ op = "kzalloc" /\ SetData(TRUE)
  \/ op = "kfree" /\ SetData(FALSE)

After(s) == IF Head(s) = "tasklet_kill" THEN <<"tasklet_kill_end">> \o Tail(s) ELSE Tail(s)

-----------------------------------------------------------------------------
Init ==
  /\ ex \in Examples
  /\ state = "init"
  /\ ops = ex.init
  /\ armed = FALSE /\ firing = FALSE /\ cbOps = <<>> /\ fires = 0
  /\ sched = FALSE /\ queued = FALSE /\ running = FALSE
  /\ requests = 0 /\ served = 0
  /\ data = FALSE /\ filename = 0 /\ late = FALSE

(* The next call of the init or exit function.                             *)
ModuleCall ==
  /\ ops # <<>>
  /\ Call(Head(ops))
  /\ ops' = After(ops)
  /\ UNCHANGED <<ex, state, firing, cbOps, fires>>

(* The directory to watch is not there, or no memory: init holds nothing.  *)
InitFails ==
  /\ state = "init" /\ ops # <<>> /\ Head(ops) = "kzalloc"
  /\ state' = "failed" /\ ops' = <<>>
  /\ UNCHANGED <<ex, timer, tasklet, requested, file>>

InitReturns ==
  /\ state = "init" /\ ops = <<>>
  /\ state' = "live"
  /\ UNCHANGED <<ex, ops, timer, tasklet, requested, file>>

Rmmod ==
  /\ state = "live"
  /\ state' = "exit"
  /\ ops' = ex.exit
  /\ UNCHANGED <<ex, timer, tasklet, requested, file>>

ExitReturns ==
  /\ state = "exit" /\ ops = <<>>
  /\ state' = "gone"
  /\ UNCHANGED <<ex, ops, timer, tasklet, requested, file>>

TimerExpires ==
  /\ armed /\ ~ firing
  /\ fires < MaxFires
  /\ armed' = FALSE
  /\ firing' = TRUE
  /\ cbOps' = ex.callback
  /\ fires' = fires + 1
  /\ UNCHANGED <<module, tasklet, requested, file>>

CallbackCall ==
  /\ firing /\ cbOps # <<>>
  /\ Call(Head(cbOps))
  /\ cbOps' = After(cbOps)
  /\ UNCHANGED <<module, firing, fires>>

CallbackReturns ==
  /\ firing /\ cbOps = <<>>
  /\ firing' = FALSE
  /\ UNCHANGED <<module, armed, cbOps, fires, tasklet, requested, file>>

TaskletRuns ==
  /\ queued /\ ~ running
  /\ queued' = FALSE
  /\ sched' = FALSE
  /\ running' = TRUE
  /\ served' = requests
  /\ UNCHANGED <<module, timer, requests, file>>

TaskletReturns ==
  /\ running
  /\ running' = FALSE
  /\ UNCHANGED <<module, timer, sched, queued, requested, file>>

Next ==
  \/ ModuleCall \/ InitFails \/ InitReturns \/ Rmmod \/ ExitReturns
  \/ TimerExpires \/ CallbackCall \/ CallbackReturns
  \/ TaskletRuns \/ TaskletReturns

Spec == Init /\ [][Next]_vars

(* The softirqs run what is due, and init and exit make their next call.   *)
(* Strong fairness for the calls: del_timer_sync finds the timer idle      *)
(* again and again, because its callback re-arms it a jiffy later at the   *)
(* earliest, and tasklet_kill finds the tasklet unscheduled again and      *)
(* again.                                                                  *)
Fairness ==
  /\ SF_vars(ModuleCall)
  /\ WF_vars(InitReturns) /\ WF_vars(ExitReturns)
  /\ WF_vars(CallbackCall) /\ WF_vars(CallbackReturns)
  /\ WF_vars(TaskletRuns) /\ WF_vars(TaskletReturns)

FairSpec == Spec /\ Fairness

-----------------------------------------------------------------------------
(* Properties                                                              *)

TypeOK ==
  /\ state \in {"init", "failed", "live", "exit", "gone"}
  /\ armed \in BOOLEAN /\ firing \in BOOLEAN /\ sched \in BOOLEAN
  /\ queued \in BOOLEAN /\ running \in BOOLEAN
  /\ fires \in Nat /\ requests \in Nat /\ served \in Nat
  /\ data \in BOOLEAN /\ filename \in Nat /\ late \in BOOLEAN

(* Once an exit function has made its last call on timer and tasklet, and  *)
(* prints its counters, its timer is not pending any more. Only del_timer  *)
(* may leave a callback that has begun: for any other example, neither     *)
(* callback nor tasklet runs or will run, and every request of the tasklet *)
(* has been served, whether it found it scheduled, running or idle.        *)
Quiet == ~ armed /\ ~ firing /\ ~ queued /\ ~ running

Stopped == state = "gone" \/ (state = "exit" /\ ops \in {<<>>, <<"kfree">>})

NothingIsPending ==
  Stopped => /\ ~ armed
             /\ ex # Timer004 => Quiet /\ served = requests

(* The tasklet of 011, from when it is scheduled to the end of its run,    *)
(* finds the data that it is in; whatever way the module goes, it leaves   *)
(* none.                                                                   *)
TaskletHasData ==
  /\ ex = FileTasklet011 /\ (queued \/ running) => data
  /\ state \in {"failed", "gone"} => ~ data

(* 011 reports every event under its own name, all the time the handler    *)
(* runs, unless an event was still to be handled two seconds later.        *)
ReportsOwnName == ex = FileTasklet011 /\ running /\ ~ late => filename = served

(* rmmod does not hang: del_timer_sync and tasklet_kill both come to an    *)
(* end although the callback re-arms its timer.                            *)
UnloadFinishes == (state = "exit") ~> (state = "gone")
=============================================================================
