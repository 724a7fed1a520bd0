--------------------------- MODULE KernelThreads ----------------------------
(***************************************************************************)
(* Two kernel threads that count together under a lock, and the module     *)
(* that creates and stops them, in two versions:                           *)
(*                                                                         *)
(*   mutex_demo        (Linux_test/005_test_mutex) allocates the counter   *)
(*                     with a text buffer and a mutex; its threads run     *)
(*                     until stop_threads is set;                          *)
(*   spinlock_example  (04_Example/007_spin_lock) has a counter and a      *)
(*                     spinlock of its own; its threads end by themselves  *)
(*                     after Rounds rounds, or when they should stop.      *)
(***************************************************************************)
EXTENDS Integers

CONSTANT Rounds \* of a thread; for mutex_demo a bound of the model

ASSUME RoundsAssumption == Rounds \in Nat

Threads == {1, 2} \* in the order of their creation
NoThread == 0     \* the lock is free
Module == 3       \* the process that runs init and exit

VARIABLES example, \* which of the two it is
          mpc,     \* where init or exit is
          live,    \* the memory that is allocated
          pc,      \* where each thread is
          asked,   \* the threads for which kthread_stop has been called
          stop,    \* stop_threads
          owner,   \* of the lock
          counter,
          text,    \* the counter value in data->buffer
          seen,    \* what a thread has loaded from the counter
          n        \* the rounds each thread has done

exit == <<asked, stop>>
shared == <<owner, counter, text>>
threads == <<pc, seen, n>>
vars == <<example, mpc, live, exit, shared, threads>>

mutex_demo == example = "mutex_demo"
Args == {"thread1_arg", "thread2_arg"}

Init ==
  /\ example \in {"mutex_demo", "spinlock_example"}
  /\ mpc = (IF mutex_demo THEN "data" ELSE "create")
  /\ live = {}
  /\ pc = [t \in Threads |-> "none"]
  /\ asked = {} /\ stop = FALSE
  /\ owner = NoThread /\ counter = 0 /\ text = 0
  /\ seen = [t \in Threads |-> 0]
  /\ n = [t \in Threads |-> 0]

-----------------------------------------------------------------------------
(* mutex_demo_init                                                         *)

AllocData ==
  /\ mpc = "data"
  /\ \/ live' = {"data"} /\ mpc' = "buffer"
     \/ live' = {} /\ mpc' = "failed"
  /\ UNCHANGED <<example, exit, shared, threads>>

AllocBuffer ==
  /\ mpc = "buffer"
  /\ \/ live' = live \cup {"buffer"} /\ mpc' = "args"
     \/ live' = live \ {"data"} /\ mpc' = "failed"
  /\ UNCHANGED <<example, exit, shared, threads>>

(* If any allocation fails everything is freed: kfree(NULL) does nothing.  *)
(* The locking that init tries out before has nobody to contend with.      *)
AllocArgs ==
  /\ mpc = "args"
  /\ \/ live' = live \cup Args /\ mpc' = "create"
     \/ live' = {} /\ mpc' = "failed"
  /\ UNCHANGED <<example, exit, shared, threads>>

(* The threads are created one after the other, the second also if the     *)
(* first could not be.                                                     *)
KthreadRun(t) ==
  /\ mpc = "create"
  /\ pc[t] = "none" /\ \A u \in Threads : u < t => pc[u] # "none"
  /\ \E to \in {"created", "failed"} : pc' = [pc EXCEPT ![t] = to]
  /\ UNCHANGED <<example, mpc, live, exit, shared, seen, n>>

(* spinlock_example stores an error pointer like any other.                *)
Created ==
  /\ mpc = "create"
  /\ \A t \in Threads : pc[t] # "none"
  /\ mpc' = IF mutex_demo /\ \E t \in Threads : pc[t] = "failed" THEN "undo" ELSE "live"
  /\ UNCHANGED <<example, live, exit, shared, threads>>

(* The threads that were created are not stopped.                          *)
UndoBuffer ==
  /\ mpc = "undo" /\ "buffer" \in live
  /\ live' = live \ {"buffer"}
  /\ UNCHANGED <<example, mpc, exit, shared, threads>>

UndoData ==
  /\ mpc = "undo" /\ "buffer" \notin live /\ "data" \in live
  /\ live' = live \ {"data"}
  /\ UNCHANGED <<example, mpc, exit, shared, threads>>

UndoArgs ==
  /\ mpc = "undo" /\ "data" \notin live
  /\ live' = live \ Args
  /\ mpc' = "failed"
  /\ UNCHANGED <<example, exit, shared, threads>>

-----------------------------------------------------------------------------
(* mutex_demo_exit and spinlock_example_exit                               *)

(* Slip: stop_threads is not set; the threads look at nothing else.        *)
Rmmod_NoStop ==
  /\ mpc = "live"
  /\ mpc' = "stopping"
  /\ UNCHANGED <<example, live, exit, shared, threads>>

Rmmod ==
  /\ mpc = "live"
  /\ mpc' = "stopping"
  /\ stop' = mutex_demo
  /\ UNCHANGED <<example, live, asked, shared, threads>>

(* kthread_stop is called for one thread after the other, and waits for it *)
(* to end. One that has ended before may be freed by then, as nobody holds *)
(* a reference to it: the call returns, or crashes as it does with an      *)
(* error pointer.                                                          *)
KthreadStop(t) ==
  /\ mpc = "stopping"
  /\ t \notin asked /\ \A u \in Threads : u < t => u \in asked /\ pc[u] = "ended"
  /\ \/ pc[t] # "failed" /\ asked' = asked \cup {t} /\ mpc' = mpc
     \/ pc[t] \in {"failed", "ended"} /\ mpc' = "crashed" /\ asked' = asked
  /\ UNCHANGED <<example, live, stop, shared, threads>>

(* Slip: exit does not wait for the second thread.                         *)
Stopped_WaitsForOne ==
  /\ mpc = "stopping"
  /\ asked = Threads /\ pc[1] = "ended"
  /\ mpc' = IF mutex_demo THEN "print" ELSE "gone"
  /\ UNCHANGED <<example, live, exit, shared, threads>>

Stopped ==
  /\ mpc = "stopping"
  /\ asked = Threads /\ \A t \in Threads : pc[t] = "ended"
  /\ mpc' = IF mutex_demo THEN "print" ELSE "gone"
  /\ UNCHANGED <<example, live, exit, shared, threads>>

PrintFinal ==
  /\ mpc = "print"
  /\ owner = NoThread
  /\ owner' = Module
  /\ mpc' = "printed"
  /\ UNCHANGED <<example, live, exit, counter, text, threads>>

Cleanup ==
  /\ mpc = "printed"
  /\ owner' = NoThread
  /\ live' = live \ {"buffer", "data"}
  /\ mpc' = "gone"
  /\ UNCHANGED <<example, exit, counter, text, threads>>

-----------------------------------------------------------------------------
(* worker_thread and thread_fn                                             *)

(* A thread that is asked to stop before its first step never begins.      *)
Begin(t) ==
  /\ pc[t] = "created"
  /\ pc' = [pc EXCEPT ![t] = IF t \in asked THEN "ended" ELSE "test"]
  /\ UNCHANGED <<example, mpc, live, exit, shared, seen, n>>

Leaves(t) == IF mutex_demo THEN stop ELSE n[t] = Rounds

Test(t) ==
  /\ pc[t] = "test"
  /\ Leaves(t) \/ n[t] < Rounds
  /\ pc' = [pc EXCEPT ![t] = IF Leaves(t) THEN "ended" ELSE "lock"]
  /\ UNCHANGED <<example, mpc, live, exit, shared, seen, n>>

(* Slip: no lock.                                                          *)
Lock_None(t) ==
  /\ pc[t] = "lock"
  /\ pc' = [pc EXCEPT ![t] = "load"]
  /\ UNCHANGED <<example, mpc, live, exit, shared, seen, n>>

Lock(t) ==
  /\ pc[t] = "lock"
  /\ owner = NoThread
  /\ owner' = t
  /\ pc' = [pc EXCEPT ![t] = "load"]
  /\ UNCHANGED <<example, mpc, live, exit, counter, text, seen, n>>

Load(t) ==
  /\ pc[t] = "load"
  /\ seen' = [seen EXCEPT ![t] = counter]
  /\ pc' = [pc EXCEPT ![t] = "store"]
  /\ UNCHANGED <<example, mpc, live, exit, shared, n>>

Store(t) ==
  /\ pc[t] = "store"
  /\ counter' = seen[t] + 1
  /\ n' = [n EXCEPT ![t] = @ + 1]
  /\ pc' = [pc EXCEPT ![t] = IF mutex_demo THEN "text" ELSE "unlock"]
  /\ UNCHANGED <<example, mpc, live, exit, owner, text, seen>>

WriteText(t) ==
  /\ pc[t] = "text"
  /\ text' = counter
  /\ pc' = [pc EXCEPT ![t] = "unlock"]
  /\ UNCHANGED <<example, mpc, live, exit, owner, counter, seen, n>>

Unlock(t) ==
  /\ pc[t] = "unlock"
  /\ owner' = NoThread
  /\ pc' = [pc EXCEPT ![t] = "sleep"]
  /\ UNCHANGED <<example, mpc, live, exit, counter, text, seen, n>>

(* Slip: the test is the wrong way round.                                  *)
Wake_Inverted(t) ==
  /\ pc[t] = "sleep"
  /\ pc' = [pc EXCEPT ![t] = IF mutex_demo \/ t \in asked THEN "test" ELSE "ended"]
  /\ UNCHANGED <<example, mpc, live, exit, shared, seen, n>>

(* Only spinlock_example asks kthread_should_stop.                         *)
Wake(t) ==
  /\ pc[t] = "sleep"
  /\ pc' = [pc EXCEPT ![t] = IF ~ mutex_demo /\ t \in asked THEN "ended" ELSE "test"]
  /\ UNCHANGED <<example, mpc, live, exit, shared, seen, n>>

-----------------------------------------------------------------------------
ThreadStep(t) ==
  \/ Begin(t) \/ Test(t) \/ Lock(t) \/ Load(t) \/ Store(t)
  \/ WriteText(t) \/ Unlock(t) \/ Wake(t)

InitStep ==
  \/ AllocData \/ AllocBuffer \/ AllocArgs \/ Created \/ UndoBuffer \/ UndoData \/ UndoArgs
  \/ \E t \in Threads : KthreadRun(t)

ExitStep == Stopped \/ PrintFinal \/ Cleanup \/ \E t \in Threads : KthreadStop(t)

Next == InitStep \/ Rmmod \/ ExitStep \/ \E t \in Threads : ThreadStep(t)

Spec == Init /\ [][Next]_vars

(* The scheduler runs threads and exit; a mutex is handed over to those    *)
(* that wait for it, and a spinlock is had in the order of the tickets.    *)
FairSpec ==
  /\ Spec
  /\ WF_vars(ExitStep)
  /\ \A t \in Threads : WF_vars(ThreadStep(t)) /\ SF_vars(Lock(t))

-----------------------------------------------------------------------------
(* Properties                                                              *)

TypeOK ==
  /\ example \in {"mutex_demo", "spinlock_example"}
  /\ mpc \in {"data", "buffer", "args", "create", "undo", "live", "stopping",
              "print", "printed", "gone", "failed", "crashed"}
  /\ live \subseteq {"data", "buffer"} \cup Args
  /\ pc \in [Threads -> {"none", "failed", "created", "test", "lock", "load", "store",
                         "text", "unlock", "sleep", "ended"}]
  /\ asked \subseteq Threads /\ stop \in BOOLEAN
  /\ owner \in Threads \cup {NoThread, Module}
  /\ counter \in Nat /\ text \in Nat
  /\ seen \in [Threads -> Nat]
  /\ n \in [Threads -> Nat]

(* The lock protects counter and text: no increment of either thread is    *)
(* ever lost, and whoever takes the mutex finds a text that shows the      *)
(* counter.                                                                *)
Protected ==
  /\ counter = n[1] + n[2]
  /\ mutex_demo /\ owner = NoThread => text = counter

UsesData(t) == mutex_demo /\ pc[t] \in {"lock", "load", "store", "text", "unlock"}

(* Only when a thread could be created and the other could not is the data *)
(* freed under a thread: an unload leaves no thread, and nothing but the   *)
(* arguments of the threads. A load that fails leaves no memory.           *)
OnlyHalfStartedHurts ==
  /\ (\E t \in Threads : UsesData(t)) /\ ~ {"data", "buffer"} \subseteq live
       => \E t \in Threads : pc[t] = "failed"
  /\ mpc = "failed" => live = {}
  /\ mpc = "gone" => live \subseteq Args /\ \A t \in Threads : pc[t] = "ended"

(* The values that exit prints are final: no thread changes them any more  *)
(* once exit has waited for both.                                          *)
PrintsFinalValues ==
  [][(mpc \in {"print", "printed", "gone"}) => UNCHANGED <<counter, text>>]_vars

(* kthread_stop is called too late, for a thread that has ended, only when *)
(* the thread was told to end or has done all its rounds: none ends early  *)
(* on its own. It crashes for no other reason, but for a thread of         *)
(* spinlock_example that never was created.                                *)
CrashesOnlyLate ==
  [][mpc # "crashed" /\ mpc' = "crashed" =>
       \E t \in Threads :
         \/ pc[t] = "failed" /\ ~ mutex_demo
         \/ pc[t] = "ended" /\ Leaves(t)]_vars

(* rmmod does not hang, whatever the threads are doing when it comes.      *)
UnloadFinishes == (mpc = "stopping") ~> (mpc \in {"gone", "crashed"})

(* The data is a "shared resource protected by mutex" (mutex_demo.c:15):   *)
(* it is not freed while its mutex is held.                                *)
NotFreedWhileLocked == mutex_demo /\ owner # NoThread => "data" \in live
=============================================================================
