------------------------- MODULE KernelThreadsProofs ------------------------
(***************************************************************************)
(* Proofs about the two examples with kernel threads, for any number of    *)
(* rounds.                                                                 *)
(***************************************************************************)
EXTENDS KernelThreads, TLAPS

Holding == {"load", "store", "text", "unlock"}

(* The lock is held by the thread that is between lock and unlock, or by   *)
(* exit while it prints.                                                   *)
LockInv ==
  /\ \A t \in Threads : pc[t] \in Holding <=> owner = t
  /\ owner = Module <=> mpc = "printed"

(* Inside the critical section the counter is ahead of the text for one    *)
(* step, and what a thread has loaded is still the counter when it stores. *)
DataInv ==
  /\ counter = n[1] + n[2]
  /\ mutex_demo /\ (\A t \in Threads : pc[t] # "text") => text = counter
  /\ \A t \in Threads : pc[t] = "store" => seen[t] = counter

(* Which threads there are at each point of init and exit.                 *)
StartInv ==
  /\ mpc \in {"data", "buffer", "args"} => mutex_demo /\ \A t \in Threads : pc[t] = "none"
  /\ mpc = "undo" => mutex_demo /\ \E t \in Threads : pc[t] = "failed"
  /\ mpc = "failed" => \A t \in Threads : pc[t] # "none" => \E u \in Threads : pc[u] = "failed"
  /\ mutex_demo /\ mpc \in {"live", "stopping", "print", "printed", "gone", "crashed"}
       => \A t \in Threads : pc[t] \notin {"none", "failed"}
  /\ mpc \in {"print", "printed", "gone"} => \A t \in Threads : pc[t] = "ended"

(* What is allocated at each point.                                        *)
MemoryInv ==
  /\ mutex_demo /\ mpc \in {"args", "create", "live", "stopping", "print", "printed", "crashed"}
       => {"data", "buffer"} \subseteq live
  /\ mpc = "buffer" => live = {"data"}
  /\ mpc = "args" => live = {"data", "buffer"}
  /\ mpc = "undo" /\ "buffer" \in live => "data" \in live
  /\ mpc = "failed" => live = {}
  /\ mpc = "gone" => live \subseteq Args
  /\ ~ mutex_demo => live = {}

(* A thread has ended because it was told to, or because its rounds were   *)
(* over.                                                                   *)
EndInv == \A t \in Threads : pc[t] = "ended" => t \in asked \/ Leaves(t)

Inv == TypeOK /\ LockInv /\ DataInv /\ StartInv /\ MemoryInv /\ EndInv

LEMMA InitInv == Init => Inv
<1> SUFFICES ASSUME Init PROVE Inv
  OBVIOUS
<1> USE DEF Init, Threads, NoThread, Module
<1>1. TypeOK
  BY DEF TypeOK
<1>2. LockInv /\ DataInv /\ StartInv /\ MemoryInv /\ EndInv
  BY DEF LockInv, DataInv, StartInv, MemoryInv, EndInv, Holding, mutex_demo
<1> QED
  BY <1>1, <1>2 DEF Inv

(* The steps of init leave the shared data and the threads' places alone,  *)
(* except where they create or give up on a thread.                        *)
LEMMA InitStepInv ==
  ASSUME Inv, InitStep
  PROVE  Inv'
<1> USE DEF Inv, Threads, NoThread, Module, Args, exit, shared, threads, mutex_demo, Leaves
<1>1. CASE AllocData
  BY <1>1 DEF AllocData, TypeOK, LockInv, DataInv, StartInv, MemoryInv, EndInv
<1>2. CASE AllocBuffer
  BY <1>2 DEF AllocBuffer, TypeOK, LockInv, DataInv, StartInv, MemoryInv, EndInv
<1>3. CASE AllocArgs
  BY <1>3 DEF AllocArgs, TypeOK, LockInv, DataInv, StartInv, MemoryInv, EndInv
<1>4. ASSUME NEW t \in Threads, KthreadRun(t) PROVE Inv'
  <2>1. PICK to \in {"created", "failed"} : pc' = [pc EXCEPT ![t] = to]
    BY <1>4 DEF KthreadRun
  <2>2. /\ mpc = "create" /\ pc[t] = "none"
        /\ UNCHANGED <<example, mpc, live, exit, shared, seen, n>>
    BY <1>4 DEF KthreadRun
  <2>3. TypeOK'
    BY <2>1, <2>2 DEF TypeOK
  <2>4. LockInv' /\ DataInv'
    BY <2>1, <2>2 DEF TypeOK, LockInv, DataInv, Holding
  <2>5. StartInv' /\ MemoryInv' /\ EndInv'
    BY <2>1, <2>2 DEF TypeOK, StartInv, MemoryInv, EndInv
  <2> QED
    BY <2>3, <2>4, <2>5
<1>5. CASE Created
  BY <1>5 DEF Created, TypeOK, LockInv, DataInv, StartInv, MemoryInv, EndInv
<1>6. CASE UndoBuffer
  BY <1>6 DEF UndoBuffer, TypeOK, LockInv, DataInv, StartInv, MemoryInv, EndInv
<1>7. CASE UndoData
  BY <1>7 DEF UndoData, TypeOK, LockInv, DataInv, StartInv, MemoryInv, EndInv
<1>8. CASE UndoArgs
  BY <1>8 DEF UndoArgs, TypeOK, LockInv, DataInv, StartInv, MemoryInv, EndInv
<1> QED
  BY <1>1, <1>2, <1>3, <1>4, <1>5, <1>6, <1>7, <1>8 DEF InitStep

LEMMA ExitStepInv ==
  ASSUME Inv, Rmmod \/ ExitStep
  PROVE  Inv'
<1> USE DEF Inv, Threads, NoThread, Module, Args, exit, shared, threads, mutex_demo, Leaves
<1>1. CASE Rmmod
  BY <1>1 DEF Rmmod, TypeOK, LockInv, DataInv, StartInv, MemoryInv, EndInv
<1>2. ASSUME NEW t \in Threads, KthreadStop(t) PROVE Inv'
  BY <1>2 DEF KthreadStop, TypeOK, LockInv, DataInv, StartInv, MemoryInv, EndInv
<1>3. CASE Stopped
  BY <1>3 DEF Stopped, TypeOK, LockInv, DataInv, StartInv, MemoryInv, EndInv
<1>4. CASE PrintFinal
  BY <1>4 DEF PrintFinal, TypeOK, LockInv, DataInv, StartInv, MemoryInv, EndInv, Holding
<1>5. CASE Cleanup
  BY <1>5 DEF Cleanup, TypeOK, LockInv, DataInv, StartInv, MemoryInv, EndInv, Holding
<1> QED
  BY <1>1, <1>2, <1>3, <1>4, <1>5 DEF ExitStep

(* A thread moves on along worker_thread or thread_fn; nothing of the      *)
(* module moves.                                                           *)
LEMMA ThreadStepInv ==
  ASSUME Inv, NEW t \in Threads, ThreadStep(t)
  PROVE  Inv'
<1> USE DEF Inv, Threads, NoThread, Module, Args, exit, shared, threads, mutex_demo, Leaves
<1>0. /\ pc[t] \in {"created", "test", "lock", "sleep"} \cup Holding
      /\ UNCHANGED <<example, mpc, live, exit>>
  BY DEF ThreadStep, Begin, Test, Lock, Load, Store, WriteText, Unlock, Wake, Holding
<1>1. \E to \in {"ended", "test", "lock", "sleep"} \cup Holding : pc' = [pc EXCEPT ![t] = to]
  BY DEF ThreadStep, Begin, Test, Lock, Load, Store, WriteText, Unlock, Wake, Holding
<1>2. StartInv' /\ MemoryInv'
  BY <1>0, <1>1 DEF TypeOK, StartInv, MemoryInv, Holding
<1>3. CASE Begin(t) \/ Test(t) \/ Wake(t)
  <2>1. UNCHANGED <<owner, counter, text, seen, n>>
    BY <1>3 DEF Begin, Test, Wake
  <2>2. TypeOK'
    BY <1>0, <1>1, <2>1 DEF TypeOK, Holding
  <2>3. LockInv' /\ DataInv'
    BY <1>0, <1>3 DEF Begin, Test, Wake, TypeOK, LockInv, DataInv, Holding
  <2>4. EndInv'
    BY <1>0, <1>3 DEF Begin, Test, Wake, TypeOK, EndInv
  <2> QED
    BY <2>2, <2>3, <2>4, <1>2
<1>4. CASE Lock(t)
  BY <1>2, <1>4 DEF Lock, TypeOK, LockInv, DataInv, EndInv, Holding
<1>5. CASE Load(t)
  BY <1>2, <1>5 DEF Load, TypeOK, LockInv, DataInv, EndInv, Holding
<1>6. CASE Store(t)
  <2>1. TypeOK'
    BY <1>0, <1>1, <1>6 DEF Store, TypeOK, Holding
  <2>2. LockInv'
    BY <1>6 DEF Store, TypeOK, LockInv, Holding
  <2>3. seen[t] = counter /\ \A u \in Threads : u # t => pc[u] \notin Holding
    BY <1>6 DEF Store, LockInv, DataInv, Holding
  <2>4. DataInv'
    BY <1>6, <2>3 DEF Store, TypeOK, DataInv, Holding
  <2>5. EndInv'
    <3> SUFFICES ASSUME NEW u \in Threads, pc'[u] = "ended"
                 PROVE  u \in asked' \/ Leaves(u)'
      BY DEF EndInv
    <3>1. u # t /\ pc[u] = "ended" /\ n'[u] = n[u]
      BY <1>6 DEF Store, TypeOK
    <3> QED
      BY <1>0, <3>1 DEF EndInv
  <2> QED
    BY <2>1, <2>2, <2>4, <2>5, <1>2
<1>7. CASE WriteText(t)
  BY <1>2, <1>7 DEF WriteText, TypeOK, LockInv, DataInv, EndInv, Holding
<1>8. CASE Unlock(t)
  BY <1>2, <1>8 DEF Unlock, TypeOK, LockInv, DataInv, EndInv, Holding
<1> QED
  BY <1>3, <1>4, <1>5, <1>6, <1>7, <1>8 DEF ThreadStep

LEMMA Invariance == Spec => []Inv
<1>1. Inv /\ UNCHANGED vars => Inv'
  BY DEF vars, exit, shared, threads, Inv, TypeOK, LockInv, DataInv, StartInv, MemoryInv, EndInv,
     mutex_demo, Leaves
<1>2. Inv /\ [Next]_vars => Inv'
  BY <1>1, InitStepInv, ExitStepInv, ThreadStepInv DEF Next
<1> QED
  BY InitInv, <1>2, PTL DEF Spec

(* No increment is ever lost, and whoever takes the mutex finds a text     *)
(* that shows the counter.                                                 *)
THEOREM LockProtectsData == Spec => []Protected
<1>1. Inv => Protected
  BY DEF Inv, LockInv, DataInv, Protected, Holding, Threads, NoThread
<1> QED
  BY <1>1, Invariance, PTL

(* Data is freed under a running thread only after a load in which one     *)
(* thread could be created and the other could not; an unload leaves no    *)
(* thread.                                                                 *)
THEOREM HalfStartedLoadsHurt == Spec => []OnlyHalfStartedHurts
<1>1. Inv => OnlyHalfStartedHurts
  <2> SUFFICES ASSUME Inv
               PROVE  OnlyHalfStartedHurts
    OBVIOUS
  <2>1. ASSUME NEW t \in Threads, UsesData(t), ~ {"data", "buffer"} \subseteq live
        PROVE  \E u \in Threads : pc[u] = "failed"
    <3>1. mutex_demo /\ pc[t] \notin {"ended", "none"}
      BY <2>1 DEF UsesData
    <3>2. mpc \in {"undo", "failed"}
      BY <2>1, <3>1 DEF Inv, TypeOK, StartInv, MemoryInv
    <3> QED
      BY <3>1, <3>2 DEF Inv, StartInv
  <2>2. /\ mpc = "failed" => live = {}
        /\ mpc = "gone" => live \subseteq Args /\ \A t \in Threads : pc[t] = "ended"
    BY DEF Inv, StartInv, MemoryInv
  <2> QED
    BY <2>1, <2>2 DEF OnlyHalfStartedHurts
<1> QED
  BY <1>1, Invariance, PTL

(* What exit prints is what the threads have left behind for good.         *)
THEOREM FinalValuesAreFinal == Spec => PrintsFinalValues
<1>1. Inv /\ [Next]_vars =>
        [(mpc \in {"print", "printed", "gone"}) => UNCHANGED <<counter, text>>]_vars
  <2> SUFFICES ASSUME Inv, [Next]_vars, mpc \in {"print", "printed", "gone"}
               PROVE  UNCHANGED <<counter, text>>
    OBVIOUS
  <2>1. \A t \in Threads : pc[t] = "ended"
    BY DEF Inv, StartInv
  <2>2. \A t \in Threads : ~ ThreadStep(t)
    BY <2>1 DEF ThreadStep, Begin, Test, Lock, Load, Store, WriteText, Unlock, Wake
  <2>3. CASE UNCHANGED vars
    BY <2>3 DEF vars, shared
  <2>4. CASE InitStep
    BY <2>4 DEF InitStep, AllocData, AllocBuffer, AllocArgs, KthreadRun, Created,
       UndoBuffer, UndoData, UndoArgs, shared
  <2>5. CASE Rmmod \/ ExitStep
    BY <2>5 DEF ExitStep, Rmmod, KthreadStop, Stopped, PrintFinal, Cleanup, shared
  <2> QED
    BY <2>2, <2>3, <2>4, <2>5 DEF Next
<1> QED
  BY <1>1, Invariance, PTL DEF Spec, PrintsFinalValues

(* exit crashes only on threads that were told to end or have done all     *)
(* their rounds, or, in spinlock_example, that were never created.         *)
THEOREM CrashesAreLate == Spec => CrashesOnlyLate
<1> DEFINE Late == mpc # "crashed" /\ mpc' = "crashed" =>
       \E t \in Threads :
         \/ pc[t] = "failed" /\ ~ mutex_demo
         \/ pc[t] = "ended" /\ Leaves(t)
<1>1. ASSUME Inv, [Next]_vars
      PROVE  Late
  <2>1. CASE UNCHANGED vars
    BY <2>1 DEF vars
  <2>2. ASSUME NEW t \in Threads, KthreadStop(t)
        PROVE  Late
    <3> SUFFICES ASSUME mpc = "stopping", pc[t] \in {"failed", "ended"}, t \notin asked
                 PROVE  (pc[t] = "failed" /\ ~ mutex_demo) \/ (pc[t] = "ended" /\ Leaves(t))
      BY <2>2 DEF KthreadStop
    <3> QED
      BY <1>1 DEF Inv, StartInv, EndInv
  <2>3. CASE InitStep \/ Rmmod \/ Stopped \/ PrintFinal \/ Cleanup
    BY <2>3 DEF InitStep, AllocData, AllocBuffer, AllocArgs, KthreadRun, Created,
       UndoBuffer, UndoData, UndoArgs, Rmmod, Stopped, PrintFinal, Cleanup
  <2>4. CASE \E t \in Threads : ThreadStep(t)
    BY <2>4 DEF ThreadStep, Begin, Test, Lock, Load, Store, WriteText, Unlock, Wake
  <2> QED
    BY <1>1, <2>1, <2>2, <2>3, <2>4 DEF Next, ExitStep
<1>2. Inv /\ [Next]_vars => [Late]_vars
  BY <1>1
<1> QED
  BY <1>2, Invariance, PTL DEF Spec, CrashesOnlyLate

(* The type invariant.                                                     *)
THEOREM TypeCorrect == Spec => []TypeOK
<1>1. Inv => TypeOK
  BY DEF Inv
<1> QED
  BY <1>1, Invariance, PTL

-----------------------------------------------------------------------------
(* exit is not stuck                                                       *)

(* What exit can rely on: both threads were tried, kthread_stop is called  *)
(* in order and for threads that were created, and a thread of mutex_demo  *)
(* is told before.                                                         *)
ExitInv ==
  /\ mpc \in {"live", "stopping"} => \A t \in Threads : pc[t] # "none"
  /\ mutex_demo /\ mpc = "stopping" => stop
  /\ mpc \in {"data", "buffer", "args", "create", "live"} => asked = {}
  /\ \A t \in asked : pc[t] \notin {"none", "failed"}
  /\ 2 \in asked => 1 \in asked /\ pc[1] = "ended"

RoundInv ==
  \A t \in Threads :
    /\ n[t] <= Rounds
    /\ pc[t] \in {"lock", "load", "store"} => n[t] < Rounds

LEMMA ExitInitInv == Init => ExitInv /\ RoundInv
  BY RoundsAssumption DEF Init, ExitInv, RoundInv, Threads, mutex_demo

LEMMA ExitInvModuleStep ==
  ASSUME Inv, ExitInv, RoundInv, InitStep \/ Rmmod \/ ExitStep
  PROVE  ExitInv' /\ RoundInv'
<1> USE DEF Inv, ExitInv, Threads, exit, shared, threads, mutex_demo
<1>1. CASE AllocData \/ AllocBuffer \/ AllocArgs \/ Created \/ UndoBuffer \/ UndoData \/ UndoArgs
  BY <1>1 DEF AllocData, AllocBuffer, AllocArgs, Created, UndoBuffer, UndoData, UndoArgs, RoundInv
<1>2. ASSUME NEW t \in Threads, KthreadRun(t) PROVE ExitInv' /\ RoundInv'
  BY <1>2 DEF KthreadRun, TypeOK, RoundInv
<1>3. CASE Rmmod
  BY <1>3 DEF Rmmod, RoundInv
<1>4. ASSUME NEW t \in Threads, KthreadStop(t) PROVE ExitInv' /\ RoundInv'
  <2>1. /\ mpc = "stopping" /\ \A u \in Threads : u < t => u \in asked /\ pc[u] = "ended"
        /\ UNCHANGED <<example, stop, pc, n>>
    BY <1>4 DEF KthreadStop
  <2>2. RoundInv'
    BY <2>1 DEF RoundInv
  <2>3. CASE pc[t] # "failed" /\ asked' = asked \cup {t} /\ mpc' = mpc
    BY <2>1, <2>2, <2>3
  <2>4. CASE mpc' = "crashed" /\ asked' = asked
    BY <2>1, <2>2, <2>4
  <2> QED
    BY <1>4, <2>3, <2>4 DEF KthreadStop
<1>5. CASE Stopped \/ PrintFinal \/ Cleanup
  BY <1>5 DEF Stopped, PrintFinal, Cleanup, RoundInv
<1> QED
  BY <1>1, <1>2, <1>3, <1>4, <1>5 DEF InitStep, ExitStep

LEMMA ExitInvThreadStep ==
  ASSUME Inv, ExitInv, RoundInv, NEW t \in Threads, ThreadStep(t)
  PROVE  ExitInv' /\ RoundInv'
<1> USE DEF Inv, Threads
<1>1. /\ pc[t] \in {"created", "test", "lock", "sleep"} \cup Holding
      /\ UNCHANGED <<example, mpc, exit>>
  BY DEF ThreadStep, Begin, Test, Lock, Load, Store, WriteText, Unlock, Wake, Holding
<1>2. \E to \in {"ended", "test", "lock", "sleep"} \cup Holding : pc' = [pc EXCEPT ![t] = to]
  BY DEF ThreadStep, Begin, Test, Lock, Load, Store, WriteText, Unlock, Wake, Holding
<1>3. ExitInv'
  BY <1>1, <1>2 DEF TypeOK, ExitInv, Holding, exit, mutex_demo
<1>4. RoundInv'
  <2> USE RoundsAssumption DEF TypeOK, RoundInv
  <2>1. CASE Test(t)
    BY <2>1 DEF Test, Leaves
  <2>2. CASE Store(t)
    BY <2>2 DEF Store
  <2>3. CASE Begin(t) \/ Lock(t) \/ Load(t)
    BY <2>3 DEF Begin, Lock, Load
  <2>4. CASE WriteText(t) \/ Unlock(t) \/ Wake(t)
    BY <2>4 DEF WriteText, Unlock, Wake
  <2> QED
    BY <2>1, <2>2, <2>3, <2>4 DEF ThreadStep
<1> QED
  BY <1>3, <1>4

LEMMA ExitInvariance == Spec => [](ExitInv /\ RoundInv)
<1>1. ExitInv /\ RoundInv /\ UNCHANGED vars => ExitInv' /\ RoundInv'
  BY DEF vars, exit, threads, ExitInv, RoundInv, mutex_demo
<1>2. Inv /\ ExitInv /\ RoundInv /\ [Next]_vars => ExitInv' /\ RoundInv'
  BY <1>1, ExitInvModuleStep, ExitInvThreadStep DEF Next
<1> QED
  BY ExitInitInv, <1>2, Invariance, PTL DEF Spec

(* A thread that can make its next step, or waits for the lock while the   *)
(* other thread is on its way to unlock it.                                *)
MayGoOn(t) ==
  /\ pc[t] \notin {"none", "failed", "ended"}
  /\ pc[t] = "test" => Leaves(t) \/ n[t] < Rounds
  /\ pc[t] = "lock" => \/ owner = NoThread
                       \/ \E u \in Threads \ {t} : owner = u /\ pc[u] \in Holding

(* What UnloadFinishes needs of the states: exit, while it waits, can call *)
(* kthread_stop for the next thread, or has both, or waits for a thread    *)
(* that goes on; and nobody has left with the mutex that it prints under.  *)
ExitIsNotStuck ==
  /\ mpc = "stopping" =>
       \/ asked = Threads /\ \A t \in Threads : pc[t] = "ended"
       \/ \E t \in Threads \ asked :
            pc[t] # "none" /\ \A u \in Threads : u < t => u \in asked /\ pc[u] = "ended"
       \/ \E t \in asked : MayGoOn(t)
  /\ mpc = "print" => owner = NoThread

THEOREM UnloadIsNotStuck == Spec => []ExitIsNotStuck
<1>1. ASSUME Inv, ExitInv, RoundInv, mpc = "stopping"
      PROVE  \/ asked = Threads /\ \A t \in Threads : pc[t] = "ended"
             \/ \E t \in Threads \ asked :
                  pc[t] # "none" /\ \A u \in Threads : u < t => u \in asked /\ pc[u] = "ended"
             \/ \E t \in asked : MayGoOn(t)
  <2>1. \A t \in asked : pc[t] = "ended" \/ MayGoOn(t)
    <3> SUFFICES ASSUME NEW t \in asked, pc[t] # "ended" PROVE MayGoOn(t)
      OBVIOUS
    <3>1. t \in Threads /\ pc[t] \notin {"none", "failed"}
      BY <1>1 DEF Inv, TypeOK, ExitInv
    <3>2. pc[t] = "test" => Leaves(t) \/ n[t] < Rounds
      BY <1>1, <3>1, RoundsAssumption DEF Inv, TypeOK, ExitInv, RoundInv, Leaves
    <3>3. pc[t] = "lock" => \/ owner = NoThread
                            \/ \E u \in Threads \ {t} : owner = u /\ pc[u] \in Holding
      BY <1>1, <3>1 DEF Inv, TypeOK, LockInv, Holding, Module
    <3> QED
      BY <3>1, <3>2, <3>3 DEF MayGoOn
  <2>2. CASE asked = {}
    BY <1>1, <2>2 DEF ExitInv, Threads
  <2>3. CASE asked = {1}
    BY <1>1, <2>1, <2>3 DEF ExitInv, Threads
  <2>4. CASE asked = Threads
    BY <2>1, <2>4
  <2> QED
    BY <1>1, <2>2, <2>3, <2>4 DEF Inv, TypeOK, ExitInv, Threads
<1>2. ASSUME Inv, mpc = "print" PROVE owner = NoThread
  BY <1>2 DEF Inv, TypeOK, LockInv, StartInv, Holding
<1>3. Inv /\ ExitInv /\ RoundInv => ExitIsNotStuck
  BY <1>1, <1>2 DEF ExitIsNotStuck
<1> QED
  BY <1>3, Invariance, ExitInvariance, PTL


(* How far a thread that exit waits for is from its end: a thread of       *)
(* mutex_demo does what is left of its round, one of spinlock_example has  *)
(* its rounds to do.                                                       *)
RoundsLeft(t) ==
  IF mutex_demo THEN 0
  ELSE IF pc[t] \in {"lock", "load", "store"} THEN Rounds - n[t] - 1 ELSE Rounds - n[t]

StepsLeft(t) ==
  IF pc[t] = "lock" THEN 8 ELSE IF pc[t] = "load" THEN 7 ELSE IF pc[t] = "store" THEN 6
  ELSE IF pc[t] = "text" THEN 5 ELSE IF pc[t] = "unlock" THEN 4
  ELSE IF pc[t] \in {"created", "sleep"} THEN 3 ELSE 2

Rank(t) ==
  IF pc[t] \in {"none", "failed", "ended"} THEN 0 ELSE 8 * RoundsLeft(t) + StepsLeft(t)

RankIsNat == \A t \in Threads : Rank(t) \in Nat

LEMMA RankType == Inv /\ RoundInv => RankIsNat
<1> SUFFICES ASSUME Inv, RoundInv, NEW t \in Threads PROVE Rank(t) \in Nat
  BY DEF RankIsNat
<1>1. n[t] \in Nat /\ n[t] <= Rounds /\ (pc[t] \in {"lock", "load", "store"} => n[t] < Rounds)
  BY DEF Inv, TypeOK, RoundInv
<1>2. RoundsLeft(t) \in Nat /\ StepsLeft(t) \in Nat
  BY <1>1, RoundsAssumption DEF RoundsLeft, StepsLeft
<1> QED
  BY <1>2 DEF Rank

(* Once exit is stopping them every step of a thread takes it nearer to    *)
(* its end, and no step of the other or of exit takes it back: the wait of *)
(* kthread_stop has a bound.                                               *)
Nearer(t) == mpc = "stopping" /\ pc'[t] # pc[t] => Rank(t)' < Rank(t)

LEMMA ThreadsComeNearer ==
  ASSUME Inv, ExitInv, RoundInv, mpc = "stopping", NEW t \in Threads, ThreadStep(t)
  PROVE  Rank(t)' < Rank(t) /\ \A u \in Threads \ {t} : pc'[u] = pc[u]
<1> USE RoundsAssumption DEF Inv, TypeOK, mutex_demo
<1>1. /\ n[t] \in Nat /\ n[t] <= Rounds /\ Rounds \in Nat
      /\ pc[t] \in {"lock", "load", "store"} => n[t] < Rounds
      /\ example' = example
  BY DEF RoundInv, ThreadStep, Begin, Test, Lock, Load, Store, WriteText, Unlock, Wake
<1>2. \A u \in Threads \ {t} : pc'[u] = pc[u]
  BY DEF ThreadStep, Begin, Test, Lock, Load, Store, WriteText, Unlock, Wake
<1>3. CASE Begin(t) \/ Wake(t)
  BY <1>1, <1>2, <1>3 DEF Begin, Wake, Rank, RoundsLeft, StepsLeft
<1>4. CASE Test(t)
  BY <1>1, <1>2, <1>4 DEF Test, Leaves, ExitInv, Rank, RoundsLeft, StepsLeft
<1>5. CASE Lock(t) \/ Load(t) \/ WriteText(t) \/ Unlock(t)
  BY <1>1, <1>2, <1>5 DEF Lock, Load, WriteText, Unlock, Rank, RoundsLeft, StepsLeft
<1>6. CASE Store(t)
  BY <1>1, <1>2, <1>6 DEF Store, Rank, RoundsLeft, StepsLeft
<1> QED
  BY <1>2, <1>3, <1>4, <1>5, <1>6 DEF ThreadStep

THEOREM ThreadsComeToAnEnd == Spec => []RankIsNat /\ [][\A t \in Threads : Nearer(t)]_vars
<1>1. ASSUME Inv, ExitInv, RoundInv, Next, mpc = "stopping", NEW t \in Threads, pc'[t] # pc[t]
      PROVE  Rank(t)' < Rank(t)
  <2>1. ~ (Rmmod \/ ExitStep)
    BY <1>1 DEF Rmmod, ExitStep, KthreadStop, Stopped, PrintFinal, Cleanup, threads
  <2>2. ~ InitStep
    BY <1>1 DEF InitStep, AllocData, AllocBuffer, AllocArgs, KthreadRun, Created, UndoBuffer,
       UndoData, UndoArgs, threads
  <2> QED
    BY <1>1, <2>1, <2>2, ThreadsComeNearer DEF Next
<1>2. Inv /\ ExitInv /\ RoundInv /\ [Next]_vars => [\A t \in Threads : Nearer(t)]_vars
  BY <1>1 DEF Nearer
<1> QED
  BY <1>2, RankType, Invariance, ExitInvariance, PTL DEF Spec

=============================================================================
