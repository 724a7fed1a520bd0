-------------------------- MODULE LockedReadProofs --------------------------
(***************************************************************************)
(* Readers exclude each other and none is forgotten, for any number of     *)
(* them.                                                                   *)
(***************************************************************************)
EXTENDS LockedRead, TLAPS, SequenceTheorems

(* While the mutex is what its users believe, who reads is its owner; and  *)
(* at most one process reads that is not. The wait list is of no concern:  *)
(* Unlock and MutexInit are what could break this, as neither looks at the *)
(* owner. A reader that is not the owner frees the owner's mutex, and the  *)
(* owner takes its place as the one too many.                              *)
Owned ==
  /\ ~ loaded => ~ early /\ ~ overlap
  /\ ~ overlap => Reading \subseteq {owner}
  /\ \A p, q \in Reading \ {owner} : p = q

IInv == TypeOK /\ Owned

LEMMA Initially == Init => IInv
<1> SUFFICES ASSUME Init PROVE IInv
  OBVIOUS
<1>1. TypeOK
  <2>1. interruptible \in Variants /\ loaded \in BOOLEAN /\ early \in BOOLEAN /\ overlap \in BOOLEAN
    BY DEF Init
  <2>2. pos \in [Proc -> 0 .. DataLen]
    BY LockedReadAssumption DEF Init
  <2>3. pc \in [Proc -> {"idle", "lock", "waiting", "reading"}] /\ owner \in Proc \cup {NoProc}
    BY DEF Init
  <2> QED  BY <2>1, <2>2, <2>3 DEF TypeOK
<1>2. Owned
  BY DEF Init, Owned, Reading
<1> QED  BY <1>1, <1>2 DEF IInv

LEMMA TakeStep ==
  ASSUME IInv, NEW p \in Proc, Take(p)
  PROVE  IInv'
<1>1. /\ owner = NoProc /\ owner' = p /\ pc' = [pc EXCEPT ![p] = "reading"]
      /\ UNCHANGED <<interruptible, loaded, pos, early, overlap>>
  BY DEF Take, Goto, history
<1>2. TypeOK'
  BY <1>1 DEF IInv, TypeOK
<1>3. Reading' = Reading \cup {p}
  BY <1>1 DEF Reading, IInv, TypeOK
<1>4. NoProc \notin Reading
  BY LockedReadAssumption DEF Reading
<1>5. ~ overlap => Reading = {}
  BY <1>1, <1>4 DEF IInv, Owned
<1>6. \A q, r \in Reading' \ {owner'} : q = r
  BY <1>1, <1>3, <1>4 DEF IInv, Owned
<1>7. Owned'
  BY <1>1, <1>3, <1>5, <1>6 DEF Owned, IInv
<1> QED  BY <1>2, <1>7 DEF IInv

(* Going elsewhere without the mutex.                                      *)
LEMMA IdleStep ==
  ASSUME IInv, NEW p \in Proc, NEW to \in {"idle", "lock", "waiting"}, Goto(p, to),
         UNCHANGED <<interruptible, loaded, pos, owner, early, overlap>>
  PROVE  IInv'
<1>1. TypeOK'
  BY DEF Goto, IInv, TypeOK
<1>2. Reading' \subseteq Reading
  BY DEF Goto, Reading, IInv, TypeOK
<1>3. Owned'
  BY <1>2 DEF Owned, IInv
<1> QED  BY <1>1, <1>3 DEF IInv

(* Whoever returns, at most the owner and one other process were reading.  *)
LEMMA ReturnStep ==
  ASSUME IInv, NEW p \in Proc, ReadReturns(p)
  PROVE  IInv'
<1>1. /\ pc[p] = "reading" /\ pc' = [pc EXCEPT ![p] = "idle"] /\ owner' = NoProc
      /\ overlap' = (overlap /\ Reading # {p})
      /\ UNCHANGED <<interruptible, loaded, early>>
  BY DEF ReadReturns, ReadEof, ReadFault, ReadDone, Unlock, Goto
<1>2. pos' \in [Proc -> 0 .. DataLen]
  <2>1. CASE pos' = pos
    BY <2>1 DEF IInv, TypeOK
  <2>2. CASE ReadDone(p)
    <3>1. PICK count \in 0 .. DataLen - pos[p] : pos' = [pos EXCEPT ![p] = @ + count]
      BY <2>2 DEF ReadDone
    <3>2. pos[p] + count \in 0 .. DataLen
      BY <3>1, LockedReadAssumption DEF IInv, TypeOK
    <3> QED  BY <3>1, <3>2 DEF IInv, TypeOK
  <2> QED  BY <2>1, <2>2 DEF ReadReturns, ReadEof, ReadFault
<1>3. TypeOK'
  BY <1>1, <1>2 DEF IInv, TypeOK
<1>4. Reading' = Reading \ {p} /\ p \in Reading
  BY <1>1 DEF IInv, Reading, TypeOK
<1>5. ~ overlap' => Reading' = {}
  BY <1>1, <1>4 DEF IInv, Owned, TypeOK
<1>6. \A q, r \in Reading \ {p} : q = r
  BY <1>4 DEF IInv, Owned
<1>7. Owned'
  BY <1>1, <1>4, <1>5, <1>6 DEF Owned, IInv
<1> QED  BY <1>3, <1>7 DEF IInv

(* If nobody reads when init calls mutex_init, nobody loses the mutex; and *)
(* nobody but the owner can.                                               *)
LEMMA InitStep ==
  ASSUME IInv, MutexInit
  PROVE  IInv'
<1>1. /\ loaded' = TRUE /\ owner' = NoProc /\ early' = (owner # NoProc \/ waiters # <<>>)
      /\ overlap' = (owner # NoProc)
      /\ UNCHANGED <<interruptible, pc, pos>> /\ loaded = FALSE
  BY DEF MutexInit, IInv, TypeOK
<1>2. TypeOK'
  BY <1>1 DEF IInv, TypeOK
<1>3. Reading \subseteq {owner} /\ NoProc \notin Reading
  BY <1>1, LockedReadAssumption DEF IInv, Owned, Reading
<1>4. Reading' = Reading
  BY <1>1 DEF Reading
<1>5. Owned'
  BY <1>1, <1>3, <1>4 DEF Owned
<1> QED  BY <1>2, <1>5 DEF IInv

LEMMA StepKeepsInvariant == IInv /\ [Next]_vars => IInv'
<1> SUFFICES ASSUME IInv, [Next]_vars PROVE IInv'
  OBVIOUS
<1>1. CASE MutexInit
  BY <1>1, InitStep
<1>2. ASSUME NEW p \in Proc, Call(p) \/ Step(p) \/ LockSignalled(p) \/ Interrupted(p)
      PROVE  IInv'
  <2>1. CASE Lock(p) \/ LockSignalled(p)
    BY <2>1, TakeStep DEF Lock, LockSignalled
  <2>2. CASE Call(p) \/ Wait(p) \/ Interrupted(p)
    BY <2>2, IdleStep DEF Call, Wait, Interrupted, mutex, history
  <2>3. CASE WaitAgain(p)
    BY <2>3 DEF WaitAgain, history, IInv, TypeOK, Owned, Reading
  <2>4. CASE ReadReturns(p)
    BY <2>4, ReturnStep
  <2> QED  BY <1>2, <2>1, <2>2, <2>3, <2>4 DEF Step
<1>3. CASE UNCHANGED vars
  BY <1>3 DEF vars, mutex, history, IInv, TypeOK, Owned, Reading
<1> QED  BY <1>1, <1>2, <1>3 DEF Next

LEMMA Invariance == Spec => []IInv
BY Initially, StepKeepsInvariant, PTL DEF Spec

-----------------------------------------------------------------------------

(* The position of a file never passes the end of the text, so the count   *)
(* that my_read computes from it is never negative.                        *)
THEOREM TypeCorrect == Spec => []TypeOK
<1>1. IInv => TypeOK
  BY DEF IInv
<1> QED  BY <1>1, Invariance, PTL

(* my_read excludes itself, in both variants and for any number of         *)
(* readers, signals and faults; what an early mutex_init does to it is one *)
(* reader too many, until nobody reads.                                    *)
THEOREM ReadersExclude == Spec => []ExclusionUnlessEarly
<1>1. ASSUME IInv PROVE ExclusionUnlessEarly
  <2>1. \A p, q \in Reading : p # q => overlap
    BY <1>1 DEF IInv, Owned
  <2>2. \A p, q, r \in Reading : p = q \/ q = r \/ p = r
    BY <1>1 DEF IInv, Owned
  <2> QED  BY <2>1, <2>2 DEF ExclusionUnlessEarly
<1> QED  BY <1>1, Invariance, PTL

-----------------------------------------------------------------------------
(* The wait list                                                           *)

Once(s) == \A j, k \in 1 .. Len(s) : s[j] = s[k] => j = k

(* Who leaves the list leaves the others in it, each where it was before   *)
(* or one place further up.                                                *)
LEMMA WithoutProperties ==
  ASSUME NEW s \in Seq(Proc), Once(s), NEW p
  PROVE  /\ Without(s, p) \in Seq(Proc) /\ Once(Without(s, p))
         /\ \A q : Contains(Without(s, p), q) <=> Contains(s, q) /\ q # p
<1>1. CASE ~ Contains(s, p)
  BY <1>1 DEF Without, Contains
<1>2. CASE Contains(s, p)
  <2> DEFINE i == CHOOSE k \in 1 .. Len(s) : s[k] = p
             t == Without(s, p)
             u == SubSeq(s, 1, i - 1)
             v == SubSeq(s, i + 1, Len(s))
  <2>1. i \in 1 .. Len(s) /\ s[i] = p
    BY <1>2 DEF Contains
  <2>2. t = u \o v
    BY <1>2 DEF Without, RemoveAt
  <2> HIDE DEF i
  <2>3. /\ u \in Seq(Proc) /\ Len(u) = i - 1
        /\ \A k \in 1 .. i - 1 : u[k] = s[k]
    BY <2>1
  <2>4. /\ v \in Seq(Proc) /\ Len(v) = Len(s) - i
        /\ \A k \in 1 .. Len(s) - i : v[k] = s[i + k]
    BY <2>1
  <2> HIDE DEF t, u, v
  <2>5. t \in Seq(Proc) /\ Len(t) = Len(s) - 1 /\ Len(s) \in Nat
    <3>1. t \in Seq(Proc) /\ Len(t) = Len(u) + Len(v)
      BY <2>2, <2>3, <2>4, ConcatProperties
    <3> QED
      BY <2>1, <2>3, <2>4, <3>1
  <2>6. \A k \in 1 .. Len(s) - 1 : t[k] = IF k < i THEN s[k] ELSE s[k + 1]
    <3> SUFFICES ASSUME NEW k \in 1 .. Len(s) - 1 PROVE t[k] = IF k < i THEN s[k] ELSE s[k + 1]
      OBVIOUS
    <3>1. k \in 1 .. Len(u) + Len(v) /\ t[k] = IF k <= Len(u) THEN u[k] ELSE v[k - Len(u)]
      BY <2>1, <2>2, <2>3, <2>4, <2>5, ConcatProperties
    <3>2. CASE k < i
      BY <2>1, <2>3, <3>1, <3>2
    <3>3. CASE k >= i
      <4>1. t[k] = v[k - (i - 1)] /\ k - (i - 1) \in 1 .. Len(s) - i
        BY <2>1, <2>3, <2>5, <3>1, <3>3
      <4>2. i + (k - (i - 1)) = k + 1
        BY <2>1
      <4> QED
        BY <2>1, <2>4, <3>3, <4>1, <4>2
    <3> QED
      BY <2>1, <3>2, <3>3
  <2>7. Once(t)
    <3> SUFFICES ASSUME NEW j \in 1 .. Len(t), NEW k \in 1 .. Len(t), t[j] = t[k] PROVE j = k
      BY DEF Once
    <3> DEFINE a == IF j < i THEN j ELSE j + 1
               b == IF k < i THEN k ELSE k + 1
    <3>1. /\ a \in 1 .. Len(s) /\ b \in 1 .. Len(s) /\ t[j] = s[a] /\ t[k] = s[b]
      BY <2>1, <2>5, <2>6
    <3>2. a = b
      BY <3>1, Zenon DEF Once
    <3> QED
      BY <2>1, <2>5, <3>2
  <2>8. ASSUME NEW q, Contains(t, q) PROVE Contains(s, q) /\ q # p
    <3>1. PICK k \in 1 .. Len(t) : t[k] = q
      BY <2>8 DEF Contains
    <3> QED
      BY <2>1, <2>5, <2>6, <3>1 DEF Once, Contains
  <2>9. ASSUME NEW q, Contains(s, q), q # p PROVE Contains(t, q)
    <3>1. PICK k \in 1 .. Len(s) : s[k] = q
      BY <2>9 DEF Contains
    <3>2. CASE k < i
      BY <2>1, <2>5, <2>6, <3>1, <3>2 DEF Contains
    <3>3. CASE k > i
      <4>1. k - 1 \in 1 .. Len(t) /\ t[k - 1] = q
        BY <2>1, <2>5, <2>6, <3>1, <3>3
      <4> QED
        BY <4>1 DEF Contains
    <3> QED
      BY <2>1, <2>9, <3>1, <3>2, <3>3
  <2> QED
    BY <2>5, <2>7, <2>8, <2>9 DEF t
<1> QED
  BY <1>1, <1>2

(* Who owns the mutex reads; who is in the list waits, and so long as      *)
(* mutex_init has not emptied it, who waits is in it; and whenever the     *)
(* mutex is free the first in the list has been woken. Nobody joins while  *)
(* it is free, and nobody but the owner leaves it free.                    *)
ListInv ==
  /\ owner # NoProc => pc[owner] = "reading"
  /\ waiters \in Seq(Proc) /\ Once(waiters)
  /\ \A p \in Proc : Contains(waiters, p) => pc[p] = "waiting"
  /\ ~ early => \A p \in Proc : pc[p] = "waiting" => Contains(waiters, p)
  /\ owner = NoProc /\ waiters # <<>> => Head(waiters) \in woken

LEMMA ListInit == Init => ListInv
BY DEF Init, ListInv, Once, Contains

LEMMA ListTake ==
  ASSUME IInv, ListInv, NEW p \in Proc, Take(p)
  PROVE  ListInv'
<1>1. /\ owner' = p /\ pc' = [pc EXCEPT ![p] = "reading"] /\ early' = early
      /\ waiters' = Without(waiters, p)
  BY DEF Take, Goto, history
<1>2. /\ waiters' \in Seq(Proc) /\ Once(waiters')
      /\ \A q : Contains(waiters', q) <=> Contains(waiters, q) /\ q # p
  BY <1>1, WithoutProperties DEF ListInv
<1> QED
  BY <1>1, <1>2, LockedReadAssumption DEF ListInv, IInv, TypeOK

LEMMA ListWait ==
  ASSUME IInv, ListInv, NEW p \in Proc, Wait(p)
  PROVE  ListInv'
<1>1. /\ pc[p] = "lock" /\ owner # NoProc /\ owner' = owner /\ early' = early
      /\ waiters' = Append(waiters, p) /\ pc' = [pc EXCEPT ![p] = "waiting"]
  BY DEF Wait, Goto, history
<1>2. ~ Contains(waiters, p)
  BY <1>1 DEF ListInv
<1>3. /\ waiters' \in Seq(Proc) /\ Len(waiters') = Len(waiters) + 1 /\ Len(waiters) \in Nat
      /\ \A k \in 1 .. Len(waiters) : waiters'[k] = waiters[k]
      /\ waiters'[Len(waiters) + 1] = p
  BY <1>1 DEF ListInv
<1>4. Once(waiters')
  BY <1>2, <1>3 DEF ListInv, Once, Contains
<1>5. \A q : Contains(waiters', q) <=> Contains(waiters, q) \/ q = p
  BY <1>3 DEF Contains
<1>6. owner \in Proc
  BY <1>1 DEF IInv, TypeOK
<1>7. pc'[owner'] = "reading"
  BY <1>1, <1>6 DEF ListInv, IInv, TypeOK
<1> QED
  BY <1>1, <1>3, <1>4, <1>5, <1>7 DEF ListInv, IInv, TypeOK

LEMMA ListInterrupted ==
  ASSUME IInv, ListInv, NEW p \in Proc, Interrupted(p)
  PROVE  ListInv'
<1>1. /\ pc[p] = "waiting" /\ pc' = [pc EXCEPT ![p] = "idle"] /\ early' = early
      /\ owner # NoProc /\ owner' = owner /\ waiters' = Without(waiters, p)
  BY DEF Interrupted, Goto, history
<1>2. /\ waiters' \in Seq(Proc) /\ Once(waiters')
      /\ \A q : Contains(waiters', q) <=> Contains(waiters, q) /\ q # p
  BY <1>1, WithoutProperties DEF ListInv
<1>3. pc'[owner'] = "reading"
  BY <1>1 DEF ListInv, IInv, TypeOK
<1> QED
  BY <1>1, <1>2, <1>3 DEF ListInv, IInv, TypeOK

LEMMA ListReturn ==
  ASSUME IInv, ListInv, NEW p \in Proc, ReadReturns(p)
  PROVE  ListInv'
<1>1. /\ pc[p] = "reading" /\ pc' = [pc EXCEPT ![p] = "idle"] /\ owner' = NoProc
      /\ waiters' = waiters /\ early' = early
      /\ waiters # <<>> => Head(waiters) \in woken'
  BY DEF ReadReturns, ReadEof, ReadFault, ReadDone, Unlock, Goto
<1> QED
  BY <1>1 DEF ListInv, IInv, TypeOK

LEMMA ListStep == IInv /\ ListInv /\ [Next]_vars => ListInv'
<1> SUFFICES ASSUME IInv, ListInv, [Next]_vars PROVE ListInv'
  OBVIOUS
<1>1. CASE MutexInit
  <2>1. /\ owner' = NoProc /\ waiters' = <<>> /\ pc' = pc
        /\ early' = (owner # NoProc \/ waiters # <<>>) /\ ~ early
    BY <1>1 DEF MutexInit, IInv, Owned
  <2>2. waiters' \in Seq(Proc) /\ Once(waiters') /\ \A q : ~ Contains(waiters', q)
    BY <2>1 DEF Contains, Once
  <2>3. ~ early' => \A p \in Proc : pc[p] # "waiting"
    BY <2>1, <2>2 DEF ListInv, Contains
  <2> QED
    BY <2>1, <2>2, <2>3 DEF ListInv
<1>2. ASSUME NEW p \in Proc, Call(p) \/ Step(p) \/ LockSignalled(p) \/ Interrupted(p)
      PROVE  ListInv'
  <2>1. CASE Lock(p) \/ LockSignalled(p)
    BY <2>1, ListTake DEF Lock, LockSignalled
  <2>2. CASE Call(p)
    BY <2>2, LockedReadAssumption DEF Call, Goto, mutex, history, ListInv, IInv, TypeOK
  <2>3. CASE WaitAgain(p)
    BY <2>3 DEF WaitAgain, history, ListInv
  <2> QED  BY <1>2, <2>1, <2>2, <2>3, ListWait, ListInterrupted, ListReturn DEF Step
<1>3. CASE UNCHANGED vars
  BY <1>3 DEF vars, mutex, history, ListInv
<1> QED  BY <1>1, <1>2, <1>3 DEF Next

(* A wake-up is never lost, the safety half of WaiterIsServed: whoever     *)
(* waits for the mutex finds that another process reads and will unlock    *)
(* it, or that it is free and one of those that wait has been woken; for   *)
(* any number of readers, signals in any order and lost races. The only    *)
(* exception is a mutex that was in use when init called mutex_init.       *)
NobodyIsForgotten ==
  ~ early =>
    \A p \in Proc : pc[p] = "waiting" =>
      \/ owner # NoProc /\ pc[owner] = "reading"
      \/ owner = NoProc /\ \E q \in Proc \cap woken : pc[q] = "waiting"

THEOREM NoWakeUpIsLost == Spec => []NobodyIsForgotten
<1>1. ListInv => NobodyIsForgotten
  <2> SUFFICES ASSUME ListInv, ~ early, NEW p \in Proc, pc[p] = "waiting", owner = NoProc
               PROVE  \E q \in Proc \cap woken : pc[q] = "waiting"
    BY DEF NobodyIsForgotten, ListInv
  <2>1. waiters # <<>> /\ waiters \in Seq(Proc)
    BY DEF ListInv, Contains
  <2>2. Head(waiters) \in Proc /\ Contains(waiters, Head(waiters))
    BY <2>1 DEF Contains
  <2> QED
    BY <2>1, <2>2 DEF ListInv
<1>2. Init => IInv /\ ListInv
  BY Initially, ListInit
<1>3. IInv /\ ListInv /\ [Next]_vars => IInv' /\ ListInv'
  BY StepKeepsInvariant, ListStep
<1> QED  BY <1>1, <1>2, <1>3, PTL DEF Spec
=============================================================================
