----------------------------- MODULE LockedRead -----------------------------
(***************************************************************************)
(* The read function of 006_mutex, in both variants, and the call of       *)
(* mutex_init with which init ends, when the device can already be read.   *)
(*                                                                         *)
(* A reader holds the mutex across a sleep of ten seconds and the copy.    *)
(* The mutex is modelled as kernel/locking/mutex.c has it: an unlock frees *)
(* it whoever owns it and wakes the first waiter, who tries again.         *)
(***************************************************************************)
EXTENDS Integers, Sequences, SequencesExt

CONSTANTS Proc,    \* processes that read, each with a file of its own
          NoProc,  \* the mutex is free
          DataLen, \* strlen(device_buffer)
          Variants \* the variants: is the lock interruptible?

ASSUME LockedReadAssumption ==
  NoProc \notin Proc /\ DataLen \in Nat /\ Variants \subseteq BOOLEAN

VARIABLES interruptible, \* mutex_lock_interruptible or mutex_lock
          loaded,        \* init has called mutex_init
          pc,            \* where each process is
          pos,           \* its file position
          owner,         \* of my_lock
          waiters,       \* its wait list
          woken,         \* waiters that were woken
          early,         \* the mutex was in use when mutex_init was called
          overlap        \* history: mutex_init took the mutex from a reader, and
                         \* there has been a reader ever since

mutex == <<owner, waiters, woken>>
history == <<early, overlap>>
vars == <<interruptible, loaded, pc, pos, mutex, history>>

Init ==
  /\ interruptible \in Variants
  /\ loaded = FALSE
  /\ pc = [p \in Proc |-> "idle"]
  /\ pos = [p \in Proc |-> 0]
  /\ owner = NoProc /\ waiters = <<>> /\ woken = {}
  /\ early = FALSE /\ overlap = FALSE

-----------------------------------------------------------------------------
Goto(p, to) == pc' = [pc EXCEPT ![p] = to]

Call(p) ==
  /\ pc[p] = "idle"
  /\ Goto(p, "lock")
  /\ UNCHANGED <<interruptible, loaded, pos, mutex, history>>

(* The wait list without p, which is in it once.                           *)
Without(s, p) ==
  IF Contains(s, p) THEN RemoveAt(s, CHOOSE k \in 1 .. Len(s) : s[k] = p) ELSE s

(* A waiter that finds the mutex free leaves the wait list.                *)
Take(p) ==
  /\ owner = NoProc
  /\ owner' = p
  /\ waiters' = Without(waiters, p)
  /\ woken' = woken \ {p}
  /\ Goto(p, "reading")
  /\ UNCHANGED <<interruptible, loaded, pos, history>>

Lock(p) ==
  /\ pc[p] = "lock" \/ (pc[p] = "waiting" /\ p \in woken)
  /\ Take(p)

(* A signal wakes a waiter too, wherever it is in the list. It looks at    *)
(* the mutex once more before it looks at the signal.                      *)
LockSignalled(p) ==
  /\ pc[p] = "waiting" /\ interruptible
  /\ p \notin woken
  /\ Take(p)

Wait(p) ==
  /\ pc[p] = "lock"
  /\ owner # NoProc
  /\ waiters' = Append(waiters, p)
  /\ Goto(p, "waiting")
  /\ UNCHANGED <<interruptible, loaded, pos, owner, woken, history>>

(* Another process was faster.                                             *)
WaitAgain(p) ==
  /\ pc[p] = "waiting" /\ p \in woken
  /\ owner # NoProc
  /\ woken' = woken \ {p}
  /\ UNCHANGED <<interruptible, loaded, pc, pos, owner, waiters, history>>

(* Returns -EINTR.                                                         *)
Interrupted(p) ==
  /\ pc[p] = "waiting" /\ interruptible
  /\ owner # NoProc
  /\ waiters' = Without(waiters, p)
  /\ woken' = woken \ {p}
  /\ Goto(p, "idle")
  /\ UNCHANGED <<interruptible, loaded, pos, owner, history>>

Reading == {p \in Proc : pc[p] = "reading"}

(* An unlock does not look who the owner is. With the last reader gone the *)
(* mutex is again what its users believe.                                  *)
Unlock(p) ==
  /\ owner' = NoProc
  /\ woken' = woken \cup (IF waiters = <<>> THEN {} ELSE {Head(waiters)})
  /\ waiters' = waiters
  /\ overlap' = (overlap /\ Reading # {p})
  /\ early' = early

(* Slip: the lock is kept at the end of the data.                          *)
ReadEof_KeepsLock(p) ==
  /\ pc[p] = "reading"
  /\ pos[p] >= DataLen
  /\ Goto(p, "idle")
  /\ UNCHANGED <<interruptible, loaded, pos, mutex, history>>

ReadEof(p) ==
  /\ pc[p] = "reading"
  /\ pos[p] >= DataLen
  /\ Unlock(p)
  /\ Goto(p, "idle")
  /\ UNCHANGED <<interruptible, loaded, pos>>

(* Slip: the return is missing, and the read goes on without the lock.     *)
ReadFault_GoesOn(p) ==
  /\ pc[p] = "reading"
  /\ pos[p] < DataLen
  /\ Unlock(p)
  /\ UNCHANGED <<interruptible, loaded, pc, pos>>

ReadFault(p) ==
  /\ pc[p] = "reading"
  /\ pos[p] < DataLen
  /\ Unlock(p)
  /\ Goto(p, "idle")
  /\ UNCHANGED <<interruptible, loaded, pos>>

ReadDone(p) ==
  /\ pc[p] = "reading"
  /\ pos[p] < DataLen
  /\ \E count \in 0 .. DataLen - pos[p] : pos' = [pos EXCEPT ![p] = @ + count]
  /\ Unlock(p)
  /\ Goto(p, "idle")
  /\ UNCHANGED <<interruptible, loaded>>

(* The last statement of init: the mutex is free and nobody waits for it.  *)
MutexInit ==
  /\ ~ loaded
  /\ loaded' = TRUE
  /\ early' = (owner # NoProc \/ waiters # <<>>)
  /\ overlap' = (owner # NoProc)
  /\ owner' = NoProc
  /\ waiters' = <<>>
  /\ UNCHANGED <<interruptible, pc, pos, woken>>

-----------------------------------------------------------------------------
ReadReturns(p) == ReadEof(p) \/ ReadFault(p) \/ ReadDone(p)

Step(p) == Lock(p) \/ Wait(p) \/ WaitAgain(p) \/ ReadReturns(p)

Next ==
  \/ MutexInit
  \/ \E p \in Proc : Call(p) \/ Step(p) \/ LockSignalled(p) \/ Interrupted(p)

Spec == Init /\ [][Next]_vars

(* Sleeps end, and the mutex is handed over to a waiter that has lost the  *)
(* race for it (MUTEX_FLAG_HANDOFF).                                       *)
FairSpec == Spec /\ \A p \in Proc : WF_vars(Step(p)) /\ SF_vars(Lock(p))

-----------------------------------------------------------------------------
(* Properties                                                              *)

TypeOK ==
  /\ interruptible \in Variants
  /\ loaded \in BOOLEAN /\ early \in BOOLEAN /\ overlap \in BOOLEAN
  /\ pc \in [Proc -> {"idle", "lock", "waiting", "reading"}]
  /\ pos \in [Proc -> 0 .. DataLen]
  /\ owner \in Proc \cup {NoProc}

(* Two processes read at the same time only while there has been a reader  *)
(* ever since mutex_init took the mutex from one, and even then never      *)
(* three: each unlock may let in one reader too many, and the excess ends  *)
(* for good as soon as nobody reads.                                       *)
ExclusionUnlessEarly ==
  /\ \A p, q \in Reading : p # q => overlap
  /\ \A p, q, r \in Reading : p = q \/ q = r \/ p = r

(* A read that waits for the mutex is not forgotten: unless mutex_init has *)
(* emptied the wait list under it, it comes to its turn.                   *)
WaiterIsServed ==
  \A p \in Proc : (pc[p] = "waiting" /\ ~ early /\ loaded) ~> (pc[p] # "waiting")
=============================================================================
