---------------------------- MODULE MsgDevProofs ----------------------------
(***************************************************************************)
(* Proofs about the msgdev driver, for every number of processes and files *)
(* and every size of the buffer.                                           *)
(***************************************************************************)
EXTENDS MsgDev, SequenceTheorems, TLAPS

Inv1 == TypeOK /\ LocalInv

LEMMA SizeIsInt == BUFFER_SIZE \in Nat /\ BUFFER_SIZE - 1 \in Index /\ 0 \in Index
  BY BufferAssumption DEF Index

LEMMA RequestsType ==
  ASSUME NEW pos \in Index
  PROVE  /\ Requests(pos) \subseteq Call
         /\ \A c \in Requests(pos) :
              /\ c.op = "write" => c.len = Len(c.data)
              /\ c.op = "read" => c.pos <= BUFFER_SIZE - 1
<1> DEFINE Fits(c) == /\ c \in Call
                      /\ c.op = "write" => c.len = Len(c.data)
                      /\ c.op = "read" => c.pos <= BUFFER_SIZE - 1
<1>1. 0 \in Index /\ pos <= BUFFER_SIZE - 1
  BY BufferAssumption DEF Index
<1>2. ASSUME NEW c \in [op : {"read"}, pos : {pos}, len : ReadLen, data : {<<>>}]
      PROVE  Fits(c)
  BY <1>1, InputAssumption DEF Call
<1>3. ASSUME NEW d \in Payload
      PROVE  Fits([op |-> "write", pos |-> pos, len |-> Len(d), data |-> d])
  <2>1. Len(d) \in Nat
    BY InputAssumption
  <2> QED
    BY <2>1, <1>1 DEF Call
<1>4. ASSUME NEW c \in [op : Ioctl, pos : {0}, len : {0}, data : {<<>>}]
      PROVE  Fits(c)
  BY <1>1 DEF Call, Ioctl
<1>5. \A c \in Requests(pos) : Fits(c)
  BY <1>2, <1>3, <1>4 DEF Requests
<1> QED
  BY <1>5

LEMMA NoCallType == NoCall \in Call
  BY BufferAssumption DEF NoCall, Call, Index

LEMMA PendingType == Pending \in Result /\ Pending.n = 0
  BY BufferAssumption DEF Pending, Result, Index

LEMMA OkType ==
  ASSUME NEW n \in Index, NEW bytes \in Seq(Byte \cup Index)
  PROVE  Ok(n, bytes) \in Result /\ Ok(n, bytes).n = n
  BY DEF Ok, Result

LEMMA EmptyOkType == Ok(0, <<>>) \in Result /\ Ok(0, <<>>).n = 0
<1>1. <<>> \in Seq(Byte \cup Index)
  OBVIOUS
<1> QED
  BY <1>1, SizeIsInt, OkType

LEMMA FailType ==
  ASSUME NEW code \in {"EFAULT", "ERESTARTSYS", "ENOTTY"}
  PROVE  Fail(code) \in Result /\ Fail(code).n = 0
  BY BufferAssumption DEF Fail, Result, Index

LEMMA ContentType ==
  ASSUME TypeOK
  PROVE  Content \in Seq(Byte) /\ Len(Content) = msg_len
         /\ \A i \in 1 .. msg_len : Content[i] = message[i - 1]
<1>1. msg_len \in Nat /\ \A i \in 1 .. msg_len : message[i - 1] \in Byte
  BY BufferAssumption DEF TypeOK, Index
<1>2. Content \in [1 .. msg_len -> Byte]
  BY <1>1 DEF Content
<1> QED
  BY <1>1, <1>2 DEF Content

LEMMA InitInv1 == Init => Inv1
  BY BufferAssumption, NoCallType, PendingType
  DEF Init, Inv1, TypeOK, LocalInv, Local, In, NoCall, Pending, Label, Index, Byte

LEMMA Types ==
  ASSUME TypeOK, NEW p \in Proc
  PROVE  /\ BUFFER_SIZE \in Nat
         /\ call[p].pos \in Nat /\ call[p].pos <= BUFFER_SIZE - 1
         /\ call[p].len \in Nat /\ call[p].data \in Seq(Char)
         /\ todo[p] \in Nat /\ todo[p] <= BUFFER_SIZE - 1
         /\ done[p] \in Nat /\ done[p] <= BUFFER_SIZE - 1
         /\ msg_len \in Nat /\ msg_len <= BUFFER_SIZE - 1
         /\ out[p] \in Seq(Byte) /\ out[p] \in Seq(Byte \cup Index)
         /\ ret[p].n \in Nat /\ ret[p].n <= BUFFER_SIZE - 1
         /\ \A i \in Nat : i <= BUFFER_SIZE - 1 => i \in Index
<1>1. call[p] \in Call /\ ret[p] \in Result /\ out[p] \in Seq(Byte)
  BY DEF TypeOK
<1>2. out[p] \in Seq(Byte \cup Index)
  BY <1>1, SeqMonotonic
<1>3. call[p].pos \in Index /\ call[p].len \in Nat /\ call[p].data \in Seq(Char)
  <2>1. /\ call[p].pos \in Index /\ call[p].len \in Nat
        /\ call[p].data \in Payload \cup {<<>>}
    BY <1>1 DEF Call
  <2>2. <<>> \in Seq(Char)
    OBVIOUS
  <2> QED
    BY <2>1, <2>2, InputAssumption
<1>4. ret[p].n \in Index
  BY <1>1 DEF Result
<1>5. todo[p] \in Index /\ done[p] \in Index /\ msg_len \in Index
  BY DEF TypeOK
<1> QED
  BY <1>1, <1>2, <1>3, <1>4, <1>5, SizeIsInt DEF Index

(* A step of p leaves what the others have decided alone.                  *)
LEMMA OnlyMoves ==
  ASSUME LocalInv, NEW p \in Proc, Local(p)',
         \A q \in Proc \ {p} :
           /\ pc'[q] = pc[q] /\ call'[q] = call[q] /\ todo'[q] = todo[q]
           /\ done'[q] = done[q] /\ out'[q] = out[q] /\ ret'[q] = ret[q]
  PROVE  LocalInv'
<1> SUFFICES ASSUME NEW q \in Proc \ {p} PROVE Local(q)'
  BY DEF LocalInv
<1> QED
  BY DEF LocalInv, Local, In

(* The two ways a body goes on: it starts a copy, or it has its result.    *)
LEMMA StartCopyInv ==
  ASSUME Inv1, NEW p \in Proc, pc[p] = "body", NEW n \in Index, StartCopy(p, n),
         n <= call[p].len,
         call[p].op = "read" => call[p].pos + n <= BUFFER_SIZE - 1
  PROVE  Inv1'
<1>1. TypeOK'
  BY DEF Inv1, StartCopy, Goto, data, files, Label, TypeOK
<1>2. /\ pc'[p] = "copy" /\ todo'[p] = n /\ done[p] = 0
      /\ UNCHANGED <<call, done, out, ret>>
  BY DEF Inv1, StartCopy, Goto, TypeOK, Local, LocalInv
<1>3. Local(p)'
  BY <1>2 DEF Inv1, Local, LocalInv, In, Index
<1>4. LocalInv'
  BY <1>3, OnlyMoves DEF Inv1, StartCopy, Goto, TypeOK
<1> QED
  BY <1>1, <1>4 DEF Inv1

LEMMA FinishInv ==
  ASSUME Inv1, NEW p \in Proc, NEW r \in Result, Finish(p, r),
         message' \in [Index -> Byte], msg_len' \in Index,
         call[p].op = "read" => call[p].pos + r.n <= BUFFER_SIZE - 1
  PROVE  Inv1'
<1>1. TypeOK'
  BY DEF Inv1, Finish, Goto, files, Label, TypeOK
<1>2. Local(p)'
  BY DEF Inv1, Finish, Goto, TypeOK, Local, LocalInv, In
<1>3. LocalInv'
  BY <1>2, OnlyMoves DEF Inv1, Finish, Goto, TypeOK
<1> QED
  BY <1>1, <1>3 DEF Inv1

LEMMA NextInv1 == Inv1 /\ [Next]_vars => Inv1'
<1> SUFFICES ASSUME Inv1, [Next]_vars PROVE Inv1'
  OBVIOUS
<1> USE DEF Inv1
<1>1. ASSUME NEW f \in File, dev_open(f) PROVE Inv1'
  <2>1. TypeOK'
    BY <1>1, SizeIsInt DEF dev_open, locals, TypeOK
  <2>2. LocalInv'
    BY <1>1 DEF dev_open, locals, LocalInv, Local, In
  <2> QED
    BY <2>1, <2>2
<1>2. ASSUME NEW f \in File, dev_release(f) PROVE Inv1'
  BY <1>2 DEF dev_release, locals, TypeOK, LocalInv, Local, In
<1>3. ASSUME NEW p \in Proc, NEW f \in File, Enter(p, f) PROVE Inv1'
  <2>1. PICK c \in Requests(f_pos[f]) :
          /\ call' = [call EXCEPT ![p] = c]
          /\ Goto(p, IF c.op \in Ioctl THEN "check" ELSE "lock")
    BY <1>3 DEF Enter
  <2>2. /\ c \in Call
        /\ c.op = "write" => c.len = Len(c.data)
        /\ c.op = "read" => c.pos <= BUFFER_SIZE - 1
    BY RequestsType DEF TypeOK
  <2>3. TypeOK'
    BY <1>3, <2>1, <2>2 DEF Enter, Goto, data, files, Label, TypeOK
  <2>4. /\ pc[p] = "idle" /\ pc'[p] \in {"check", "lock"} /\ call'[p] = c
        /\ UNCHANGED <<todo, done, out, ret>>
    BY <1>3, <2>1 DEF Enter, Goto, Idle, TypeOK
  <2>5. Local(p)'
    BY <2>2, <2>4, PendingType DEF Local, LocalInv, In, Call, Index
  <2>6. LocalInv'
    BY <1>3, <2>1, <2>5, OnlyMoves DEF Enter, Goto, TypeOK
  <2> QED
    BY <2>3, <2>6
<1>4. ASSUME NEW p \in Proc, CheckCmd(p) PROVE Inv1'
  <2>1. TypeOK'
    BY <1>4, FailType DEF CheckCmd, Goto, data, files, Label, TypeOK
  <2>2. Local(p)'
    BY <1>4, FailType, Types DEF CheckCmd, Goto, TypeOK, Local, LocalInv, In
  <2>3. LocalInv'
    BY <1>4, <2>2, OnlyMoves DEF CheckCmd, Goto, TypeOK
  <2> QED
    BY <2>1, <2>3
<1>5. ASSUME NEW p \in Proc, Lock(p) PROVE Inv1'
  <2>1. TypeOK'
    BY <1>5 DEF Lock, Goto, data, files, locals, Label, TypeOK
  <2>2. Local(p)'
    BY <1>5 DEF Lock, Goto, locals, TypeOK, Local, LocalInv, In
  <2>3. LocalInv'
    BY <1>5, <2>2, OnlyMoves DEF Lock, Goto, locals, TypeOK
  <2> QED
    BY <2>1, <2>3
<1>6. ASSUME NEW p \in Proc, Interrupted(p) PROVE Inv1'
  <2>1. TypeOK'
    BY <1>6, FailType DEF Interrupted, Goto, data, files, Label, TypeOK
  <2>2. Local(p)'
    BY <1>6, FailType, Types DEF Interrupted, Goto, TypeOK, Local, LocalInv, In
  <2>3. LocalInv'
    BY <1>6, <2>2, OnlyMoves DEF Interrupted, Goto, TypeOK
  <2> QED
    BY <2>1, <2>3
<1>7. ASSUME NEW p \in Proc, ReadEof(p) PROVE Inv1'
  <2>1. Finish(p, Ok(0, <<>>)) /\ UNCHANGED data
    BY <1>7 DEF ReadEof
  <2>2. call[p].pos + 0 <= BUFFER_SIZE - 1
    BY Types
  <2> QED
    BY <2>1, <2>2, EmptyOkType, FinishInv DEF data, TypeOK
<1>8. ASSUME NEW p \in Proc, ReadStart(p) PROVE Inv1'
  <2> DEFINE n == Lesser(call[p].len, msg_len - call[p].pos)
  <2>1. n \in Index /\ n <= call[p].len /\ call[p].pos + n <= BUFFER_SIZE - 1
    BY <1>8, Types DEF ReadStart, Lesser
  <2>2. pc[p] = "body" /\ StartCopy(p, n)
    BY <1>8 DEF ReadStart, In
  <2> HIDE DEF n
  <2> QED
    BY <2>1, <2>2, StartCopyInv
<1>9. ASSUME NEW p \in Proc, ReadByte(p) PROVE Inv1'
  <2>1. /\ done[p] + 1 \in Index
        /\ call[p].pos + done[p] \in Index
        /\ Append(out[p], message[call[p].pos + done[p]]) \in Seq(Byte)
    <3>1. /\ done[p] < todo[p] /\ call[p].pos + todo[p] <= BUFFER_SIZE - 1
      BY <1>9 DEF ReadByte, In, LocalInv, Local
    <3>2. /\ done[p] + 1 \in Nat /\ done[p] + 1 <= BUFFER_SIZE - 1
          /\ call[p].pos + done[p] \in Nat /\ call[p].pos + done[p] <= BUFFER_SIZE - 1
      BY <3>1, Types
    <3>3. done[p] + 1 \in Index /\ call[p].pos + done[p] \in Index
      BY <3>2, Types
    <3> QED
      BY <3>3, Types DEF TypeOK
  <2>2. TypeOK'
    BY <1>9, <2>1 DEF ReadByte, data, files, TypeOK
  <2>3. /\ pc[p] = "copy" /\ done[p] < todo[p] /\ done'[p] = done[p] + 1
        /\ UNCHANGED <<pc, call, todo, ret>>
    BY <1>9 DEF ReadByte, In, TypeOK
  <2>4. Local(p)'
    BY <2>3, Types DEF Local, LocalInv, In
  <2>5. LocalInv'
    BY <1>9, <2>4, OnlyMoves DEF ReadByte, TypeOK
  <2> QED
    BY <2>2, <2>5
<1>10. ASSUME NEW p \in Proc, ReadDone(p) PROVE Inv1'
  <2> DEFINE r == Ok(todo[p], out[p])
  <2>1. r \in Result /\ r.n = todo[p]
    <3>1. todo[p] \in Index /\ out[p] \in Seq(Byte \cup Index)
      BY Types
    <3> QED
      BY <3>1, OkType
  <2>2. call[p].pos + todo[p] <= BUFFER_SIZE - 1 /\ Finish(p, r) /\ UNCHANGED data
    BY <1>10 DEF ReadDone, LocalInv, Local, In
  <2> HIDE DEF r
  <2> QED
    BY <2>1, <2>2, FinishInv DEF TypeOK, data
<1>11. ASSUME NEW p \in Proc, ReadFault(p) PROVE Inv1'
  <2>1. Finish(p, Fail("EFAULT")) /\ UNCHANGED data
    BY <1>11 DEF ReadFault
  <2>2. call[p].pos + 0 <= BUFFER_SIZE - 1
    BY Types
  <2> QED
    BY <2>1, <2>2, FailType, FinishInv DEF data, TypeOK
<1>12. ASSUME NEW p \in Proc, WriteStart(p) PROVE Inv1'
  <2> DEFINE n == Lesser(call[p].len, BUFFER_SIZE - 1)
  <2>1. n \in Index /\ n <= call[p].len
    BY Types, SizeIsInt DEF Lesser
  <2>2. pc[p] = "body" /\ call[p].op # "read" /\ StartCopy(p, n)
    BY <1>12 DEF WriteStart, In
  <2> HIDE DEF n
  <2> QED
    BY <2>1, <2>2, StartCopyInv
<1>13. ASSUME NEW p \in Proc, WriteByte(p) PROVE Inv1'
  <2>1. done[p] \in Index /\ done[p] + 1 \in Index /\ call[p].data[done[p] + 1] \in Char
    <3>1. /\ done[p] < todo[p] /\ todo[p] <= call[p].len
          /\ call[p].len = Len(call[p].data)
      BY <1>13 DEF WriteByte, In, LocalInv, Local
    <3>2. done[p] \in Index /\ done[p] + 1 \in Index
      BY <3>1, Types
    <3>3. done[p] + 1 \in 1 .. Len(call[p].data)
      BY <3>1, Types
    <3> QED
      BY <3>2, <3>3, Types, ElementOfSeq
  <2>2. TypeOK'
    BY <1>13, <2>1 DEF WriteByte, files, TypeOK, Byte
  <2>3. /\ pc[p] = "copy" /\ done[p] < todo[p] /\ done'[p] = done[p] + 1
        /\ UNCHANGED <<pc, call, todo, ret>>
    BY <1>13 DEF WriteByte, In, TypeOK
  <2>4. Local(p)'
    BY <2>3, Types DEF Local, LocalInv, In
  <2>5. LocalInv'
    BY <1>13, <2>4, OnlyMoves DEF WriteByte, TypeOK
  <2> QED
    BY <2>2, <2>5
<1>14. ASSUME NEW p \in Proc, WriteDone(p) PROVE Inv1'
  <2> DEFINE r == Ok(todo[p], <<>>)
  <2>1. r \in Result
    <3>1. <<>> \in Seq(Byte \cup Index) /\ todo[p] \in Index
      BY Types
    <3> QED
      BY <3>1, OkType
  <2>2. Finish(p, r) /\ call[p].op # "read"
    BY <1>14 DEF WriteDone, In
  <2>3. message' \in [Index -> Byte] /\ msg_len' \in Index
    BY <1>14, Types DEF WriteDone, TypeOK, Byte
  <2> HIDE DEF r
  <2> QED
    BY <2>1, <2>2, <2>3, FinishInv
<1>15. ASSUME NEW p \in Proc, WriteFault(p) PROVE Inv1'
  <2>1. Finish(p, Fail("EFAULT")) /\ call[p].op # "read"
    BY <1>15 DEF WriteFault, In
  <2>2. message' \in [Index -> Byte] /\ msg_len' \in Index
    BY <1>15 DEF WriteFault, TypeOK, Byte
  <2> QED
    BY <2>1, <2>2, FailType, FinishInv
<1>16. ASSUME NEW p \in Proc, IoctlClear(p) PROVE Inv1'
  <2>1. Finish(p, Ok(0, <<>>)) /\ call[p].op # "read"
    BY <1>16 DEF IoctlClear, In
  <2>2. message' \in [Index -> Byte] /\ msg_len' \in Index
    BY <1>16, SizeIsInt DEF IoctlClear, TypeOK, Byte
  <2> QED
    BY <2>1, <2>2, EmptyOkType, FinishInv
<1>17. ASSUME NEW p \in Proc, IoctlGetLen(p) PROVE Inv1'
  <2>1. PICK r \in {Ok(0, <<msg_len>>), Fail("EFAULT")} : Finish(p, r)
    BY <1>17 DEF IoctlGetLen
  <2>2. <<msg_len>> \in Seq(Byte \cup Index) /\ 0 \in Index
    BY Types, SizeIsInt DEF Index
  <2>3. r \in Result
    BY <2>2, OkType, FailType
  <2> QED
    BY <1>17, <2>1, <2>3, FinishInv DEF IoctlGetLen, In, data, TypeOK
<1>18. ASSUME NEW p \in Proc, IoctlUnknown(p) PROVE Inv1'
  BY <1>18, FailType, FinishInv DEF IoctlUnknown, In, data, TypeOK
<1>19. ASSUME NEW p \in Proc, Unlock(p) PROVE Inv1'
  <2>1. TypeOK'
    BY <1>19, ContentType DEF Unlock, Goto, data, files, locals, Label, TypeOK
  <2>2. Local(p)'
    BY <1>19 DEF Unlock, Goto, locals, TypeOK, Local, LocalInv, In
  <2>3. LocalInv'
    BY <1>19, <2>2, OnlyMoves DEF Unlock, Goto, locals, TypeOK
  <2> QED
    BY <2>1, <2>3
<1>20. ASSUME NEW p \in Proc, Return(p) PROVE Inv1'
  <2>1. EndPos(p) \in Index
    BY Types DEF EndPos, LocalInv, Local
  <2>2. f_pos' \in [File -> Index]
    BY <1>20, <2>1 DEF Return, TypeOK
  <2>3. TypeOK'
    BY <1>20, <2>2, NoCallType, PendingType, SizeIsInt
    DEF Return, Goto, data, Label, TypeOK
  <2>4. Local(p)'
    BY <1>20, PendingType, SizeIsInt
    DEF Return, Goto, TypeOK, Local, LocalInv, In, NoCall, Index
  <2>5. LocalInv'
    BY <1>20, <2>4, OnlyMoves DEF Return, Goto, TypeOK
  <2> QED
    BY <2>3, <2>5
<1>21. CASE UNCHANGED vars
  BY <1>21 DEF vars, TypeOK, LocalInv, Local, In
<1> QED
  BY <1>1, <1>2, <1>3, <1>4, <1>5, <1>6, <1>7, <1>8, <1>9, <1>10, <1>11, <1>12, <1>13,
     <1>14, <1>15, <1>16, <1>17, <1>18, <1>19, <1>20, <1>21 DEF Next, Body

(* Type correctness of the driver: no step of any call, of however many    *)
(* processes, takes msg_len, a file position or an index out of the buffer.*)
THEOREM TypeCorrect == Spec => []TypeOK
<1>1. Spec => []Inv1
  BY InitInv1, NextInv1, PTL DEF Spec
<1>2. Inv1 => TypeOK
  BY DEF Inv1
<1> QED
  BY <1>1, <1>2, PTL
-----------------------------------------------------------------------------
(* The second part of the inductive invariant.                             *)

Others(p) ==
  \A q \in Proc \ {p} :
    /\ pc'[q] = pc[q] /\ call'[q] = call[q] /\ todo'[q] = todo[q]
    /\ done'[q] = done[q] /\ out'[q] = out[q] /\ ret'[q] = ret[q]

LEMMA SameHeld ==
  ASSUME NEW q \in Proc, Held(q), UNCHANGED <<message, msg_len, committed>>,
         pc'[q] = pc[q], call'[q] = call[q], todo'[q] = todo[q],
         done'[q] = done[q], out'[q] = out[q], ret'[q] = ret[q]
  PROVE  Held(q)'
<1>1. Content' = Content
  BY DEF Content
<1>2. Copying(q) => Copying(q)'
  BY <1>1 DEF Copying
<1> QED
  BY <1>1, <1>2 DEF Held

(* A step of a process that does not hold the mutex and does not take it.  *)
LEMMA OutsideStep ==
  ASSUME IInv, NEW p \in Proc, pc[p] \notin Holding, pc'[p] \notin Holding,
         UNCHANGED <<message, msg_len, lock, committed>>, Others(p), Stage(p)'
  PROVE  LockInv' /\ Terminated' /\ HeldInv'
<1>1. LockInv' /\ Terminated'
  BY DEF IInv, LockInv, Others, Terminated
<1>2. ASSUME NEW q \in Proc \ {p} PROVE Held(q)' /\ Stage(q)'
  <2>1. Held(q)'
    BY SameHeld DEF IInv, HeldInv, Others
  <2>2. Stage(q)'
    BY DEF IInv, HeldInv, Others, Stage, Idle
  <2> QED
    BY <2>1, <2>2
<1>3. Held(p)'
  BY DEF Held, Holding
<1>4. (lock = NoProc => committed = Content)'
  BY DEF IInv, HeldInv, Content
<1> QED
  BY <1>1, <1>2, <1>3, <1>4 DEF HeldInv

(* A step of the holder that does not release the mutex.                   *)
LEMMA HolderStep ==
  ASSUME IInv, NEW p \in Proc, pc[p] \in Holding, pc'[p] \in Holding,
         UNCHANGED lock, Others(p), Held(p)', Stage(p)'
  PROVE  LockInv' /\ HeldInv'
<1>1. lock = p /\ lock # NoProc
  BY NameAssumption DEF IInv, LockInv
<1>2. LockInv'
  BY <1>1 DEF IInv, LockInv, Others
<1>3. ASSUME NEW q \in Proc \ {p} PROVE Held(q)' /\ Stage(q)'
  <2>1. pc'[q] \notin Holding
    BY <1>1 DEF IInv, LockInv, Others
  <2>2. Stage(q)'
    BY DEF IInv, HeldInv, Others, Stage, Idle
  <2> QED
    BY <2>1, <2>2 DEF Held, Holding
<1> QED
  BY <1>1, <1>2, <1>3 DEF HeldInv

LEMMA StartCopyHeld ==
  ASSUME IInv, NEW p \in Proc, pc[p] = "body", NEW n, StartCopy(p, n), Copying(p)'
  PROVE  LockInv' /\ Terminated' /\ HeldInv'
<1>1. Others(p) /\ pc'[p] = "copy"
  BY DEF IInv, TypeOK, StartCopy, Goto, Others
<1>2. Held(p)'
  BY <1>1 DEF Held
<1>3. Stage(p)'
  BY <1>1 DEF IInv, HeldInv, Stage, Idle, StartCopy, Holding
<1>4. Terminated'
  BY DEF IInv, Terminated, StartCopy, data
<1> QED
  BY <1>1, <1>2, <1>3, <1>4, HolderStep DEF StartCopy, Holding

LEMMA FinishHeld ==
  ASSUME IInv, NEW p \in Proc, pc[p] \in {"body", "copy"}, NEW r, Finish(p, r),
         Outcome(call[p], committed, Content', r)
  PROVE  LockInv' /\ HeldInv'
<1>1. Others(p) /\ pc'[p] = "unlock"
  BY DEF IInv, TypeOK, Finish, Goto, Others
<1>2. Held(p)'
  BY <1>1 DEF Held, Finish, IInv, TypeOK
<1>3. Stage(p)'
  BY <1>1 DEF IInv, HeldInv, Stage, Idle, Finish, Holding
<1> QED
  BY <1>1, <1>2, <1>3, HolderStep DEF Finish, Holding

(* Initially, and in every step.                                           *)
LEMMA InitIInv == Init => IInv
<1> SUFFICES ASSUME Init PROVE IInv
  OBVIOUS
<1>1. TypeOK /\ LocalInv
  BY InitInv1 DEF Inv1
<1>2. LockInv /\ Terminated
  BY NameAssumption, SizeIsInt DEF Init, LockInv, Holding, Terminated
<1>3. committed = Content
  BY DEF Init, Content
<1>4. \A p \in Proc : Held(p) /\ Stage(p)
  BY DEF Init, Held, Stage, Holding, Idle, NoCall
<1> QED
  BY <1>1, <1>2, <1>3, <1>4 DEF IInv, HeldInv

(* The message, with its length, as a sequence.                            *)
LEMMA Message ==
  ASSUME IInv, NEW p \in Proc, committed = Content
  PROVE  /\ committed \in Seq(Byte) /\ Len(committed) = msg_len
         /\ \A i \in 1 .. msg_len : committed[i] = message[i - 1]
  BY ContentType DEF IInv

LEMMA SubSeqGrows ==
  ASSUME NEW S, NEW s \in Seq(S), NEW m \in Nat, NEW k \in Nat, m <= k, k < Len(s)
  PROVE  SubSeq(s, m + 1, k + 1) = Append(SubSeq(s, m + 1, k), s[k + 1])
<1> DEFINE n == k + 1
<1>1. m + 1 \in 1 .. Len(s) /\ n \in m + 1 .. Len(s) /\ n - 1 = k
  OBVIOUS
<1>2. SubSeq(s, m + 1, n) = SubSeq(s, m + 1, n - 1) \o <<s[n]>>
  <2> HIDE DEF n
  <2> QED
    BY <1>1, SubSeqRecursiveSecond
<1>3. SubSeq(s, m + 1, k) \in Seq(S) /\ s[n] \in S
  <2>1. \A i \in m + 1 .. k : s[i] \in S
    OBVIOUS
  <2> QED
    BY <2>1, <1>1, SubSeqProperties
<1> QED
  BY <1>1, <1>2, <1>3

LEMMA SubSeqLen ==
  ASSUME NEW S, NEW s \in Seq(S), NEW m \in Nat, NEW n \in Nat, m + n <= Len(s)
  PROVE  /\ SubSeq(s, m + 1, m + n) \in Seq(S)
         /\ Len(SubSeq(s, m + 1, m + n)) = n
         /\ \A i \in 1 .. n : SubSeq(s, m + 1, m + n)[i] = s[m + i]
<1>1. \A i \in m + 1 .. m + n : s[i] \in S
  OBVIOUS
<1> QED
  BY <1>1, SubSeqProperties

(* What a read is to copy lies in the message.                             *)
LEMMA ReadFits ==
  ASSUME IInv, NEW p \in Proc, In(p, "copy", "read")
  PROVE  /\ committed = Content /\ committed \in Seq(Byte)
         /\ call[p].pos + todo[p] <= Len(committed) /\ Len(committed) = msg_len
<1>1. /\ committed = Content /\ call[p].pos < msg_len
      /\ todo[p] = Lesser(call[p].len, Len(committed) - call[p].pos)
  BY DEF IInv, HeldInv, Held, In, Copying, Length
<1> QED
  BY <1>1, Message, Types DEF IInv, Lesser

LEMMA ReadHeld ==
  ASSUME IInv, NEW p \in Proc,
         ReadEof(p) \/ ReadStart(p) \/ ReadByte(p) \/ ReadDone(p) \/ ReadFault(p)
  PROVE  LockInv' /\ Terminated' /\ HeldInv'
<1>1. /\ UNCHANGED <<data, committed, call>> /\ call[p].op = "read"
      /\ pc[p] \in {"body", "copy"}
      /\ Terminated' /\ Content' = Content
  BY DEF ReadEof, ReadStart, ReadByte, ReadDone, ReadFault, Finish, StartCopy, In,
         IInv, Terminated, Content, data
<1>2. committed = Content
  BY <1>1 DEF IInv, HeldInv, Held, Copying
<1>3. CASE ReadEof(p)
  <2> DEFINE n == Length(call[p], committed)
  <2>1. call[p].pos + n < call[p].pos + 1 /\ n \in Int
    BY <1>1, <1>2, <1>3, Message, Types DEF IInv, ReadEof, Length, Lesser
  <2>2. SubSeq(committed, call[p].pos + 1, call[p].pos + n) = <<>>
    BY <2>1, SubSeqEmpty, Types DEF IInv
  <2>3. Outcome(call[p], committed, Content', Ok(0, <<>>))
    BY <1>1, <1>2, <2>2 DEF Outcome
  <2> QED
    BY <1>1, <1>3, <2>3, FinishHeld DEF ReadEof
<1>4. CASE ReadStart(p)
  <2>1. SubSeq(committed, call[p].pos + 1, call[p].pos + 0) = <<>>
    BY SubSeqEmpty, Types DEF IInv
  <2>2. pc[p] = "body" /\ done[p] = 0 /\ out[p] = <<>>
    BY <1>4 DEF ReadStart, In, IInv, LocalInv, Local
  <2>3. Copying(p)'
    BY <1>1, <1>2, <1>4, <2>1, <2>2, Message
    DEF ReadStart, StartCopy, Copying, Length, IInv, TypeOK, data
  <2> QED
    BY <1>4, <2>2, <2>3, StartCopyHeld DEF ReadStart
<1>5. CASE ReadByte(p)
  <2>1. /\ pc[p] = "copy" /\ Copying(p) /\ done[p] < todo[p] /\ In(p, "copy", "read")
    BY <1>5 DEF ReadByte, In, IInv, HeldInv, Held
  <2> DEFINE m == call[p].pos
             k == m + done[p]
  <2>2. m \in Nat /\ k \in Nat /\ m <= k /\ k < Len(committed)
    BY <2>1, ReadFits, Types DEF IInv
  <2>3. committed[k + 1] = message[k] /\ k + 1 = m + (done[p] + 1)
    <3>1. k + 1 \in 1 .. msg_len /\ k \in Int /\ msg_len \in Int /\ done[p] \in Nat
      BY <2>1, <2>2, ReadFits, Types DEF IInv
    <3>2. \A i \in 1 .. msg_len : committed[i] = message[i - 1]
      BY <1>2, Message
    <3>3. committed[k + 1] = message[k]
      <4> HIDE DEF k
      <4> QED
        BY <3>1, <3>2
    <3>4. k + 1 = m + (done[p] + 1)
      BY <2>2, <3>1
    <3> QED
      BY <3>3, <3>4
  <2>4. out[p] = SubSeq(committed, m + 1, k) /\ out'[p] = Append(out[p], message[k])
    BY <1>1, <1>5, <2>1 DEF ReadByte, Copying, IInv, TypeOK
  <2>5. out'[p] = SubSeq(committed, m + 1, m + (done[p] + 1))
    <3> HIDE DEF m, k
    <3> QED
      BY <2>1, <2>2, <2>3, <2>4, ReadFits, SubSeqGrows
  <2>6. Copying(p)'
    BY <1>1, <1>2, <1>5, <2>1, <2>5 DEF ReadByte, Copying, IInv, TypeOK, data
  <2>7. Others(p) /\ pc'[p] = "copy" /\ UNCHANGED lock /\ Stage(p)'
    BY <1>5, <2>1 DEF ReadByte, Others, IInv, TypeOK, HeldInv, Stage, Idle
  <2> QED
    BY <1>1, <2>1, <2>6, <2>7, HolderStep DEF Held, Holding
<1>6. CASE ReadDone(p)
  <2>1. pc[p] = "copy" /\ Copying(p) /\ done[p] = todo[p]
    BY <1>6 DEF ReadDone, In, IInv, HeldInv, Held
  <2>2. /\ out[p] = SubSeq(committed, call[p].pos + 1, call[p].pos + todo[p])
        /\ todo[p] = Length(call[p], committed)
    BY <1>1, <2>1 DEF Copying
  <2>3. Len(out[p]) = todo[p]
    <3> DEFINE m == call[p].pos
               n == todo[p]
    <3>1. committed \in Seq(Byte) /\ m + n <= Len(committed) /\ m \in Nat /\ n \in Nat
      BY <1>1, <2>1, ReadFits, Types DEF IInv, In
    <3>2. Len(SubSeq(committed, m + 1, m + n)) = n
      <4> HIDE DEF m, n
      <4> QED
        BY <3>1, SubSeqLen
    <3> QED
      BY <2>2, <3>2
  <2>4. Outcome(call[p], committed, Content', Ok(todo[p], out[p]))
    BY <1>1, <1>2, <2>2, <2>3 DEF Outcome
  <2> QED
    BY <1>1, <1>6, <2>4, FinishHeld DEF ReadDone
<1>7. CASE ReadFault(p)
  <2>1. Outcome(call[p], committed, Content', Fail("EFAULT"))
    BY <1>1, <1>2 DEF Outcome
  <2> QED
    BY <1>1, <1>7, <2>1, FinishHeld DEF ReadFault
<1> QED
  BY <1>3, <1>4, <1>5, <1>6, <1>7

LEMMA PrefixAsFunction ==
  ASSUME NEW S, NEW d \in Seq(S), NEW n \in Nat, n <= Len(d)
  PROVE  SubSeq(d, 1, n) = [i \in 1 .. n |-> d[i]]
<1>1. SubSeq(d, 0 + 1, 0 + n) \in Seq(S) /\ Len(SubSeq(d, 0 + 1, 0 + n)) = n
      /\ \A i \in 1 .. n : SubSeq(d, 0 + 1, 0 + n)[i] = d[0 + i]
  BY SubSeqLen
<1> QED
  BY <1>1, LenProperties

LEMMA WriteHeld ==
  ASSUME IInv, NEW p \in Proc,
         WriteStart(p) \/ WriteByte(p) \/ WriteDone(p) \/ WriteFault(p)
  PROVE  LockInv' /\ Terminated' /\ HeldInv'
<1> DEFINE n == Length(call[p], committed)
<1>1. /\ UNCHANGED <<committed, call>> /\ call[p].op = "write"
      /\ pc[p] \in {"body", "copy"}
  BY DEF WriteStart, WriteByte, WriteDone, WriteFault, Finish, StartCopy, In, data
<1>2. n \in Nat /\ n <= BUFFER_SIZE - 1 /\ n = Lesser(call[p].len, BUFFER_SIZE - 1)
  BY <1>1, Types DEF IInv, Length, Lesser
<1>3. CASE WriteStart(p)
  <2>1. pc[p] = "body" /\ done[p] = 0 /\ committed = Content
    BY <1>3 DEF WriteStart, In, IInv, LocalInv, Local, HeldInv, Held
  <2>2. Copying(p)'
    BY <1>1, <1>2, <1>3, <2>1, Message, Types
    DEF WriteStart, StartCopy, Copying, IInv, TypeOK, data
  <2> QED
    BY <1>3, <2>1, <2>2, StartCopyHeld DEF WriteStart
<1>4. ASSUME pc[p] = "copy"
      PROVE  /\ todo[p] = n /\ done[p] <= n /\ Len(committed) = msg_len
             /\ \A i \in 1 .. done[p] : message[i - 1] = call[p].data[i]
             /\ \A i \in done[p] + 1 .. msg_len : message[i - 1] = committed[i]
  BY <1>1, <1>4 DEF IInv, LocalInv, Local, HeldInv, Held, Copying
<1>5. CASE WriteByte(p)
  <2>1. pc[p] = "copy" /\ done[p] < todo[p]
    BY <1>5 DEF WriteByte, In
  <2>2. /\ \A i \in Index : message'[i] = IF i = done[p] THEN call[p].data[done[p] + 1]
                                                         ELSE message[i]
        /\ done'[p] = done[p] + 1 /\ UNCHANGED <<msg_len, todo, out, ret, lock>>
    BY <1>5 DEF WriteByte, IInv, TypeOK
  <2>3. ASSUME NEW i \in 1 .. done[p] + 1
        PROVE  message'[i - 1] = call[p].data[i]
    <3>1. i - 1 \in Index /\ i \in Nat /\ done[p] \in Nat
      BY <1>2, <1>4, <2>1, Types DEF IInv
    <3>2. CASE i = done[p] + 1
      BY <2>2, <3>1, <3>2
    <3>3. CASE i # done[p] + 1
      <4>1. i \in 1 .. done[p] /\ i - 1 # done[p]
        BY <3>1, <3>3
      <4> QED
        BY <1>4, <2>1, <2>2, <3>1, <4>1
    <3> QED
      BY <3>2, <3>3
  <2>4. \A i \in done[p] + 2 .. msg_len : message'[i - 1] = committed[i]
    BY <1>2, <1>4, <2>1, <2>2, Types DEF IInv
  <2>5. Copying(p)'
    <3>1. /\ \A i \in 1 .. done'[p] : message'[i - 1] = call[p].data[i]
          /\ \A i \in done'[p] + 1 .. msg_len : message'[i - 1] = committed[i]
      <4>1. done'[p] = done[p] + 1 /\ done'[p] + 1 = done[p] + 2
        BY <2>2, Types DEF IInv
      <4> QED
        BY <2>3, <2>4, <4>1
    <3>2. todo'[p] = Length(call[p], committed) /\ Len(committed) = msg_len
      BY <1>4, <2>1, <2>2
    <3> QED
      BY <1>1, <2>2, <3>1, <3>2 DEF Copying
  <2>6. Others(p) /\ pc'[p] = "copy" /\ Stage(p)'
    BY <1>5, <2>1 DEF WriteByte, Others, IInv, TypeOK, HeldInv, Stage, Idle
  <2>7. Terminated'
    BY <1>2, <1>4, <2>1, <2>2, SizeIsInt, Types DEF Terminated, IInv
  <2> QED
    BY <2>1, <2>2, <2>5, <2>6, <2>7, HolderStep DEF Held, Holding
<1>6. CASE WriteDone(p)
  <2>1. /\ pc[p] = "copy" /\ done[p] = todo[p] /\ msg_len' = todo[p]
        /\ \A i \in Index : message'[i] = IF i = todo[p] THEN NUL ELSE message[i]
    BY <1>6 DEF WriteDone, In, IInv, TypeOK
  <2>2. Terminated'
    BY <2>1, SizeIsInt DEF Terminated, IInv
  <2>3. Content' = SubSeq(call[p].data, 1, n)
    <3> DEFINE d == call[p].data
    <3>1. d \in Seq(Char) /\ n <= Len(d)
      BY <1>1, <1>2, Types DEF IInv, LocalInv, Local, Lesser
    <3>2. ASSUME NEW i \in 1 .. n PROVE message'[i - 1] = d[i]
      <4>1. i - 1 \in Index /\ i - 1 # n /\ i \in 1 .. done[p]
        <5>1. done[p] = n /\ todo[p] = n /\ \A j \in Nat : j <= BUFFER_SIZE - 1 => j \in Index
          BY <1>4, <2>1, Types DEF IInv
        <5> HIDE DEF n
        <5> QED
          BY <1>2, <5>1, SizeIsInt
      <4> QED
        BY <1>4, <2>1, <4>1
    <3>3. Content' = [i \in 1 .. n |-> d[i]]
      BY <1>4, <2>1, <3>2 DEF Content
    <3>4. [i \in 1 .. n |-> d[i]] = SubSeq(d, 1, n)
      <4> HIDE DEF n, d
      <4> QED
        BY <1>2, <3>1, PrefixAsFunction
    <3> QED
      BY <3>3, <3>4
  <2>4. Outcome(call[p], committed, Content', Ok(n, <<>>))
    BY <1>1, <2>3 DEF Outcome
  <2> QED
    BY <1>1, <1>4, <1>6, <2>1, <2>2, <2>4, FinishHeld DEF WriteDone
<1>7. CASE WriteFault(p)
  <2>1. /\ pc[p] = "copy" /\ done[p] < todo[p] /\ msg_len' = msg_len
        /\ \A i \in Index : message'[i] = IF i \in done[p] .. todo[p] - 1 THEN NUL
                                                                          ELSE message[i]
    BY <1>7 DEF WriteFault, In
  <2>2. Terminated'
    BY <2>1, SizeIsInt DEF Terminated, IInv
  <2>3. ASSUME NEW i \in 1 .. msg_len
        PROVE  message'[i - 1] = IF i <= done[p] THEN call[p].data[i]
                                 ELSE IF i <= n THEN NUL ELSE committed[i]
    <3>1. /\ i - 1 \in Index /\ i \in Nat /\ done[p] \in Nat /\ done[p] <= n
          /\ todo[p] = n /\ n \in Nat /\ msg_len \in Nat
      BY <1>2, <1>4, <2>1, Types DEF IInv
    <3>2. message'[i - 1] = IF i - 1 \in done[p] .. n - 1 THEN NUL ELSE message[i - 1]
      BY <2>1, <3>1
    <3>3. /\ i - 1 \in done[p] .. n - 1 <=> ~ (i <= done[p]) /\ i <= n
          /\ i <= done[p] => i \in 1 .. done[p]
          /\ ~ (i <= done[p]) => i \in done[p] + 1 .. msg_len
      <4> HIDE DEF n
      <4> QED
        BY <3>1
    <3> HIDE DEF n
    <3> QED
      BY <1>4, <2>1, <3>2, <3>3
  <2>4. Content' = [i \in 1 .. Len(committed) |->
                      IF i <= done[p] THEN call[p].data[i]
                      ELSE IF i <= n THEN NUL ELSE committed[i]]
    BY <1>4, <2>1, <2>3 DEF Content
  <2>5. done[p] \in 0 .. n - 1
    BY <1>2, <1>4, <2>1, Types DEF IInv
  <2>6. Outcome(call[p], committed, Content', Fail("EFAULT"))
    BY <1>1, <2>4, <2>5 DEF Outcome
  <2> QED
    BY <1>1, <1>7, <2>1, <2>2, <2>6, FinishHeld DEF WriteFault
<1> QED
  BY <1>3, <1>5, <1>6, <1>7

LEMMA IoctlHeld ==
  ASSUME IInv, NEW p \in Proc, IoctlClear(p) \/ IoctlGetLen(p) \/ IoctlUnknown(p)
  PROVE  LockInv' /\ Terminated' /\ HeldInv'
<1>1. pc[p] = "body" /\ committed = Content
  BY DEF IoctlClear, IoctlGetLen, IoctlUnknown, In, IInv, HeldInv, Held
<1>2. Len(committed) = msg_len
  BY <1>1, Message
<1>3. CASE IoctlClear(p)
  <2>1. Terminated'
    BY <1>3, SizeIsInt DEF IoctlClear, Terminated
  <2>2. Content' = <<>>
    BY <1>3 DEF IoctlClear, Content
  <2>3. Outcome(call[p], committed, Content', Ok(0, <<>>))
    BY <1>3, <2>2 DEF IoctlClear, In, Outcome
  <2> QED
    BY <1>1, <1>3, <2>1, <2>3, FinishHeld DEF IoctlClear
<1>4. CASE IoctlGetLen(p) \/ IoctlUnknown(p)
  <2>1. Terminated' /\ Content' = committed
    BY <1>1, <1>4 DEF IoctlGetLen, IoctlUnknown, IInv, Terminated, Content, data
  <2>2. PICK r : Finish(p, r) /\ Outcome(call[p], committed, Content', r)
    BY <1>2, <1>4, <2>1 DEF IoctlGetLen, IoctlUnknown, In, Outcome
  <2> QED
    BY <1>1, <2>1, <2>2, FinishHeld
<1> QED
  BY <1>3, <1>4

LEMMA NextIInv == IInv /\ [Next]_vars => IInv'
<1> SUFFICES ASSUME IInv, [Next]_vars PROVE LockInv' /\ Terminated' /\ HeldInv'
  BY NextInv1 DEF Inv1, IInv
<1>1. ASSUME NEW f \in File, dev_open(f) \/ dev_release(f)
      PROVE  LockInv' /\ Terminated' /\ HeldInv'
  <2>1. UNCHANGED <<message, msg_len, lock, pc, locals, committed>>
    BY <1>1 DEF dev_open, dev_release
  <2>2. \A q \in Proc : Held(q)'
    BY <2>1, SameHeld DEF IInv, HeldInv, locals
  <2> QED
    BY <2>1, <2>2
    DEF IInv, LockInv, Terminated, HeldInv, Stage, Idle, Content, locals
<1>2. ASSUME NEW p \in Proc, NEW f \in File, Enter(p, f)
      PROVE  LockInv' /\ Terminated' /\ HeldInv'
  <2>1. PICK c \in Requests(f_pos[f]) :
          /\ call' = [call EXCEPT ![p] = c]
          /\ Goto(p, IF c.op \in Ioctl THEN "check" ELSE "lock")
    BY <1>2 DEF Enter
  <2>2. c.op \in {"read", "write"} \cup Ioctl
    BY DEF Requests
  <2>3. pc[p] = "idle" /\ Others(p) /\ UNCHANGED <<message, msg_len, lock, committed>>
    BY <1>2 DEF Enter, Idle, Goto, IInv, TypeOK, Others, data
  <2>4. pc'[p] = (IF c.op \in Ioctl THEN "check" ELSE "lock") /\ call'[p] = c
    BY <2>1 DEF Goto, IInv, TypeOK
  <2>5. Stage(p)' /\ pc[p] \notin Holding /\ pc'[p] \notin Holding
    BY <2>2, <2>3, <2>4 DEF Stage, Idle, Holding, Ioctl
  <2> QED
    BY <2>3, <2>5, OutsideStep
<1>3. ASSUME NEW p \in Proc, CheckCmd(p) \/ Interrupted(p)
      PROVE  LockInv' /\ Terminated' /\ HeldInv'
  <2>1. Others(p) /\ UNCHANGED <<message, msg_len, lock, committed>>
    BY <1>3 DEF CheckCmd, Interrupted, Goto, IInv, TypeOK, Others, data
  <2>2. pc[p] \in {"check", "lock"} /\ pc'[p] \in {"lock", "return"} /\ call' = call
    BY <1>3 DEF CheckCmd, Interrupted, Goto, IInv, TypeOK
  <2>3. pc'[p] = "return" => ret'[p].code # "pending"
    BY <1>3 DEF CheckCmd, Interrupted, Goto, IInv, TypeOK, Fail
  <2>4. pc'[p] = "lock" => call[p].op # "badnr"
    BY <1>3 DEF CheckCmd, Interrupted, Goto, IInv, TypeOK
  <2>5. Stage(p)' /\ pc[p] \notin Holding /\ pc'[p] \notin Holding
    BY <2>2, <2>3, <2>4 DEF IInv, HeldInv, Stage, Idle, Holding
  <2> QED
    BY <2>1, <2>5, OutsideStep
<1>4. ASSUME NEW p \in Proc, Lock(p) PROVE LockInv' /\ Terminated' /\ HeldInv'
  <2>1. /\ pc[p] = "lock" /\ pc'[p] = "body" /\ lock = NoProc /\ lock' = p /\ Others(p)
        /\ UNCHANGED <<message, msg_len, committed, call, ret>>
    BY <1>4 DEF Lock, Goto, IInv, TypeOK, Others, data, locals
  <2>2. LockInv'
    BY <2>1, NameAssumption DEF IInv, LockInv, Others, Holding
  <2>3. committed = Content /\ Content' = Content
    BY <2>1 DEF IInv, HeldInv, Content
  <2>4. \A q \in Proc \ {p} : Held(q)' /\ Stage(q)'
    BY <2>1, SameHeld DEF IInv, HeldInv, Others, Stage, Idle
  <2>5. Held(p)' /\ Stage(p)'
    BY <2>1, <2>3 DEF Held, Stage, Idle, Holding, IInv, HeldInv
  <2> QED
    BY <2>1, <2>2, <2>4, <2>5, NameAssumption DEF IInv, HeldInv, Terminated
<1>5. ASSUME NEW p \in Proc, Body(p) PROVE LockInv' /\ Terminated' /\ HeldInv'
  BY <1>5, ReadHeld, WriteHeld, IoctlHeld DEF Body
<1>6. ASSUME NEW p \in Proc, Unlock(p) PROVE LockInv' /\ Terminated' /\ HeldInv'
  <2>1. /\ pc[p] = "unlock" /\ pc'[p] = "return" /\ lock' = NoProc /\ Others(p)
        /\ UNCHANGED <<message, msg_len, call, ret>> /\ committed' = Content
    BY <1>6 DEF Unlock, Goto, IInv, TypeOK, Others, data, locals
  <2>2. lock = p /\ \A q \in Proc \ {p} : pc'[q] \notin Holding
    BY <2>1 DEF IInv, LockInv, Others, Holding
  <2>3. LockInv' /\ Terminated'
    BY <2>1, <2>2, NameAssumption DEF IInv, LockInv, Holding, Terminated
  <2>4. \A q \in Proc \ {p} : Held(q)' /\ Stage(q)'
    BY <2>1, <2>2 DEF IInv, HeldInv, Held, Holding, Others, Stage, Idle
  <2>5. ret[p].code # "pending"
    <3>1. Outcome(call[p], committed, Content, ret[p])
      BY <2>1 DEF IInv, HeldInv, Held
    <3>2. \/ \E n, bytes : ret[p] = Ok(n, bytes)
          \/ ret[p] \in {Fail("EFAULT"), Fail("ENOTTY")}
      BY <3>1, Zenon DEF Outcome
    <3>3. /\ \A n, bytes : Ok(n, bytes).code = "ok"
          /\ \A code \in {"EFAULT", "ENOTTY"} : Fail(code).code = code
      BY DEF Ok, Fail
    <3> QED
      BY <3>2, <3>3
  <2>6. Held(p)' /\ Stage(p)'
    BY <2>1, <2>5 DEF Held, Stage, Idle, Holding, IInv, HeldInv
  <2>7. committed' = Content'
    BY <2>1 DEF Content
  <2> QED
    BY <2>3, <2>4, <2>6, <2>7 DEF HeldInv
<1>7. ASSUME NEW p \in Proc, Return(p) PROVE LockInv' /\ Terminated' /\ HeldInv'
  <2>1. Others(p) /\ UNCHANGED <<message, msg_len, lock, committed>>
    BY <1>7 DEF Return, Goto, IInv, TypeOK, Others, data
  <2>2. pc[p] = "return" /\ pc'[p] = "idle" /\ call'[p] = NoCall
    BY <1>7 DEF Return, Goto, IInv, TypeOK
  <2>3. Stage(p)' /\ pc[p] \notin Holding /\ pc'[p] \notin Holding
    BY <2>2 DEF Stage, Idle, Holding, NoCall
  <2> QED
    BY <2>1, <2>3, OutsideStep
<1>8. CASE UNCHANGED vars
  <2>1. \A q \in Proc : Held(q)'
    BY <1>8, SameHeld DEF IInv, HeldInv, vars
  <2> QED
    BY <1>8, <2>1 DEF vars, IInv, LockInv, Terminated, HeldInv, Stage, Idle, Content
<1> QED
  BY <1>1, <1>2, <1>3, <1>4, <1>5, <1>6, <1>7, <1>8 DEF Next

LEMMA Invariance == Spec => []IInv
  BY InitIInv, NextIInv, PTL DEF Spec

(* The buffer ends in a NUL whatever is written to the driver, and however *)
(* often a copy from the user fails half way.                              *)
THEOREM AlwaysTerminated == Spec => []Terminated
<1>1. IInv => Terminated
  BY DEF IInv
<1> QED
  BY <1>1, Invariance, PTL

(* The bounds check of dev_read holds for as long as its copy runs: no     *)
(* concurrent write or clear shortens the message under a reader.          *)
THEOREM ReadsStayWithinMessage == Spec => []ReadWithinMessage
<1>1. IInv => ReadWithinMessage
  BY ReadFits DEF ReadWithinMessage
<1> QED
  BY <1>1, Invariance, PTL

(* No read returns half of one message and half of another.                *)
THEOREM ReadsAreNotTorn == Spec => []ReadNotTorn
<1>1. ASSUME IInv, NEW p \in Proc, In(p, "copy", "read")
      PROVE  /\ call[p].pos + done[p] <= Len(committed)
             /\ \A i \in 1 .. done[p] : out[p][i] = committed[call[p].pos + i]
  <2> DEFINE m == call[p].pos
             n == done[p]
  <2>1. out[p] = SubSeq(committed, m + 1, m + n)
    BY <1>1 DEF IInv, HeldInv, Held, Copying, In
  <2>2. done[p] <= todo[p] /\ m + todo[p] <= Len(committed) /\ committed \in Seq(Byte)
    BY <1>1, ReadFits DEF IInv, LocalInv, Local, In
  <2>3. m \in Nat /\ n \in Nat /\ m + n <= Len(committed)
    BY <1>1, <2>2, Types DEF IInv
  <2>4. \A i \in 1 .. n : SubSeq(committed, m + 1, m + n)[i] = committed[m + i]
    <3> HIDE DEF m, n
    <3> QED
      BY <2>2, <2>3, SubSeqLen
  <2> QED
    BY <2>1, <2>3, <2>4
<1>2. IInv => ReadNotTorn
  BY <1>1 DEF ReadNotTorn
<1> QED
  BY <1>2, Invariance, PTL
-----------------------------------------------------------------------------
(* No call is stuck: what CallReturns needs of the states.                 *)

(* Wherever a call is there is something it does next, and a call that     *)
(* waits for the mutex waits for another that is on its way to unlock it.  *)
(* The bytes a copy has yet to move are in the user's buffer and in        *)
(* message[].                                                              *)
GoesOn(p) ==
  /\ pc[p] = "lock" => \/ lock = NoProc
                       \/ \E q \in Proc \ {p} : lock = q /\ pc[q] \in Holding
  /\ pc[p] = "body" => call[p].op \in {"read", "write", "clear", "getlen", "unknown"}
  /\ pc[p] = "copy" =>
       /\ call[p].op \in {"read", "write"}
       /\ done[p] <= todo[p]
       /\ call[p].op = "write" /\ done[p] < todo[p] =>
            done[p] \in Index /\ done[p] + 1 \in 1 .. Len(call[p].data)
       /\ call[p].op = "read" /\ done[p] < todo[p] => call[p].pos + done[p] \in Index
  /\ pc[p] = "return" => ret[p].code # "pending"

NoCallIsStuck ==
  /\ \A p \in Proc : GoesOn(p)
  /\ lock # NoProc => pc[lock] \in Holding

THEOREM CallsAreNotStuck == Spec => []NoCallIsStuck
<1>1. ASSUME IInv, NEW p \in Proc PROVE GoesOn(p)
  <2>1. Local(p) /\ Held(p) /\ Stage(p) /\ call[p] \in Call /\ lock \in Proc \cup {NoProc}
    BY <1>1 DEF IInv, LocalInv, HeldInv, TypeOK
  <2>2. pc[p] = "lock" => lock = NoProc \/ \E q \in Proc \ {p} : lock = q /\ pc[q] \in Holding
    BY <1>1, <2>1 DEF IInv, LockInv, Holding
  <2>3. pc[p] = "body" => call[p].op \in {"read", "write", "clear", "getlen", "unknown"}
    BY <2>1 DEF Stage, Idle, Call, Ioctl, Holding
  <2>4. ASSUME pc[p] = "copy"
        PROVE  /\ call[p].op \in {"read", "write"}
               /\ done[p] <= todo[p]
               /\ call[p].op = "write" /\ done[p] < todo[p] =>
                    done[p] \in Index /\ done[p] + 1 \in 1 .. Len(call[p].data)
               /\ call[p].op = "read" /\ done[p] < todo[p] => call[p].pos + done[p] \in Index
    <3>1. /\ call[p].op \in {"read", "write"} /\ done[p] <= todo[p] /\ todo[p] <= call[p].len
          /\ call[p].op = "write" => call[p].len = Len(call[p].data)
          /\ call[p].op = "read" => call[p].pos + todo[p] <= BUFFER_SIZE - 1
      BY <2>1, <2>4 DEF Held, Copying, Local, In
    <3>2. /\ call[p].pos \in Nat /\ call[p].len \in Nat /\ todo[p] \in Nat /\ done[p] \in Nat
          /\ todo[p] <= BUFFER_SIZE - 1 /\ BUFFER_SIZE \in Nat
          /\ \A k \in Nat : k <= BUFFER_SIZE - 1 => k \in Index
      BY <1>1, Types DEF IInv
    <3> QED
      BY <3>1, <3>2
  <2>5. pc[p] = "return" => ret[p].code # "pending"
    BY <2>1 DEF Stage
  <2> QED
    BY <2>2, <2>3, <2>4, <2>5 DEF GoesOn
<1>2. IInv => NoCallIsStuck
  BY <1>1 DEF IInv, TypeOK, LockInv, NoCallIsStuck
<1> QED
  BY <1>2, Invariance, PTL

(* Every step that a process makes in a call brings it nearer to the       *)
(* return: a call has at most BUFFER_SIZE + 5 steps, no step of another    *)
(* process takes one of them back, and none repeats itself.                *)
Rank(p) ==
  IF pc[p] = "copy" THEN 3 + todo[p] - done[p]
  ELSE IF pc[p] \in {"check", "lock", "body"}
  THEN BUFFER_SIZE + (IF pc[p] = "check" THEN 5 ELSE IF pc[p] = "lock" THEN 4 ELSE 3)
  ELSE IF pc[p] = "unlock" THEN 2 ELSE IF pc[p] = "return" THEN 1 ELSE 0

Same(p) == UNCHANGED <<pc[p], call[p], file[p], todo[p], done[p], out[p], ret[p]>>

Nearer(p) == ~ Idle(p) => Rank(p)' < Rank(p) \/ Same(p)

RankInBounds == \A p \in Proc : Rank(p) \in 0 .. BUFFER_SIZE + 5

LEMMA RankBounds == IInv => RankInBounds
<1> SUFFICES ASSUME IInv, NEW p \in Proc PROVE Rank(p) \in 0 .. BUFFER_SIZE + 5
  BY DEF RankInBounds
<1>1. pc[p] = "copy" => done[p] <= todo[p]
  BY DEF IInv, LocalInv, Local
<1> QED
  BY <1>1, Types DEF Rank, IInv

THEOREM CallsComeToAnEnd == Spec => []RankInBounds /\ [][\A p \in Proc : Nearer(p)]_vars
<1>1. ASSUME IInv, TypeOK', RankInBounds, RankInBounds', Next, NEW q \in Proc, ~ Idle(q)
      PROVE  Rank(q)' < Rank(q) \/ Same(q)
  <2>0. TypeOK /\ LocalInv
    BY <1>1 DEF IInv
  <2>1. Rank(q) \in Int /\ Rank(q)' \in Int
    BY <1>1, SizeIsInt DEF RankInBounds
  <2>2. ASSUME NEW f \in File, dev_open(f) \/ dev_release(f) PROVE Same(q)
    BY <2>2 DEF Same, dev_open, dev_release, locals
  <2>3. ASSUME NEW p \in Proc, NEW f \in File, Enter(p, f) PROVE Same(q)
    BY <1>1, <2>0, <2>3 DEF Same, Enter, Goto, Idle, TypeOK
  <2>4. ASSUME NEW p \in Proc, p # q,
               CheckCmd(p) \/ Lock(p) \/ Interrupted(p) \/ Body(p) \/ Unlock(p) \/ Return(p)
        PROVE  Same(q)
    BY <2>0, <2>4 DEF Same, CheckCmd, Lock, Interrupted, Body, Unlock, Return, ReadEof, ReadStart, ReadByte,
       ReadDone, ReadFault, WriteStart, WriteByte, WriteDone, WriteFault, IoctlClear, IoctlGetLen,
       IoctlUnknown, Finish, StartCopy, Goto, locals, TypeOK
  <2>5. CASE CheckCmd(q) \/ Lock(q) \/ Interrupted(q) \/ Unlock(q) \/ Return(q)
    BY <2>0, <2>1, <2>5, SizeIsInt DEF CheckCmd, Lock, Interrupted, Unlock, Return, Goto, Rank, TypeOK
  <2>6. ASSUME NEW r, pc[q] \in {"body", "copy"}, Finish(q, r) PROVE Rank(q)' < Rank(q)
    BY <2>0, <2>6, Types DEF Finish, Goto, Rank, TypeOK, LocalInv, Local
  <2>7. ASSUME NEW k, pc[q] = "body", StartCopy(q, k) PROVE Rank(q)' < Rank(q)
    <3>1. pc'[q] = "copy" /\ todo'[q] = k /\ done'[q] = 0
      BY <2>0, <2>7 DEF StartCopy, Goto, TypeOK, LocalInv, Local
    <3>2. todo'[q] \in Index
      BY <1>1 DEF TypeOK
    <3> QED
      BY <2>7, <3>1, <3>2, SizeIsInt DEF Rank, Index
  <2>8. CASE ReadByte(q) \/ WriteByte(q)
    <3>1. pc[q] = "copy" /\ pc'[q] = "copy" /\ todo'[q] = todo[q] /\ done'[q] = done[q] + 1
      BY <2>0, <2>8 DEF ReadByte, WriteByte, In, TypeOK
    <3> QED
      BY <2>0, <2>1, <3>1, Types DEF Rank
  <2>9. CASE ReadEof(q) \/ ReadDone(q) \/ ReadFault(q) \/ WriteDone(q) \/ WriteFault(q)
             \/ IoctlClear(q) \/ IoctlGetLen(q) \/ IoctlUnknown(q)
    <3>1. pc[q] \in {"body", "copy"} /\ \E r : Finish(q, r)
      BY <2>9 DEF ReadEof, ReadDone, ReadFault, WriteDone, WriteFault, IoctlClear, IoctlGetLen,
         IoctlUnknown, In
    <3> QED
      BY <2>1, <2>6, <3>1
  <2>10. CASE ReadStart(q) \/ WriteStart(q)
    <3>1. pc[q] = "body" /\ \E k : StartCopy(q, k)
      BY <2>10 DEF ReadStart, WriteStart, In
    <3> QED
      BY <2>1, <2>7, <3>1
  <2> QED
    BY <1>1, <2>1, <2>2, <2>3, <2>4, <2>5, <2>8, <2>9, <2>10 DEF Next, Body
<1>2. IInv /\ TypeOK' /\ RankInBounds /\ RankInBounds' /\ [Next]_vars
        => [\A p \in Proc : Nearer(p)]_vars
  BY <1>1 DEF Nearer
<1>3. Spec => [](IInv /\ TypeOK /\ RankInBounds)
  BY Invariance, TypeCorrect, RankBounds, PTL
<1> QED
  BY <1>2, <1>3, PTL DEF Spec

-----------------------------------------------------------------------------
(* The driver implements the box.                                          *)

LEMMA InitBox == Init => Box!BoxInit
  BY DEF Init, Box!BoxInit, Idle, NoCall, Pending, Box!NoCall, Box!Pending

(* The refinement mapping.                                                 *)
MapReq == [p \in Proc |-> IF Idle(p) THEN NoCall ELSE call[p]]
MapRes == [p \in Proc |-> IF pc[p] = "return" THEN ret[p] ELSE Pending]

(* A step that leaves every process on its side of the mapping stutters.   *)
LEMMA Stutters ==
  ASSUME IInv, NEW p \in Proc, Others(p), UNCHANGED <<committed, call>>,
         pc[p] \notin {"idle", "return"}, pc'[p] \notin {"idle", "return"}
  PROVE  UNCHANGED Box!absVars
  BY DEF Box!absVars, Others, Idle

LEMMA CallMaps ==
  ASSUME IInv, NEW p \in Proc, NEW f \in File, Enter(p, f)
  PROVE  Box!Call(p)
<1>1. PICK c \in Requests(f_pos[f]) :
        /\ call' = [call EXCEPT ![p] = c]
        /\ Goto(p, IF c.op \in Ioctl THEN "check" ELSE "lock")
  BY DEF Enter
<1>2. c \in UNION {Requests(pos) : pos \in Index}
  BY DEF IInv, TypeOK
<1>3. pc[p] = "idle" /\ Others(p) /\ UNCHANGED committed
  BY DEF Enter, Idle, Goto, IInv, TypeOK, Others
<1>4. pc'[p] \in {"check", "lock"} /\ call'[p] = c
  BY <1>1 DEF Goto, IInv, TypeOK
<1>5. MapReq[p] = NoCall /\ MapReq' = [MapReq EXCEPT ![p] = c] /\ MapRes' = MapRes
  BY <1>3, <1>4 DEF MapReq, MapRes, Idle, Others
<1> QED
  BY <1>2, <1>3, <1>5 DEF Box!Call, MapReq, MapRes, NoCall, Box!NoCall

LEMMA ReturnMaps ==
  ASSUME IInv, NEW p \in Proc, Return(p)
  PROVE  Box!Return(p)
<1>1. /\ pc[p] = "return" /\ pc'[p] = "idle" /\ Others(p) /\ UNCHANGED committed
  BY DEF Return, Goto, IInv, TypeOK, Others
<1>2. ret[p] # Pending
  BY <1>1 DEF IInv, HeldInv, Stage, Pending
<1>3. /\ MapRes[p] # Pending
      /\ MapReq' = [MapReq EXCEPT ![p] = NoCall]
      /\ MapRes' = [MapRes EXCEPT ![p] = Pending]
  BY <1>1, <1>2 DEF MapReq, MapRes, Idle, Others
<1> QED
  BY <1>1, <1>3
  DEF Box!Return, MapReq, MapRes, NoCall, Pending, Box!NoCall, Box!Pending

(* The step in which the result of a call is decided for its caller.       *)
LEMMA TakesMaps ==
  ASSUME IInv, NEW p \in Proc, Others(p), UNCHANGED call, NEW r, ret'[p] = r,
         pc[p] \notin {"idle", "return"}, pc'[p] = "return"
  PROVE  /\ MapReq[p] = call[p] /\ MapReq[p] # NoCall /\ MapReq' = MapReq
         /\ MapRes[p] = Pending /\ MapRes' = [MapRes EXCEPT ![p] = r]
<1>1. call[p].op # "none"
  BY DEF IInv, HeldInv, Stage, Idle
<1>2. MapReq[p] = call[p] /\ call[p] # NoCall /\ MapRes[p] = Pending /\ MapReq' = MapReq
  BY <1>1 DEF MapReq, MapRes, Idle, Others, NoCall
<1>3. MapRes' = [MapRes EXCEPT ![p] = r]
  BY DEF MapRes, Others
<1> QED
  BY <1>2, <1>3

LEMMA RefusedMaps ==
  ASSUME IInv, NEW p \in Proc, CheckCmd(p) \/ Interrupted(p), pc'[p] = "return"
  PROVE  Box!NoEffect(p)
<1>1. Others(p) /\ UNCHANGED <<call, committed>> /\ pc[p] \in {"check", "lock"}
  BY DEF CheckCmd, Interrupted, Goto, IInv, TypeOK, Others
<1>2. PICK code \in {"ENOTTY", "ERESTARTSYS"} :
        ret'[p] = Fail(code) /\ (code = "ENOTTY" => call[p].op = "badnr")
  BY DEF CheckCmd, Interrupted, Goto, IInv, TypeOK
<1>3. /\ MapReq[p] = call[p] /\ MapReq[p] # NoCall /\ MapReq' = MapReq
      /\ MapRes[p] = Pending /\ MapRes' = [MapRes EXCEPT ![p] = Fail(code)]
  BY <1>1, <1>2, TakesMaps
<1> QED
  BY <1>1, <1>2, <1>3
  DEF Box!NoEffect, Box!Takes, MapReq, MapRes, Fail, Box!Fail, NoCall, Box!NoCall,
      Pending, Box!Pending

LEMMA UnlockMaps ==
  ASSUME IInv, NEW p \in Proc, Unlock(p)
  PROVE  \/ Box!Read(p) \/ Box!Write(p) \/ Box!WriteFault(p)
         \/ Box!Clear(p) \/ Box!GetLen(p) \/ Box!NoEffect(p)
<1>1. /\ pc[p] = "unlock" /\ pc'[p] = "return" /\ Others(p)
      /\ UNCHANGED <<call, ret>> /\ committed' = Content
  BY DEF Unlock, Goto, IInv, TypeOK, Others, locals
<1>2. /\ MapReq[p] = call[p] /\ MapReq[p] # NoCall /\ MapReq' = MapReq
      /\ MapRes[p] = Pending /\ MapRes' = [MapRes EXCEPT ![p] = ret[p]]
  BY <1>1, TakesMaps
<1>3. Outcome(call[p], committed, committed', ret[p])
  BY <1>1 DEF IInv, HeldInv, Held
<1>4. ASSUME NEW r, ret[p] = r PROVE Box!Takes(p, r)
  BY <1>2, <1>4
  DEF Box!Takes, MapReq, MapRes, NoCall, Box!NoCall, Pending, Box!Pending
<1>5. MapReq[p] = call[p]
  BY <1>2
<1> DEFINE c == call[p]
           len == Length(c, committed)
<1>6. CASE /\ c.op = "read" /\ committed' = committed
           /\ LET found == SubSeq(committed, c.pos + 1, c.pos + len)
              IN  ret[p] = Ok(Len(found), found)
  <2>1. /\ MapReq[p].op = "read" /\ committed' = committed
        /\ LET found == Box!Slice(committed, MapReq[p].pos, MapReq[p].len)
           IN  ret[p] = Box!Ok(Len(found), found)
    BY <1>5, <1>6 DEF Length, Lesser, Ok, Box!Ok, Box!Lesser, Box!Slice
  <2> QED
    BY <1>2, <2>1
    DEF Box!Read, Box!Takes, MapReq, MapRes, NoCall, Box!NoCall, Pending, Box!Pending
<1>7. CASE /\ c.op = "write" /\ committed' = SubSeq(c.data, 1, len)
           /\ ret[p] = Ok(len, <<>>)
  <2>1. /\ MapReq[p].op = "write"
        /\ LET n == Box!Lesser(MapReq[p].len, BUFFER_SIZE - 1)
           IN  /\ committed' = SubSeq(MapReq[p].data, 1, n)
               /\ ret[p] = Box!Ok(n, <<>>)
    BY <1>5, <1>7 DEF Length, Lesser, Ok, Box!Ok, Box!Lesser
  <2> QED
    BY <1>2, <2>1
    DEF Box!Write, Box!Takes, MapReq, MapRes, NoCall, Box!NoCall, Pending, Box!Pending
<1>8. CASE /\ c.op = "write"
           /\ \E k \in 0 .. len - 1 :
                committed' = [i \in 1 .. Len(committed) |->
                                IF i <= k THEN c.data[i]
                                ELSE IF i <= len THEN NUL ELSE committed[i]]
           /\ ret[p] = Fail("EFAULT")
  BY <1>4, <1>5, <1>8
  DEF Box!WriteFault, MapReq, Length, Lesser, Fail, Box!Fail, Box!Lesser
<1>9. CASE c.op = "clear" /\ committed' = <<>> /\ ret[p] = Ok(0, <<>>)
  BY <1>4, <1>5, <1>9 DEF Box!Clear, MapReq, Ok, Box!Ok
<1>10. CASE c.op = "getlen" /\ committed' = committed /\ ret[p] = Ok(0, <<Len(committed)>>)
  <2>1. /\ MapReq[p].op = "getlen" /\ committed' = committed
        /\ ret[p] = Box!Ok(0, <<Len(committed)>>)
    BY <1>5, <1>10 DEF Ok, Box!Ok
  <2> QED
    BY <1>2, <2>1
    DEF Box!GetLen, Box!Takes, MapReq, MapRes, NoCall, Box!NoCall, Pending, Box!Pending
<1>11. CASE c.op \in {"read", "getlen"} /\ committed' = committed /\ ret[p] = Fail("EFAULT")
  BY <1>4, <1>5, <1>11 DEF Box!NoEffect, MapReq, Fail, Box!Fail
<1>12. CASE c.op = "unknown" /\ committed' = committed /\ ret[p] = Fail("ENOTTY")
  BY <1>4, <1>5, <1>12 DEF Box!NoEffect, MapReq, Fail, Box!Fail
<1> QED
  BY <1>3, <1>6, <1>7, <1>8, <1>9, <1>10, <1>11, <1>12 DEF Outcome

LEMMA NextBox == IInv /\ [Next]_vars => [Box!BoxNext]_Box!absVars
<1> SUFFICES ASSUME IInv, [Next]_vars PROVE [Box!BoxNext]_Box!absVars
  OBVIOUS
<1>1. ASSUME NEW f \in File, dev_open(f) \/ dev_release(f)
      PROVE  UNCHANGED Box!absVars
  BY <1>1 DEF dev_open, dev_release, locals, Box!absVars, Idle
<1>2. ASSUME NEW p \in Proc, NEW f \in File, Enter(p, f) PROVE Box!BoxNext
  BY <1>2, CallMaps DEF Box!BoxNext
<1>3. ASSUME NEW p \in Proc, CheckCmd(p) \/ Interrupted(p)
      PROVE  [Box!BoxNext]_Box!absVars
  <2>1. CASE pc'[p] = "return"
    BY <1>3, <2>1, RefusedMaps DEF Box!BoxNext
  <2>2. CASE pc'[p] # "return"
    <3>1. /\ Others(p) /\ UNCHANGED <<call, committed>>
          /\ pc[p] \in {"check", "lock"} /\ pc'[p] \in {"lock", "return"}
      BY <1>3 DEF CheckCmd, Interrupted, Goto, IInv, TypeOK, Others
    <3> QED
      BY <2>2, <3>1, Stutters
  <2> QED
    BY <2>1, <2>2
<1>4. ASSUME NEW p \in Proc, Lock(p) \/ Body(p) PROVE UNCHANGED Box!absVars
  <2>1. /\ Others(p) /\ UNCHANGED <<call, committed>>
        /\ pc[p] \in {"lock", "body", "copy"} /\ pc'[p] \in {"body", "copy", "unlock"}
    <3>1. CASE Lock(p) \/ ReadByte(p) \/ WriteByte(p)
      BY <3>1 DEF Lock, ReadByte, WriteByte, In, Goto, IInv, TypeOK, Others, locals
    <3>2. ASSUME NEW r, Finish(p, r), pc[p] \in {"body", "copy"}
          PROVE  /\ Others(p) /\ UNCHANGED <<call, committed>>
                 /\ pc[p] \in {"body", "copy"} /\ pc'[p] = "unlock"
      BY <3>2 DEF Finish, Goto, IInv, TypeOK, Others
    <3>3. ASSUME NEW n, StartCopy(p, n), pc[p] = "body"
          PROVE  /\ Others(p) /\ UNCHANGED <<call, committed>>
                 /\ pc[p] = "body" /\ pc'[p] = "copy"
      BY <3>3 DEF StartCopy, Goto, IInv, TypeOK, Others
    <3>4. CASE ReadStart(p) \/ WriteStart(p)
      BY <3>3, <3>4 DEF ReadStart, WriteStart, In
    <3>5. CASE \/ ReadEof(p) \/ ReadDone(p) \/ ReadFault(p) \/ WriteDone(p) \/ WriteFault(p)
               \/ IoctlClear(p) \/ IoctlGetLen(p) \/ IoctlUnknown(p)
      BY <3>2, <3>5 DEF ReadEof, ReadDone, ReadFault, WriteDone, WriteFault, IoctlClear,
                        IoctlGetLen, IoctlUnknown, In
    <3> QED
      BY <1>4, <3>1, <3>4, <3>5 DEF Body
  <2> QED
    BY <2>1, Stutters
<1>5. ASSUME NEW p \in Proc, Unlock(p) PROVE Box!BoxNext
  BY <1>5, UnlockMaps DEF Box!BoxNext
<1>6. ASSUME NEW p \in Proc, Return(p) PROVE Box!BoxNext
  BY <1>6, ReturnMaps DEF Box!BoxNext
<1>7. CASE UNCHANGED vars
  BY <1>7 DEF vars, Box!absVars, Idle
<1> QED
  BY <1>1, <1>2, <1>3, <1>4, <1>5, <1>6, <1>7 DEF Next

(* Every read, write and ioctl of the driver, with all its error returns,  *)
(* takes effect at one instant: the driver implements MessageBox.          *)
THEOREM DriverImplementsBox == Spec => ImplementsBox
  BY InitBox, NextBox, Invariance, PTL DEF Spec, ImplementsBox, Box!BoxSpec
=============================================================================
