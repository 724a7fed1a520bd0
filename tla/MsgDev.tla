------------------------------- MODULE MsgDev -------------------------------
(***************************************************************************)
(* The file operations of the msgdev driver                                *)
(* (04_Example/017_msgdev/msgdev.c): processes open the device, and read,  *)
(* write and ioctl it concurrently under one interruptible mutex.          *)
(*                                                                         *)
(* A system call is split where another process can run: before the mutex  *)
(* is taken, at every byte copied to or from user space (a copy may sleep  *)
(* on a page fault, or fail), at the unlock and at the return.  The VFS    *)
(* hands a driver a copy of the file position that it took before the call *)
(* and stores it back after it, with no lock for a character device.       *)
(***************************************************************************)
EXTENDS Integers, Sequences, FiniteSets

CONSTANTS Proc,        \* processes
          File,        \* struct files that may be open on the device
          Char,        \* bytes a user may write, other than NUL
          NUL,         \* the byte 0
          NoProc,      \* owner of a free mutex
          NoFile,      \* the file of a process that is in no call
          BUFFER_SIZE, \* size of message[]
          Payload,     \* user buffers that are written
          ReadLen      \* lengths asked for by reads

ASSUME BufferAssumption == BUFFER_SIZE \in Nat \ {0}
ASSUME ByteAssumption   == NUL \notin Char
ASSUME InputAssumption  == Payload \subseteq Seq(Char) /\ ReadLen \subseteq Nat
ASSUME NameAssumption   == NoProc \notin Proc /\ NoFile \notin File

VARIABLES message,  \* message[BUFFER_SIZE]
          msg_len,
          lock,     \* the owner of the mutex, or NoProc
          opened,   \* the files that are open
          f_pos,    \* the position the VFS keeps in each file
          pc,       \* where each process is in its system call
          call,     \* the arguments of that call
          file,     \* the file it was made on
          todo,     \* the number of bytes it will copy, once decided
          done,     \* the number of bytes copied so far
          out,      \* the bytes a read has copied to the user so far
          ret,      \* its result
          committed \* history: the message when the mutex was last released

data == <<message, msg_len>>
files == <<opened, f_pos>>
locals == <<call, file, todo, done, out, ret>>
vars == <<message, msg_len, lock, opened, f_pos, pc, call, file, todo, done,
          out, ret, committed>>

Byte == Char \cup {NUL}
Index == 0 .. BUFFER_SIZE - 1    \* of a byte, and of a file position
Ioctl == {"clear", "getlen", "badnr", "unknown"}

NoCall == [op |-> "none", pos |-> 0, len |-> 0, data |-> <<>>]
Pending == [code |-> "pending", n |-> 0, bytes |-> <<>>]
Ok(n, bytes) == [code |-> "ok", n |-> n, bytes |-> bytes]
Fail(code) == [code |-> code, n |-> 0, bytes |-> <<>>]
Lesser(a, b) == IF a < b THEN a ELSE b

(* The message a reader may see: the first msg_len bytes of the buffer.    *)
Content == [i \in 1 .. msg_len |-> message[i - 1]]

Idle(p) == pc[p] = "idle"
Goto(p, label) == pc' = [pc EXCEPT ![p] = label]

Init ==
  /\ message = [i \in Index |-> NUL]
  /\ msg_len = 0
  /\ lock = NoProc
  /\ opened = {}
  /\ f_pos = [f \in File |-> 0]
  /\ pc = [p \in Proc |-> "idle"]
  /\ call = [p \in Proc |-> NoCall]
  /\ file = [p \in Proc |-> NoFile]
  /\ todo = [p \in Proc |-> 0]
  /\ done = [p \in Proc |-> 0]
  /\ out = [p \in Proc |-> <<>>]
  /\ ret = [p \in Proc |-> Pending]
  /\ committed = <<>>

-----------------------------------------------------------------------------
(* open() and the last close() of a file.                                  *)

dev_open(f) ==
  /\ f \notin opened
  /\ opened' = opened \cup {f}
  /\ f_pos' = [f_pos EXCEPT ![f] = 0]
  /\ UNCHANGED <<message, msg_len, lock, pc, locals, committed>>

dev_release(f) ==
  /\ f \in opened
  /\ \A p \in Proc : file[p] # f
  /\ opened' = opened \ {f}
  /\ UNCHANGED <<message, msg_len, lock, f_pos, pc, locals, committed>>

-----------------------------------------------------------------------------
(* Entering a call: the VFS copies the position of the file.               *)

Requests(pos) ==
  [op : {"read"}, pos : {pos}, len : ReadLen, data : {<<>>}]
    \cup {[op |-> "write", pos |-> pos, len |-> Len(d), data |-> d] : d \in Payload}
    \cup [op : Ioctl, pos : {0}, len : {0}, data : {<<>>}]

Enter(p, f) ==
  /\ Idle(p)
  /\ f \in opened
  /\ \E c \in Requests(f_pos[f]) :
       /\ call' = [call EXCEPT ![p] = c]
       /\ Goto(p, IF c.op \in Ioctl THEN "check" ELSE "lock")
  /\ file' = [file EXCEPT ![p] = f]
  /\ UNCHANGED <<data, lock, files, todo, done, out, ret, committed>>

(* dev_ioctl looks at the type and the number before it takes the mutex.   *)
CheckCmd(p) ==
  /\ pc[p] = "check"
  /\ IF call[p].op = "badnr"
     THEN Goto(p, "return") /\ ret' = [ret EXCEPT ![p] = Fail("ENOTTY")]
     ELSE Goto(p, "lock") /\ UNCHANGED ret
  /\ UNCHANGED <<data, lock, files, call, file, todo, done, out, committed>>

(* Slip: the mutex is not waited for.                                      *)
Lock_NoWait(p) ==
  /\ pc[p] = "lock"
  /\ lock' = p
  /\ Goto(p, "body")
  /\ UNCHANGED <<data, files, locals, committed>>

(* mutex_lock_interruptible: taken at once when free; a signal ends a wait. *)
Lock(p) ==
  /\ pc[p] = "lock"
  /\ lock = NoProc
  /\ lock' = p
  /\ Goto(p, "body")
  /\ UNCHANGED <<data, files, locals, committed>>

Interrupted(p) ==
  /\ pc[p] = "lock"
  /\ lock # NoProc
  /\ ret' = [ret EXCEPT ![p] = Fail("ERESTARTSYS")]
  /\ Goto(p, "return")
  /\ UNCHANGED <<data, lock, files, call, file, todo, done, out, committed>>

(* The body of a handler ends: its result is r and the mutex is next.      *)
Finish(p, r) ==
  /\ ret' = [ret EXCEPT ![p] = r]
  /\ Goto(p, "unlock")
  /\ UNCHANGED <<lock, files, call, file, todo, done, out, committed>>

StartCopy(p, n) ==
  /\ todo' = [todo EXCEPT ![p] = n]
  /\ Goto(p, "copy")
  /\ UNCHANGED <<data, lock, files, call, file, done, out, ret, committed>>

In(p, label, op) == pc[p] = label /\ call[p].op = op

-----------------------------------------------------------------------------
(* dev_read                                                                *)

ReadEof(p) ==
  /\ In(p, "body", "read")
  /\ call[p].pos >= msg_len
  /\ Finish(p, Ok(0, <<>>))
  /\ UNCHANGED data

(* Slip: the length is compared with msg_len, not with what is left of it. *)
ReadStart_IgnoresOffset(p) ==
  /\ In(p, "body", "read")
  /\ call[p].pos < msg_len
  /\ StartCopy(p, Lesser(call[p].len, msg_len))

ReadStart(p) ==
  /\ In(p, "body", "read")
  /\ call[p].pos < msg_len
  /\ StartCopy(p, Lesser(call[p].len, msg_len - call[p].pos))

ReadByte(p) ==
  /\ In(p, "copy", "read")
  /\ done[p] < todo[p]
  /\ out' = [out EXCEPT ![p] = Append(@, message[call[p].pos + done[p]])]
  /\ done' = [done EXCEPT ![p] = @ + 1]
  /\ UNCHANGED <<data, lock, files, pc, call, file, todo, ret, committed>>

ReadDone(p) ==
  /\ In(p, "copy", "read")
  /\ done[p] = todo[p]
  /\ Finish(p, Ok(todo[p], out[p]))
  /\ UNCHANGED data

(* copy_to_user fails before the last byte of what a read copies.          *)
ReadFault(p) ==
  /\ In(p, "copy", "read")
  /\ done[p] < todo[p]
  /\ Finish(p, Fail("EFAULT"))
  /\ UNCHANGED data

-----------------------------------------------------------------------------
(* dev_write                                                               *)

(* Slip: no room is kept for the NUL.                                      *)
WriteStart_OffByOne(p) ==
  /\ In(p, "body", "write")
  /\ StartCopy(p, Lesser(call[p].len, BUFFER_SIZE))

WriteStart(p) ==
  /\ In(p, "body", "write")
  /\ StartCopy(p, Lesser(call[p].len, BUFFER_SIZE - 1))

WriteByte(p) ==
  /\ In(p, "copy", "write")
  /\ done[p] < todo[p]
  /\ message' = [message EXCEPT ![done[p]] = call[p].data[done[p] + 1]]
  /\ done' = [done EXCEPT ![p] = @ + 1]
  /\ UNCHANGED <<msg_len, lock, files, pc, call, file, todo, out, ret, committed>>

WriteDone(p) ==
  /\ In(p, "copy", "write")
  /\ done[p] = todo[p]
  /\ message' = [message EXCEPT ![todo[p]] = NUL]
  /\ msg_len' = todo[p]
  /\ Finish(p, Ok(todo[p], <<>>))

(* Slip: the error path returns without the unlock.                        *)
WriteFault_NoUnlock(p) ==
  /\ In(p, "copy", "write")
  /\ done[p] < todo[p]
  /\ ret' = [ret EXCEPT ![p] = Fail("EFAULT")]
  /\ Goto(p, "return")
  /\ UNCHANGED <<data, lock, files, call, file, todo, done, out, committed>>

(* Slip: the error path records how far the copy came.                     *)
WriteFault_KeepsCount(p) ==
  /\ In(p, "copy", "write")
  /\ done[p] < todo[p]
  /\ Finish(p, Fail("EFAULT"))
  /\ msg_len' = done[p]
  /\ UNCHANGED message

(* copy_from_user fails: what it could not copy it fills with zeros, and   *)
(* the handler leaves without touching msg_len.                            *)
WriteFault(p) ==
  /\ In(p, "copy", "write")
  /\ done[p] < todo[p]
  /\ message' = [i \in Index |-> IF i \in done[p] .. todo[p] - 1
                                 THEN NUL ELSE message[i]]
  /\ Finish(p, Fail("EFAULT"))
  /\ UNCHANGED msg_len

-----------------------------------------------------------------------------
(* dev_ioctl                                                               *)

IoctlClear(p) ==
  /\ In(p, "body", "clear")
  /\ message' = [i \in Index |-> NUL]
  /\ msg_len' = 0
  /\ Finish(p, Ok(0, <<>>))

IoctlGetLen(p) ==
  /\ In(p, "body", "getlen")
  /\ \E r \in {Ok(0, <<msg_len>>), Fail("EFAULT")} : Finish(p, r)
  /\ UNCHANGED data

IoctlUnknown(p) ==
  /\ In(p, "body", "unknown")
  /\ Finish(p, Fail("ENOTTY"))
  /\ UNCHANGED data

-----------------------------------------------------------------------------
(* Leaving: mutex_unlock, then the return through the VFS, which stores    *)
(* the position a successful read or write ended at.                       *)

Unlock(p) ==
  /\ pc[p] = "unlock"
  /\ lock' = NoProc
  /\ committed' = Content
  /\ Goto(p, "return")
  /\ UNCHANGED <<data, files, locals>>

EndPos(p) == call[p].pos + (IF call[p].op = "read" THEN ret[p].n ELSE 0)

Return(p) ==
  /\ pc[p] = "return"
  /\ f_pos' = IF ret[p].code = "ok" /\ call[p].op \in {"read", "write"}
              THEN [f_pos EXCEPT ![file[p]] = EndPos(p)]
              ELSE f_pos
  /\ Goto(p, "idle")
  /\ call' = [call EXCEPT ![p] = NoCall]
  /\ todo' = [todo EXCEPT ![p] = 0]
  /\ done' = [done EXCEPT ![p] = 0]
  /\ out' = [out EXCEPT ![p] = <<>>]
  /\ ret' = [ret EXCEPT ![p] = Pending]
  /\ file' = [file EXCEPT ![p] = NoFile]
  /\ UNCHANGED <<data, lock, opened, committed>>

Body(p) ==
  \/ ReadEof(p) \/ ReadStart(p) \/ ReadByte(p) \/ ReadDone(p) \/ ReadFault(p)
  \/ WriteStart(p) \/ WriteByte(p) \/ WriteDone(p) \/ WriteFault(p)
  \/ IoctlClear(p) \/ IoctlGetLen(p) \/ IoctlUnknown(p)

Next ==
  \/ \E f \in File : dev_open(f) \/ dev_release(f)
  \/ \E p \in Proc :
       \/ \E f \in File : Enter(p, f)
       \/ CheckCmd(p) \/ Lock(p) \/ Interrupted(p)
       \/ Body(p) \/ Unlock(p) \/ Return(p)

Spec == Init /\ [][Next]_vars

(* A thread in the driver keeps running, and the mutex is not starved: a   *)
(* waiter that is passed over is handed the lock.                          *)
Fairness ==
  \A p \in Proc :
    /\ SF_vars(Lock(p))
    /\ WF_vars(CheckCmd(p) \/ Body(p) \/ Unlock(p) \/ Return(p))

FairSpec == Spec /\ Fairness

-----------------------------------------------------------------------------
(* Properties                                                              *)

Label == {"idle", "check", "lock", "body", "copy", "unlock", "return"}
Holding == {"body", "copy", "unlock"}
Call == [op : {"none", "read", "write"} \cup Ioctl, pos : Index, len : Nat,
         data : Payload \cup {<<>>}]
Result == [code : {"pending", "ok", "EFAULT", "ERESTARTSYS", "ENOTTY"},
           n : Index, bytes : Seq(Byte \cup Index)]

(* Every variable has its type: in particular msg_len and every file       *)
(* position stay inside the buffer.                                        *)
TypeOK ==
  /\ message \in [Index -> Byte]
  /\ msg_len \in Index
  /\ lock \in Proc \cup {NoProc}
  /\ opened \subseteq File
  /\ f_pos \in [File -> Index]
  /\ pc \in [Proc -> Label]
  /\ call \in [Proc -> Call]
  /\ file \in [Proc -> File \cup {NoFile}]
  /\ todo \in [Proc -> Index]
  /\ done \in [Proc -> Index]
  /\ out \in [Proc -> Seq(Byte)]
  /\ ret \in [Proc -> Result]
  /\ committed \in Seq(Byte)

(* The buffer always ends in a NUL, whatever was written, how long it was  *)
(* and wherever its copy failed: dev_write caps len at BUFFER_SIZE - 1, so *)
(* no write reaches the last byte.                                         *)
Terminated == message[BUFFER_SIZE - 1] = NUL

(* The bytes a read is still to copy lie inside the message, although      *)
(* msg_len may have shrunk since the process took its file position: the   *)
(* check of dev_read stays true for as long as the copy runs.              *)
ReadWithinMessage ==
  \A p \in Proc : In(p, "copy", "read") => call[p].pos + todo[p] <= msg_len

(* No read is torn: what it has copied so far is a piece of one message    *)
(* that some earlier call left behind, never half of two.                  *)
ReadNotTorn ==
  \A p \in Proc :
    In(p, "copy", "read") =>
      /\ call[p].pos + done[p] <= Len(committed)
      /\ \A i \in 1 .. done[p] : out[p][i] = committed[call[p].pos + i]

-----------------------------------------------------------------------------
(* Why: the inductive invariant.  Its first part says, of each process by  *)
(* itself, what the earlier steps of its call have decided.                *)

Local(p) ==
  /\ call[p].op = "write" => call[p].len = Len(call[p].data)
  /\ pc[p] \in {"idle", "check", "lock", "body"} => done[p] = 0 /\ out[p] = <<>>
  /\ pc[p] = "copy" => done[p] <= todo[p] /\ todo[p] <= call[p].len
  /\ In(p, "copy", "read") => call[p].pos + todo[p] <= BUFFER_SIZE - 1
  /\ pc[p] \notin {"unlock", "return"} => ret[p] = Pending
  /\ call[p].op = "read" => call[p].pos + ret[p].n <= BUFFER_SIZE - 1

LocalInv == \A p \in Proc : Local(p)

(* The second relates the process that holds the mutex to the message: the *)
(* buffer is the last committed message but for what the holder has done.  *)

LockInv == \A p \in Proc : pc[p] \in Holding <=> lock = p

Length(c, m) == IF c.op = "read" THEN Lesser(c.len, Len(m) - c.pos)
                                 ELSE Lesser(c.len, BUFFER_SIZE - 1)

Copying(p) ==
  /\ call[p].op \in {"read", "write"}
  /\ todo[p] = Length(call[p], committed)
  /\ call[p].op = "read" =>
       /\ committed = Content
       /\ call[p].pos < msg_len
       /\ out[p] = SubSeq(committed, call[p].pos + 1, call[p].pos + done[p])
  /\ call[p].op = "write" =>
       /\ Len(committed) = msg_len
       /\ \A i \in 1 .. done[p] : message[i - 1] = call[p].data[i]
       /\ \A i \in done[p] + 1 .. msg_len : message[i - 1] = committed[i]

(* What the call c may do: turn the message m into m2 and answer r.        *)
Outcome(c, m, m2, r) ==
  \/ /\ c.op = "read"
     /\ m2 = m
     /\ LET found == SubSeq(m, c.pos + 1, c.pos + Length(c, m))
        IN  r = Ok(Len(found), found)
  \/ /\ c.op = "write"
     /\ m2 = SubSeq(c.data, 1, Length(c, m))
     /\ r = Ok(Length(c, m), <<>>)
  \/ /\ c.op = "write"
     /\ \E k \in 0 .. Length(c, m) - 1 :
          m2 = [i \in 1 .. Len(m) |-> IF i <= k THEN c.data[i]
                                      ELSE IF i <= Length(c, m) THEN NUL ELSE m[i]]
     /\ r = Fail("EFAULT")
  \/ c.op = "clear" /\ m2 = <<>> /\ r = Ok(0, <<>>)
  \/ c.op = "getlen" /\ m2 = m /\ r = Ok(0, <<Len(m)>>)
  \/ c.op \in {"read", "getlen"} /\ m2 = m /\ r = Fail("EFAULT")
  \/ c.op = "unknown" /\ m2 = m /\ r = Fail("ENOTTY")

Held(p) ==
  /\ pc[p] = "body" => committed = Content
  /\ pc[p] = "copy" => Copying(p)
  /\ pc[p] = "unlock" => Outcome(call[p], committed, Content, ret[p])

Stage(p) ==
  /\ call[p].op = "none" <=> Idle(p)
  /\ pc[p] = "return" => ret[p].code # "pending"
  /\ pc[p] \in {"lock"} \cup Holding => call[p].op # "badnr"

HeldInv ==
  /\ lock = NoProc => committed = Content
  /\ \A p \in Proc : Held(p) /\ Stage(p)

IInv == TypeOK /\ LocalInv /\ LockInv /\ Terminated /\ HeldInv

(* Every call of the driver takes effect at one instant between its entry  *)
(* and its return: the driver implements a box that holds one message.     *)
Box == INSTANCE MessageBox WITH
         MaxLen  <- BUFFER_SIZE - 1,
         Request <- UNION {Requests(pos) : pos \in Index},
         box     <- committed,
         req     <- [p \in Proc |-> IF Idle(p) THEN NoCall ELSE call[p]],
         res     <- [p \in Proc |-> IF pc[p] = "return" THEN ret[p] ELSE Pending]

ImplementsBox == Box!BoxSpec

(* Every call returns: no handler leaves with the mutex held, on any of    *)
(* its error paths, and nobody waits for it for ever.                      *)
CallReturns == \A p \in Proc : (~ Idle(p)) ~> Idle(p)
=============================================================================
