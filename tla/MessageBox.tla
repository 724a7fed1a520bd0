----------------------------- MODULE MessageBox -----------------------------
(***************************************************************************)
(* What the msgdev driver (04_Example/017_msgdev/msgdev.c) promises to the *)
(* processes that use it, without the mutex, the buffer and the copies: a  *)
(* box holds one message; a process makes a call, the call takes effect in *)
(* one indivisible step, and its result is returned some time later.       *)
(***************************************************************************)
EXTENDS Integers, Sequences

CONSTANTS Proc,     \* the processes that call the driver
          NUL,      \* the byte 0
          MaxLen,   \* the longest message the box can hold
          Request   \* the calls a process may make

VARIABLES box,      \* the message
          req,      \* req[p]: the call p has made, NoCall when there is none
          res       \* res[p]: its result, Pending until it has taken effect

absVars == <<box, req, res>>

NoCall == [op |-> "none", pos |-> 0, len |-> 0, data |-> <<>>]
Pending == [code |-> "pending", n |-> 0, bytes |-> <<>>]

Ok(n, bytes) == [code |-> "ok", n |-> n, bytes |-> bytes]
Fail(code) == [code |-> code, n |-> 0, bytes |-> <<>>]

Lesser(a, b) == IF a < b THEN a ELSE b

(* What a read of at most len bytes finds from offset pos on.              *)
Slice(m, pos, len) == SubSeq(m, pos + 1, pos + Lesser(len, Len(m) - pos))

BoxInit ==
  /\ box = <<>>
  /\ req = [p \in Proc |-> NoCall]
  /\ res = [p \in Proc |-> Pending]

Call(p) ==
  /\ req[p] = NoCall
  /\ \E r \in Request : req' = [req EXCEPT ![p] = r]
  /\ UNCHANGED <<box, res>>

(* The call of p takes effect: its result is r.                            *)
Takes(p, r) ==
  /\ req[p] # NoCall
  /\ res[p] = Pending
  /\ res' = [res EXCEPT ![p] = r]
  /\ UNCHANGED req

Read(p) ==
  /\ req[p].op = "read"
  /\ LET found == Slice(box, req[p].pos, req[p].len)
     IN  Takes(p, Ok(Len(found), found))
  /\ UNCHANGED box

Write(p) ==
  /\ req[p].op = "write"
  /\ LET n == Lesser(req[p].len, MaxLen)
     IN  /\ box' = SubSeq(req[p].data, 1, n)
         /\ Takes(p, Ok(n, <<>>))

(* A write whose user buffer faults leaves the length of the message, and  *)
(* in its bytes a prefix of the new data, then zeros, then the old tail.   *)
WriteFault(p) ==
  /\ req[p].op = "write"
  /\ LET n == Lesser(req[p].len, MaxLen)
     IN  \E k \in 0 .. n - 1 :
           box' = [i \in 1 .. Len(box) |-> IF i <= k THEN req[p].data[i]
                                           ELSE IF i <= n THEN NUL ELSE box[i]]
  /\ Takes(p, Fail("EFAULT"))

Clear(p) ==
  /\ req[p].op = "clear"
  /\ box' = <<>>
  /\ Takes(p, Ok(0, <<>>))

GetLen(p) ==
  /\ req[p].op = "getlen"
  /\ Takes(p, Ok(0, <<Len(box)>>))
  /\ UNCHANGED box

(* A call that has no effect: a faulting copy to the user, a signal while  *)
(* waiting, an unknown command.                                            *)
NoEffect(p) ==
  /\ \E code \in {"EFAULT", "ERESTARTSYS", "ENOTTY"} :
       /\ code = "EFAULT" => req[p].op \in {"read", "getlen"}
       /\ code = "ENOTTY" => req[p].op \in {"badnr", "unknown"}
       /\ Takes(p, Fail(code))
  /\ UNCHANGED box

Return(p) ==
  /\ res[p] # Pending
  /\ req' = [req EXCEPT ![p] = NoCall]
  /\ res' = [res EXCEPT ![p] = Pending]
  /\ UNCHANGED box

BoxNext ==
  \E p \in Proc :
    \/ Call(p) \/ Return(p)
    \/ Read(p) \/ Write(p) \/ WriteFault(p) \/ Clear(p) \/ GetLen(p)
    \/ NoEffect(p)

BoxSpec == BoxInit /\ [][BoxNext]_absVars
=============================================================================
