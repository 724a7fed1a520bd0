------------------------------- MODULE Usb829 -------------------------------
(***************************************************************************)
(* The data path of 015_virtual_char_device: a write answers with "ACK: "  *)
(* and what was written, in a buffer that reads then return. No lock: the  *)
(* buffer and data_size are shared memory, written byte by byte.           *)
(***************************************************************************)
EXTENDS Integers, Sequences, FiniteSets

CONSTANTS Writer, Reader, \* processes that write, and that read
          Char, NUL,      \* bytes
          Prefix,         \* "ACK: "
          BUF_SIZE,
          Payload,        \* user buffers that are written
          ReadLen         \* lengths asked for by reads

ASSUME SizeAssumption == BUF_SIZE \in Nat /\ Len(Prefix) < BUF_SIZE
ASSUME ByteAssumption == NUL \notin Char /\ Prefix \in Seq(Char) /\ Prefix # <<>>
ASSUME InputAssumption ==
  Payload \subseteq Seq(Char \cup {NUL}) /\ ReadLen \subseteq Nat

VARIABLES buffer, data_size,
          wpc,   \* where each writer is: idle, storing, measuring
          text,  \* what snprintf makes of its arguments, without the NUL
          at,    \* index of its next byte to store, or to look at
          alone, \* history: no other write overlapped with this one so far
          acked, \* history: the text of the last write, if it was alone
          rpc,   \* where each reader is: idle, compare, cap, copying
          off,   \* its file position
          todo,  \* its len
          got,   \* the bytes that it has copied
          shrunk \* history: data_size fell below its position after it was tested

shared == <<buffer, data_size>>
writing == <<wpc, text, at, alone, acked>>
reading == <<rpc, off, todo, got, shrunk>>
vars == <<shared, writing, reading>>

Byte == Char \cup {NUL}
Index == 0 .. BUF_SIZE - 1

Lesser(a, b) == IF a < b THEN a ELSE b

(* Slip: no room is left for the NUL.                                      *)
Room_NoNul == BUF_SIZE - Len(Prefix)

(* Room for what was written: the prefix and the NUL are reserved.         *)
Room == BUF_SIZE - Len(Prefix) - 1

(* "ACK: %.*s": the prefix and the n bytes before the first NUL, of at     *)
(* most len.                                                               *)
Printed(bytes, len, n) ==
  /\ n \in 0 .. Lesser(len, Len(bytes))
  /\ \A i \in 1 .. n : bytes[i] # NUL
  /\ n < Lesser(len, Len(bytes)) => bytes[n + 1] = NUL

Format(w) ==
  \E bytes \in Payload : \E n \in 0 .. Len(bytes) :
    /\ Printed(bytes, Room, n)
    /\ text' = [text EXCEPT ![w] = Prefix \o SubSeq(bytes, 1, n)]

None == <<>>   \* acked: nothing is promised

Init ==
  /\ buffer = [i \in Index |-> NUL]
  /\ data_size = 0
  /\ wpc = [w \in Writer |-> "idle"]
  /\ text = [w \in Writer |-> <<>>]
  /\ at = [w \in Writer |-> 0]
  /\ alone = [w \in Writer |-> FALSE]
  /\ acked = None
  /\ rpc = [r \in Reader |-> "idle"]
  /\ off = [r \in Reader |-> 0]
  /\ todo = [r \in Reader |-> 0]
  /\ got = [r \in Reader |-> <<>>]
  /\ shrunk = [r \in Reader |-> FALSE]

-----------------------------------------------------------------------------
(* usb829_write. A fault in copy_from_user leaves no trace.                *)

(* Slip: the old answer is cleared before the new one is built.            *)
Write_Clears(w) ==
  /\ wpc[w] = "idle"
  /\ Format(w)
  /\ wpc' = [wpc EXCEPT ![w] = "storing"]
  /\ at' = [at EXCEPT ![w] = 0]
  /\ alone' = [v \in Writer |->
                 IF v = w THEN \A u \in Writer : wpc[u] = "idle" ELSE FALSE]
  /\ acked' = None
  /\ buffer' = [i \in Index |-> NUL]
  /\ UNCHANGED <<data_size, reading>>

Write(w) ==
  /\ wpc[w] = "idle"
  /\ Format(w)
  /\ wpc' = [wpc EXCEPT ![w] = "storing"]
  /\ at' = [at EXCEPT ![w] = 0]
  /\ alone' = [v \in Writer |->
                 IF v = w THEN \A u \in Writer : wpc[u] = "idle" ELSE FALSE]
  /\ acked' = None
  /\ UNCHANGED <<shared, reading>>

StoreByte(w) ==
  /\ wpc[w] = "storing"
  /\ at[w] < Lesser(Len(text[w]), BUF_SIZE - 1)
  /\ buffer' = [buffer EXCEPT ![at[w]] = text[w][at[w] + 1]]
  /\ at' = [at EXCEPT ![w] = @ + 1]
  /\ UNCHANGED <<data_size, wpc, text, alone, acked, reading>>

StoreNul(w) ==
  /\ wpc[w] = "storing"
  /\ at[w] = Lesser(Len(text[w]), BUF_SIZE - 1)
  /\ buffer' = [buffer EXCEPT ![at[w]] = NUL]
  /\ wpc' = [wpc EXCEPT ![w] = "measuring"]
  /\ at' = [at EXCEPT ![w] = 0]
  /\ UNCHANGED <<data_size, text, alone, acked, reading>>

(* strlen(buffer), while other writers change it.                          *)
Measure(w) ==
  /\ wpc[w] = "measuring"
  /\ buffer[at[w]] # NUL
  /\ at' = [at EXCEPT ![w] = @ + 1]
  /\ UNCHANGED <<shared, wpc, text, alone, acked, reading>>

WriteReturn(w) ==
  /\ wpc[w] = "measuring"
  /\ buffer[at[w]] = NUL
  /\ data_size' = at[w]
  /\ wpc' = [wpc EXCEPT ![w] = "idle"]
  /\ acked' = IF alone[w] THEN text[w] ELSE None
  /\ shrunk' = [r \in Reader |-> shrunk[r] \/ (rpc[r] = "compare" /\ at[w] < off[r])]
  /\ UNCHANGED <<buffer, text, at, alone, rpc, off, todo, got>>

-----------------------------------------------------------------------------
(* usb829_read loads data_size three times (l.71, 74, 75), and a write may  *)
(* come in between.                                                        *)

Read(r) ==
  /\ rpc[r] = "idle"
  /\ off[r] < data_size
  /\ \E len \in ReadLen : todo' = [todo EXCEPT ![r] = len]
  /\ got' = [got EXCEPT ![r] = <<>>]
  /\ shrunk' = [shrunk EXCEPT ![r] = FALSE]
  /\ rpc' = [rpc EXCEPT ![r] = "compare"]
  /\ UNCHANGED <<shared, writing, off>>

(* Slip: the length asked for is not cut down.                             *)
Compare_NoCap(r) ==
  /\ rpc[r] = "compare"
  /\ rpc' = [rpc EXCEPT ![r] = "copying"]
  /\ UNCHANGED <<shared, writing, off, todo, got, shrunk>>

(* len is unsigned: a negative difference is larger than any.              *)
Compare(r) ==
  /\ rpc[r] = "compare"
  /\ rpc' = [rpc EXCEPT ![r] =
               IF data_size >= off[r] /\ todo[r] > data_size - off[r]
               THEN "cap" ELSE "copying"]
  /\ UNCHANGED <<shared, writing, off, todo, got, shrunk>>

(* A length that was negative is refused by copy_to_user: -EFAULT.         *)
Cap(r) ==
  /\ rpc[r] = "cap"
  /\ \/ /\ data_size >= off[r]
        /\ todo' = [todo EXCEPT ![r] = data_size - off[r]]
        /\ rpc' = [rpc EXCEPT ![r] = "copying"]
     \/ /\ data_size < off[r]
        /\ todo' = todo
        /\ rpc' = [rpc EXCEPT ![r] = "idle"]
  /\ UNCHANGED <<shared, writing, off, got, shrunk>>

(* What lies beyond the buffer does not matter here.                       *)
At(k) == IF k \in Index THEN buffer[k] ELSE NUL

CopyByte(r) ==
  /\ rpc[r] = "copying"
  /\ Len(got[r]) < todo[r]
  /\ got' = [got EXCEPT ![r] = Append(@, At(off[r] + Len(@)))]
  /\ UNCHANGED <<shared, writing, rpc, off, todo, shrunk>>

CopyFault(r) ==
  /\ rpc[r] = "copying"
  /\ Len(got[r]) < todo[r]
  /\ rpc' = [rpc EXCEPT ![r] = "idle"]
  /\ UNCHANGED <<shared, writing, off, todo, got, shrunk>>

ReadReturn(r) ==
  /\ rpc[r] = "copying"
  /\ Len(got[r]) = todo[r]
  /\ off' = [off EXCEPT ![r] = @ + todo[r]]
  /\ rpc' = [rpc EXCEPT ![r] = "idle"]
  /\ UNCHANGED <<shared, writing, todo, got, shrunk>>

(* Open again: a new file, at position 0.                                  *)
Open(r) ==
  /\ rpc[r] = "idle"
  /\ off[r] # 0
  /\ off' = [off EXCEPT ![r] = 0]
  /\ UNCHANGED <<shared, writing, rpc, todo, got, shrunk>>

-----------------------------------------------------------------------------
WriteStep(w) ==
  Write(w) \/ StoreByte(w) \/ StoreNul(w) \/ Measure(w) \/ WriteReturn(w)

ReadStep(r) ==
  \/ Read(r) \/ Compare(r) \/ Cap(r)
  \/ CopyByte(r) \/ CopyFault(r) \/ ReadReturn(r) \/ Open(r)

Next ==
  \/ \E w \in Writer : WriteStep(w)
  \/ \E r \in Reader : ReadStep(r)

Spec == Init /\ [][Next]_vars

-----------------------------------------------------------------------------
(* Properties                                                              *)

(* The last byte of the buffer is NUL whatever the writers do, so strlen   *)
(* never runs out of it.                                                   *)
TypeOK ==
  /\ buffer \in [Index -> Byte] /\ buffer[BUF_SIZE - 1] = NUL
  /\ data_size \in Index
  /\ wpc \in [Writer -> {"idle", "storing", "measuring"}]
  /\ text \in [Writer -> Seq(Char)]
  /\ at \in [Writer -> Index]
  /\ alone \in [Writer -> BOOLEAN]
  /\ acked \in Seq(Char)
  /\ rpc \in [Reader -> {"idle", "compare", "cap", "copying"}]
  /\ off \in [Reader -> Nat]
  /\ todo \in [Reader -> Nat]
  /\ got \in [Reader -> Seq(Byte)]
  /\ shrunk \in [Reader -> BOOLEAN]

(* A read leaves the buffer in one way only: a shorter answer is stored    *)
(* between its test for the end (l.71) and its comparison (l.74), and its  *)
(* position is beyond the end of that answer, so that the length is not    *)
(* cut down. A shorter answer at any later time does not hurt, nor does    *)
(* any to a read from the start of the buffer.                             *)
ReadInsideBuffer ==
  \A r \in Reader :
    rpc[r] = "copying" /\ off[r] + todo[r] >= BUF_SIZE => shrunk[r]

(* Once data_size is set, every byte of the prefix is in place and stays:  *)
(* writers that race only store over it what is there already. So it is    *)
(* read whole, whatever they do.                                           *)
PrefixInPlace ==
  data_size # 0 =>
    /\ data_size >= Len(Prefix)
    /\ \A i \in 1 .. Len(Prefix) : buffer[i - 1] = Prefix[i]

PrefixIsRead ==
  \A r \in Reader : rpc[r] = "copying" =>
    \A i \in 1 .. Len(got[r]) : off[r] + i <= Len(Prefix) => got[r][i] = Prefix[off[r] + i]

PrefixStays == PrefixInPlace /\ PrefixIsRead

(* A write that no other write overlapped leaves the whole of its answer,  *)
(* and its length (l.56-57).                                               *)
AckIsWhole ==
  acked # None =>
    /\ data_size = Len(acked)
    /\ \A i \in 1 .. Len(acked) : buffer[i - 1] = acked[i]
    /\ buffer[Len(acked)] = NUL
=============================================================================
