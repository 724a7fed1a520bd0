---------------------------- MODULE Usb829Proofs ----------------------------
(***************************************************************************)
(* What Usb829 promises, for buffers, prefixes and messages of any length  *)
(* and any number of racing writers and readers.                           *)
(***************************************************************************)
EXTENDS Usb829, TLAPS

InPlace(seq, n) == \A i \in 1 .. n : buffer[i - 1] = seq[i]

TextInv ==
  \A w \in Writer : wpc[w] # "idle" =>
    /\ Len(text[w]) >= Len(Prefix) /\ Len(text[w]) < BUF_SIZE
    /\ \A i \in 1 .. Len(Prefix) : text[w][i] = Prefix[i]
    /\ wpc[w] = "storing" => at[w] <= Len(text[w])

PrefixInv ==
  /\ \A w \in Writer, i \in 1 .. Len(Prefix) :
       /\ wpc[w] = "storing" /\ i <= at[w] => buffer[i - 1] = Prefix[i]
       /\ wpc[w] = "measuring" => buffer[i - 1] = Prefix[i]
  /\ PrefixInPlace

AloneInv ==
  \A w \in Writer : alone[w] /\ wpc[w] # "idle" =>
    /\ \A v \in Writer \ {w} : wpc[v] = "idle"
    /\ wpc[w] = "storing" => InPlace(text[w], at[w])
    /\ wpc[w] = "measuring" =>
         /\ InPlace(text[w], Len(text[w])) /\ buffer[Len(text[w])] = NUL
         /\ at[w] <= Len(text[w])

AckInv ==
  /\ acked # None => \A w \in Writer : wpc[w] = "idle"
  /\ AckIsWhole

(* A length that is not cut down is inside the buffer, unless the answer   *)
(* shrank since the test for its end.                                      *)
LengthInv ==
  \A r \in Reader :
    /\ rpc[r] # "idle" => data_size # 0
    /\ rpc[r] = "compare" /\ data_size < off[r] => shrunk[r]
    /\ rpc[r] \in {"compare", "cap"} => got[r] = <<>>

ReadInv == LengthInv /\ ReadInsideBuffer /\ PrefixIsRead

IInv == TypeOK /\ TextInv /\ PrefixInv /\ AloneInv /\ AckInv /\ ReadInv

(* What a write prints fits, and begins with the prefix.                   *)
LEMMA FormatFits ==
  ASSUME NEW w \in Writer, TypeOK, Format(w)
  PROVE  \E tx \in Seq(Char) :
           /\ text' = [text EXCEPT ![w] = tx]
           /\ Len(tx) >= Len(Prefix) /\ Len(tx) < BUF_SIZE
           /\ \A i \in 1 .. Len(Prefix) : tx[i] = Prefix[i]
<1>0. PICK bytes \in Payload : \E n \in 0 .. Len(bytes) :
        /\ Printed(bytes, Room, n)
        /\ text' = [text EXCEPT ![w] = Prefix \o SubSeq(bytes, 1, n)]
  BY DEF Format
<1>1. PICK n \in 0 .. Len(bytes) :
        /\ Printed(bytes, Room, n)
        /\ text' = [text EXCEPT ![w] = Prefix \o SubSeq(bytes, 1, n)]
  BY <1>0
<1>2. bytes \in Seq(Byte) /\ Len(bytes) \in Nat /\ Prefix \in Seq(Char) /\ Len(Prefix) \in Nat
  BY ByteAssumption, InputAssumption DEF Byte
<1>3. Room \in Nat /\ Len(Prefix) + Room < BUF_SIZE
  BY <1>2, SizeAssumption DEF Room
<1>4. n <= Room /\ n \in Nat /\ \A i \in 1 .. n : bytes[i] # NUL
  BY <1>1, <1>2, <1>3 DEF Printed, Lesser
<1> DEFINE m == SubSeq(bytes, 1, n)
<1>5. m \in Seq(Char) /\ Len(m) = n
  <2>1. m \in Seq(Byte) /\ Len(m) = n /\ \A i \in 1 .. n : m[i] = bytes[i]
    BY <1>1, <1>2, <1>4
  <2>2. \A i \in 1 .. Len(m) : m[i] \in Char
    BY <2>1, <1>2, <1>4 DEF Byte
  <2> HIDE DEF m
  <2> QED  BY <2>1, <2>2
<1> HIDE DEF m
<1>6. /\ Prefix \o m \in Seq(Char)
      /\ Len(Prefix \o m) = Len(Prefix) + n
      /\ \A i \in 1 .. Len(Prefix) : (Prefix \o m)[i] = Prefix[i]
  BY <1>2, <1>4, <1>5
<1>7. text' = [text EXCEPT ![w] = Prefix \o m]
  BY <1>1 DEF m
<1> DEFINE tx == Prefix \o m
<1>8. /\ tx \in Seq(Char) /\ text' = [text EXCEPT ![w] = tx]
      /\ Len(tx) >= Len(Prefix) /\ Len(tx) < BUF_SIZE
      /\ \A i \in 1 .. Len(Prefix) : tx[i] = Prefix[i]
  BY <1>2, <1>3, <1>4, <1>6, <1>7, SizeAssumption
<1> HIDE DEF tx
<1> QED  BY <1>8

LEMMA InitInv ==
  ASSUME Init
  PROVE  IInv
<1>1. BUF_SIZE \in Nat \ {0} /\ BUF_SIZE - 1 \in Index /\ 0 \in Index
  BY SizeAssumption, ByteAssumption DEF Index
<1>2. TypeOK
  BY <1>1 DEF Init, TypeOK, Byte, Index, None
<1>3. TextInv /\ PrefixInv /\ AloneInv /\ AckInv /\ ReadInv
  BY DEF Init, TextInv, PrefixInv, PrefixInPlace, AloneInv, AckInv, AckIsWhole, ReadInv, LengthInv, ReadInsideBuffer, PrefixIsRead
<1> QED  BY <1>2, <1>3 DEF IInv

LEMMA WriteInv ==
  ASSUME IInv, NEW w \in Writer, Write(w)
  PROVE  IInv'
<1> USE DEF IInv
<1>1. PICK tx \in Seq(Char) :
        /\ text' = [text EXCEPT ![w] = tx]
        /\ Len(tx) >= Len(Prefix) /\ Len(tx) < BUF_SIZE
        /\ \A i \in 1 .. Len(Prefix) : tx[i] = Prefix[i]
  BY FormatFits DEF Write
<1>2. /\ wpc[w] = "idle"
      /\ wpc' = [wpc EXCEPT ![w] = "storing"] /\ at' = [at EXCEPT ![w] = 0]
      /\ alone' = [v \in Writer |->
                     IF v = w THEN \A u \in Writer : wpc[u] = "idle" ELSE FALSE]
      /\ acked' = None
      /\ buffer' = buffer /\ data_size' = data_size
      /\ rpc' = rpc /\ off' = off /\ todo' = todo /\ got' = got
      /\ shrunk' = shrunk
  BY DEF Write, shared, reading
<1>3. 0 \in Index /\ Len(Prefix) \in Nat
  BY SizeAssumption, ByteAssumption DEF TypeOK, Index
<1>4. TypeOK'
  <2>1. alone' \in [Writer -> BOOLEAN]
    BY <1>2
  <2>2. text' \in [Writer -> Seq(Char)] /\ at' \in [Writer -> Index]
    BY <1>1, <1>2, <1>3 DEF TypeOK
  <2>3. wpc' \in [Writer -> {"idle", "storing", "measuring"}]
    BY <1>2 DEF TypeOK
  <2> QED  BY <2>1, <2>2, <2>3, <1>2 DEF TypeOK, None
<1>5. TextInv'
  BY <1>1, <1>2, <1>3 DEF TextInv, TypeOK
<1>6. PrefixInv'
  BY <1>2 DEF PrefixInv, PrefixInPlace, TypeOK
<1>7. AloneInv'
  BY <1>2 DEF AloneInv, InPlace, TypeOK
<1>8. AckInv' /\ ReadInv'
  BY <1>2 DEF AckInv, AckIsWhole, ReadInv, LengthInv, ReadInsideBuffer, PrefixIsRead
<1> QED  BY <1>4, <1>5, <1>6, <1>7, <1>8

LEMMA StoreByteInv ==
  ASSUME IInv, NEW w \in Writer, StoreByte(w)
  PROVE  IInv'
<1> USE DEF IInv
<1> DEFINE k == at[w]
           c == text[w][at[w] + 1]
<1>1. /\ wpc[w] = "storing" /\ k < Lesser(Len(text[w]), BUF_SIZE - 1)
      /\ buffer' = [buffer EXCEPT ![k] = c] /\ at' = [at EXCEPT ![w] = k + 1]
      /\ data_size' = data_size /\ wpc' = wpc /\ text' = text /\ alone' = alone
      /\ acked' = acked /\ rpc' = rpc /\ off' = off /\ todo' = todo /\ got' = got
      /\ shrunk' = shrunk
  BY DEF StoreByte, reading
<1>2. /\ text[w] \in Seq(Char) /\ Len(text[w]) \in Nat /\ k \in Index /\ k \in Nat
      /\ BUF_SIZE \in Nat /\ Len(Prefix) \in Nat
  BY SizeAssumption, ByteAssumption DEF TypeOK, Index
<1>3. k < Len(text[w]) /\ k < BUF_SIZE - 1 /\ k + 1 \in Index /\ c \in Char
  BY <1>1, <1>2 DEF Lesser, Index
<1>4. \A i \in Index : buffer'[i] = IF i = k THEN c ELSE buffer[i]
  BY <1>1 DEF TypeOK
<1>5. TypeOK'
  <2>1. buffer' \in [Index -> Byte] /\ buffer'[BUF_SIZE - 1] = NUL
    BY <1>1, <1>2, <1>3, SizeAssumption DEF TypeOK, Byte, Index
  <2>2. at' \in [Writer -> Index]
    BY <1>1, <1>3 DEF TypeOK
  <2> QED  BY <2>1, <2>2, <1>1 DEF TypeOK
<1>6. TextInv'
  <2>1. at'[w] <= Len(text[w]) /\ \A v \in Writer \ {w} : at'[v] = at[v]
    BY <1>1, <1>2, <1>3 DEF TypeOK
  <2> QED  BY <2>1, <1>1 DEF TextInv
<1>7. \A i \in 1 .. Len(Prefix) :
        i - 1 = k \/ buffer[i - 1] = Prefix[i] => buffer'[i - 1] = Prefix[i]
  <2> SUFFICES ASSUME NEW i \in 1 .. Len(Prefix), i - 1 = k \/ buffer[i - 1] = Prefix[i]
               PROVE  buffer'[i - 1] = Prefix[i]
    OBVIOUS
  <2>1. i - 1 \in Index
    BY <1>2, SizeAssumption DEF Index
  <2>2. text[w][i] = Prefix[i]
    BY <1>1 DEF TextInv
  <2>3. i - 1 = k => c = Prefix[i]
    BY <2>2, <1>2
  <2> HIDE DEF c
  <2> QED  BY <2>1, <2>3, <1>4
<1>8. PrefixInv'
  <2>1. \A v \in Writer, i \in 1 .. Len(Prefix) :
          wpc[v] = "storing" /\ i <= at'[v] => i - 1 = k \/ (wpc[v] = "storing" /\ i <= at[v])
    BY <1>1, <1>2 DEF TypeOK, Index
  <2>2. data_size' = data_size /\ wpc' = wpc
    BY <1>1
  <2> HIDE DEF k
  <2> QED  BY <1>7, <2>1, <2>2 DEF PrefixInv, PrefixInPlace
<1>9. AloneInv'
  <2> SUFFICES ASSUME NEW v \in Writer, alone[v], wpc[v] # "idle"
               PROVE  /\ \A u \in Writer \ {v} : wpc[u] = "idle"
                      /\ wpc[v] = "storing" => InPlace(text[v], at[v])'
                      /\ wpc[v] = "measuring" =>
                           /\ InPlace(text[v], Len(text[v]))' /\ buffer'[Len(text[v])] = NUL
                           /\ at'[v] <= Len(text[v])
    BY <1>1 DEF AloneInv
  <2>1. v = w /\ \A u \in Writer \ {w} : wpc[u] = "idle"
    BY <1>1 DEF AloneInv
  <2>2. InPlace(text[w], k)
    BY <2>1, <1>1 DEF AloneInv
  <2>3. \A i \in 1 .. k + 1 : i - 1 \in Index /\ (i - 1 = k => i = k + 1) /\ (i - 1 # k => i \in 1 .. k)
    BY <1>2, <1>3 DEF Index
  <2>4. \A i \in 1 .. k + 1 : buffer'[i - 1] = text[w][i]
    BY <2>2, <2>3, <1>4 DEF InPlace
  <2>5. at'[w] = k + 1
    BY <1>1 DEF TypeOK
  <2> QED  BY <2>1, <2>4, <2>5, <1>1 DEF InPlace
<1>10. AckInv' /\ ReadInv'
  <2>1. acked = None
    BY <1>1 DEF AckInv
  <2> QED  BY <2>1, <1>1 DEF AckInv, AckIsWhole, ReadInv, LengthInv, ReadInsideBuffer, PrefixIsRead
<1> QED  BY <1>5, <1>6, <1>8, <1>9, <1>10

LEMMA StoreNulInv ==
  ASSUME IInv, NEW w \in Writer, StoreNul(w)
  PROVE  IInv'
<1> USE DEF IInv
<1> DEFINE k == at[w]
<1>1. /\ wpc[w] = "storing" /\ k = Lesser(Len(text[w]), BUF_SIZE - 1)
      /\ buffer' = [buffer EXCEPT ![k] = NUL] /\ at' = [at EXCEPT ![w] = 0]
      /\ wpc' = [wpc EXCEPT ![w] = "measuring"]
      /\ data_size' = data_size /\ text' = text /\ alone' = alone
      /\ acked' = acked /\ rpc' = rpc /\ off' = off /\ todo' = todo /\ got' = got
      /\ shrunk' = shrunk
  BY DEF StoreNul, reading
<1>2. /\ text[w] \in Seq(Char) /\ Len(text[w]) \in Nat /\ k \in Index /\ k \in Nat
      /\ BUF_SIZE \in Nat /\ Len(Prefix) \in Nat /\ 0 \in Index
  BY SizeAssumption, ByteAssumption DEF TypeOK, Index
<1>3. k = Len(text[w]) /\ k >= Len(Prefix)
  BY <1>1, <1>2 DEF TextInv, Lesser
<1>4. \A i \in Index : buffer'[i] = IF i = k THEN NUL ELSE buffer[i]
  BY <1>1 DEF TypeOK
<1>5. TypeOK'
  <2>1. buffer' \in [Index -> Byte] /\ buffer'[BUF_SIZE - 1] = NUL
    BY <1>1, <1>2, SizeAssumption DEF TypeOK, Byte, Index
  <2>2. at' \in [Writer -> Index] /\ wpc' \in [Writer -> {"idle", "storing", "measuring"}]
    BY <1>1, <1>2 DEF TypeOK
  <2> QED  BY <2>1, <2>2, <1>1 DEF TypeOK
<1>6. /\ wpc'[w] = "measuring" /\ at'[w] = 0
      /\ \A v \in Writer \ {w} : wpc'[v] = wpc[v] /\ at'[v] = at[v]
  BY <1>1 DEF TypeOK
<1>7. TextInv'
  BY <1>6, <1>1 DEF TextInv
<1>8. \A i \in 1 .. k : i - 1 \in Index /\ buffer'[i - 1] = buffer[i - 1]
  BY <1>2, <1>4 DEF Index
<1>9. PrefixInv'
  <2>1. \A i \in 1 .. Len(Prefix) : i \in 1 .. k
    BY <1>2, <1>3
  <2>2. \A i \in 1 .. Len(Prefix) : buffer[i - 1] = Prefix[i]
    BY <2>1, <1>1 DEF PrefixInv
  <2>3. \A i \in 1 .. Len(Prefix) : buffer'[i - 1] = Prefix[i]
    BY <2>1, <2>2, <1>8
  <2>4. data_size # 0 => data_size >= Len(Prefix)
    BY DEF PrefixInv, PrefixInPlace
  <2>5. data_size' = data_size
    BY <1>1
  <2> QED  BY <2>3, <2>4, <2>5 DEF PrefixInv, PrefixInPlace
<1>10. AloneInv'
  <2> SUFFICES ASSUME NEW v \in Writer, alone[v], wpc'[v] # "idle"
               PROVE  /\ \A u \in Writer \ {v} : wpc'[u] = "idle"
                      /\ wpc'[v] = "storing" => InPlace(text[v], at[v])'
                      /\ wpc'[v] = "measuring" =>
                           /\ InPlace(text[v], Len(text[v]))' /\ buffer'[Len(text[v])] = NUL
                           /\ at'[v] <= Len(text[v])
    BY <1>1 DEF AloneInv
  <2>1. v = w /\ \A u \in Writer \ {w} : wpc[u] = "idle"
    BY <1>1, <1>6 DEF AloneInv
  <2>2. InPlace(text[w], k)
    BY <2>1, <1>1 DEF AloneInv
  <2>3. \A i \in 1 .. k : buffer'[i - 1] = text[w][i]
    BY <2>2, <1>8 DEF InPlace
  <2>4. buffer'[k] = NUL
    BY <1>2, <1>4
  <2> QED  BY <2>1, <2>3, <2>4, <1>1, <1>2, <1>3, <1>6 DEF InPlace
<1>11. AckInv' /\ ReadInv'
  <2>1. acked = None
    BY <1>1 DEF AckInv
  <2> QED  BY <2>1, <1>1 DEF AckInv, AckIsWhole, ReadInv, LengthInv, ReadInsideBuffer, PrefixIsRead
<1> QED  BY <1>5, <1>7, <1>9, <1>10, <1>11

LEMMA MeasureInv ==
  ASSUME IInv, NEW w \in Writer, Measure(w)
  PROVE  IInv'
<1> USE DEF IInv
<1> DEFINE k == at[w]
<1>1. /\ wpc[w] = "measuring" /\ buffer[k] # NUL /\ at' = [at EXCEPT ![w] = k + 1]
      /\ buffer' = buffer /\ wpc' = wpc
      /\ data_size' = data_size /\ text' = text /\ alone' = alone
      /\ acked' = acked /\ rpc' = rpc /\ off' = off /\ todo' = todo /\ got' = got
      /\ shrunk' = shrunk
  BY DEF Measure, shared, reading
<1>2. k \in Index /\ k + 1 \in Index /\ BUF_SIZE \in Nat
  <2>1. k \in Index /\ k # BUF_SIZE - 1
    BY <1>1 DEF TypeOK
  <2> HIDE DEF k
  <2> QED  BY <2>1, SizeAssumption DEF Index
<1>3. at'[w] = k + 1 /\ \A v \in Writer \ {w} : at'[v] = at[v]
  BY <1>1 DEF TypeOK
<1>4. TypeOK'
  <2>1. at' \in [Writer -> Index]
    BY <1>1, <1>2 DEF TypeOK
  <2> QED  BY <2>1, <1>1 DEF TypeOK
<1>5. TextInv' /\ PrefixInv'
  BY <1>1, <1>3 DEF TextInv, PrefixInv, PrefixInPlace
<1>6. AloneInv'
  <2>1. ASSUME alone[w]  PROVE  k + 1 <= Len(text[w])
    <3>1. text[w] \in Seq(Char)
      BY DEF TypeOK
    <3>2. k <= Len(text[w]) /\ buffer[Len(text[w])] = NUL
      BY <2>1, <1>1 DEF AloneInv
    <3> QED  BY <3>1, <3>2, <1>1, <1>2 DEF Index
  <2> QED  BY <2>1, <1>1, <1>3 DEF AloneInv, InPlace
<1>7. AckInv' /\ ReadInv'
  BY <1>1 DEF AckInv, AckIsWhole, ReadInv, LengthInv, ReadInsideBuffer, PrefixIsRead
<1> QED  BY <1>4, <1>5, <1>6, <1>7

LEMMA WriteReturnInv ==
  ASSUME IInv, NEW w \in Writer, WriteReturn(w)
  PROVE  IInv'
<1> USE DEF IInv
<1> DEFINE k == at[w]
<1>1. /\ wpc[w] = "measuring" /\ buffer[k] = NUL /\ data_size' = k
      /\ wpc' = [wpc EXCEPT ![w] = "idle"]
      /\ acked' = IF alone[w] THEN text[w] ELSE None
      /\ buffer' = buffer /\ text' = text /\ at' = at /\ alone' = alone
      /\ rpc' = rpc /\ off' = off /\ todo' = todo /\ got' = got
      /\ shrunk' = [r \in Reader |-> shrunk[r] \/ (rpc[r] = "compare" /\ k < off[r])]
  BY DEF WriteReturn
<1>2. /\ k \in Nat /\ k \in Index /\ text[w] \in Seq(Char) /\ Len(text[w]) \in Nat
      /\ Len(Prefix) \in Nat /\ BUF_SIZE \in Nat
  BY SizeAssumption, ByteAssumption DEF TypeOK, Index
<1>3. wpc'[w] = "idle" /\ \A v \in Writer \ {w} : wpc'[v] = wpc[v]
  BY <1>1 DEF TypeOK
<1>4. TypeOK'
  <2>1. wpc' \in [Writer -> {"idle", "storing", "measuring"}]
    BY <1>1 DEF TypeOK
  <2>2. acked' \in Seq(Char)
    BY <1>1, <1>2 DEF None
  <2>3. shrunk' \in [Reader -> BOOLEAN]
    BY <1>1
  <2> QED  BY <2>1, <2>2, <2>3, <1>1, <1>2 DEF TypeOK
<1>5. TextInv'
  BY <1>1, <1>3 DEF TextInv
<1>6. \A i \in 1 .. Len(Prefix) : buffer[i - 1] = Prefix[i] /\ Prefix[i] # NUL
  <2>1. \A i \in 1 .. Len(Prefix) : Prefix[i] \in Char
    BY ByteAssumption
  <2> QED  BY <2>1, <1>1, ByteAssumption DEF PrefixInv
<1>7. k >= Len(Prefix)
  <2>1. SUFFICES ASSUME k < Len(Prefix)  PROVE FALSE
    BY <1>2
  <2>2. k + 1 \in 1 .. Len(Prefix) /\ (k + 1) - 1 = k
    BY <2>1, <1>2
  <2> QED  BY <2>2, <1>1, <1>6
<1>8. PrefixInv'
  BY <1>1, <1>3, <1>6, <1>7 DEF PrefixInv, PrefixInPlace
<1>9. AloneInv'
  BY <1>1, <1>3 DEF AloneInv, InPlace
<1>10. AckInv'
  <2> SUFFICES ASSUME alone[w]
               PROVE  /\ \A v \in Writer : wpc'[v] = "idle"
                      /\ k = Len(text[w])
                      /\ \A i \in 1 .. Len(text[w]) : buffer[i - 1] = text[w][i]
                      /\ buffer[Len(text[w])] = NUL
    BY <1>1 DEF AckInv, AckIsWhole
  <2>1. \A v \in Writer : wpc'[v] = "idle"
    BY <1>1, <1>3 DEF AloneInv
  <2>2. InPlace(text[w], Len(text[w])) /\ buffer[Len(text[w])] = NUL /\ k <= Len(text[w])
    BY <1>1 DEF AloneInv
  <2>3. k = Len(text[w])
    <3>1. SUFFICES ASSUME k < Len(text[w])  PROVE FALSE
      BY <2>2, <1>2
    <3>2. k + 1 \in 1 .. Len(text[w]) /\ (k + 1) - 1 = k
      BY <3>1, <1>2
    <3>3. buffer[k] = text[w][k + 1] /\ text[w][k + 1] \in Char
      BY <3>2, <2>2, <1>2 DEF InPlace
    <3> QED  BY <3>3, <1>1, ByteAssumption
  <2> QED  BY <2>1, <2>2, <2>3 DEF InPlace
<1>11. ReadInv'
  <2>1. data_size' # 0
    BY <1>1, <1>2, <1>7, ByteAssumption
  <2>2. LengthInv'
    BY <1>1, <2>1 DEF ReadInv, LengthInv
  <2> QED  BY <1>1, <2>2 DEF ReadInv, ReadInsideBuffer, PrefixIsRead
<1> QED  BY <1>4, <1>5, <1>8, <1>9, <1>10, <1>11

LEMMA ReaderInv ==
  ASSUME IInv, NEW r \in Reader, ReadStep(r)
  PROVE  IInv'
<1> USE DEF IInv
<1>1. /\ buffer' = buffer /\ data_size' = data_size /\ wpc' = wpc /\ text' = text
      /\ at' = at /\ alone' = alone /\ acked' = acked
  BY DEF ReadStep, Read, Compare, Cap, CopyByte, CopyFault, ReadReturn, Open, shared, writing
<1>2. TextInv' /\ PrefixInv' /\ AloneInv' /\ AckInv'
  BY <1>1 DEF TextInv, PrefixInv, PrefixInPlace, AloneInv, InPlace, AckInv, AckIsWhole
<1> DEFINE WriterTypes ==
      /\ buffer \in [Index -> Byte] /\ buffer[BUF_SIZE - 1] = NUL
      /\ data_size \in Index
      /\ wpc \in [Writer -> {"idle", "storing", "measuring"}]
      /\ text \in [Writer -> Seq(Char)] /\ at \in [Writer -> Index]
      /\ alone \in [Writer -> BOOLEAN] /\ acked \in Seq(Char)
    ReaderTypes ==
      /\ rpc \in [Reader -> {"idle", "compare", "cap", "copying"}] /\ off \in [Reader -> Nat]
      /\ todo \in [Reader -> Nat] /\ got \in [Reader -> Seq(Byte)]
      /\ shrunk \in [Reader -> BOOLEAN]
    OthersStay ==
      \A s \in Reader \ {r} :
        /\ rpc'[s] = rpc[s] /\ off'[s] = off[s] /\ todo'[s] = todo[s]
        /\ got'[s] = got[s] /\ shrunk'[s] = shrunk[s]
    Mine ==
      /\ rpc'[r] # "idle" => data_size # 0
      /\ rpc'[r] = "compare" /\ data_size < off'[r] => shrunk'[r]
      /\ rpc'[r] \in {"compare", "cap"} => got'[r] = <<>>
      /\ rpc'[r] = "copying" =>
           /\ off'[r] + todo'[r] >= BUF_SIZE => shrunk'[r]
           /\ \A i \in 1 .. Len(got'[r]) :
                off'[r] + i <= Len(Prefix) => got'[r][i] = Prefix[off'[r] + i]
<1>3. WriterTypes'
  BY <1>1 DEF TypeOK
<1>4. /\ off[r] \in Nat /\ todo[r] \in Nat /\ BUF_SIZE \in Nat /\ Len(Prefix) \in Nat
      /\ data_size \in Index /\ data_size \in Nat /\ data_size < BUF_SIZE
      /\ got[r] \in Seq(Byte) /\ Len(got[r]) \in Nat
  BY SizeAssumption, ByteAssumption DEF TypeOK, Index
<1>5. /\ rpc[r] # "idle" => data_size # 0
      /\ rpc[r] = "compare" /\ data_size < off[r] => shrunk[r]
      /\ rpc[r] \in {"compare", "cap"} => got[r] = <<>>
      /\ rpc[r] = "copying" => (off[r] + todo[r] >= BUF_SIZE => shrunk[r])
  BY DEF ReadInv, LengthInv, ReadInsideBuffer
<1>6. rpc[r] = "copying" =>
        \A i \in 1 .. Len(got[r]) : off[r] + i <= Len(Prefix) => got[r][i] = Prefix[off[r] + i]
  BY DEF ReadInv, PrefixIsRead
<1>7. ReaderTypes' /\ OthersStay /\ Mine
  <2>1. CASE Read(r)
    <3>1. PICK len \in ReadLen : todo' = [todo EXCEPT ![r] = len]
      BY <2>1 DEF Read
    <3>2. /\ rpc[r] = "idle" /\ off[r] < data_size /\ off' = off /\ len \in Nat
          /\ got' = [got EXCEPT ![r] = <<>>] /\ shrunk' = [shrunk EXCEPT ![r] = FALSE]
          /\ rpc' = [rpc EXCEPT ![r] = "compare"]
      BY <2>1, InputAssumption DEF Read
    <3>3. ReaderTypes' /\ OthersStay
      BY <3>1, <3>2 DEF TypeOK
    <3>4. rpc'[r] = "compare" /\ got'[r] = <<>> /\ off'[r] = off[r]
      BY <3>2 DEF TypeOK
    <3> QED  BY <3>2, <3>3, <3>4, <1>4
  <2>2. CASE Compare(r)
    <3>1. /\ rpc[r] = "compare" /\ off' = off /\ todo' = todo /\ got' = got /\ shrunk' = shrunk
          /\ rpc' = [rpc EXCEPT ![r] =
                       IF data_size >= off[r] /\ todo[r] > data_size - off[r]
                       THEN "cap" ELSE "copying"]
      BY <2>2 DEF Compare
    <3>2. ReaderTypes' /\ OthersStay
      BY <3>1 DEF TypeOK
    <3>3. rpc'[r] = IF data_size >= off[r] /\ todo[r] > data_size - off[r] THEN "cap" ELSE "copying"
      BY <3>1 DEF TypeOK
    <3>4. rpc'[r] = "copying" => (off[r] + todo[r] >= BUF_SIZE => shrunk[r])
      BY <3>1, <3>3, <1>4, <1>5
    <3>5. got[r] = <<>> /\ data_size # 0
      BY <3>1, <1>5
    <3> QED  BY <3>1, <3>2, <3>3, <3>4, <3>5
  <2>3. CASE Cap(r)
    <3>1. /\ rpc[r] = "cap" /\ off' = off /\ got' = got /\ shrunk' = shrunk
      BY <2>3 DEF Cap
    <3>2. got[r] = <<>> /\ data_size # 0
      BY <3>1, <1>5
    <3>3. CASE data_size >= off[r]
      <4>1. /\ todo' = [todo EXCEPT ![r] = data_size - off[r]]
            /\ rpc' = [rpc EXCEPT ![r] = "copying"]
        BY <2>3, <3>3, <1>4 DEF Cap
      <4>2. data_size - off[r] \in Nat /\ off[r] + (data_size - off[r]) < BUF_SIZE
        BY <3>3, <1>4
      <4>3. ReaderTypes' /\ OthersStay
        BY <3>1, <4>1, <4>2 DEF TypeOK
      <4>4. rpc'[r] = "copying" /\ todo'[r] = data_size - off[r]
        BY <4>1 DEF TypeOK
      <4> QED  BY <3>1, <3>2, <4>2, <4>3, <4>4, <1>4
    <3>4. CASE data_size < off[r]
      <4>1. todo' = todo /\ rpc' = [rpc EXCEPT ![r] = "idle"]
        BY <2>3, <3>4, <1>4 DEF Cap
      <4>2. ReaderTypes' /\ OthersStay /\ rpc'[r] = "idle"
        BY <3>1, <4>1 DEF TypeOK
      <4> QED  BY <4>2
    <3> QED  BY <3>3, <3>4, <1>4
  <2>4. CASE CopyByte(r)
    <3> DEFINE b == At(off[r] + Len(got[r]))
    <3>1. /\ rpc[r] = "copying" /\ got' = [got EXCEPT ![r] = Append(got[r], b)]
          /\ rpc' = rpc /\ off' = off /\ todo' = todo /\ shrunk' = shrunk
      BY <2>4 DEF CopyByte
    <3>2. b \in Byte
      BY <1>4 DEF At, TypeOK, Byte
    <3>3. off[r] + (Len(got[r]) + 1) <= Len(Prefix) => b = Prefix[off[r] + (Len(got[r]) + 1)]
      <4> SUFFICES ASSUME off[r] + (Len(got[r]) + 1) <= Len(Prefix)
                   PROVE  b = Prefix[off[r] + (Len(got[r]) + 1)]
        OBVIOUS
      <4> DEFINE j == off[r] + (Len(got[r]) + 1)
      <4>1. j \in 1 .. Len(Prefix) /\ j - 1 = off[r] + Len(got[r]) /\ j - 1 \in Index
        BY <1>4, SizeAssumption DEF Index
      <4>2. buffer[j - 1] = Prefix[j]
        BY <3>1, <4>1, <1>5 DEF PrefixInv, PrefixInPlace
      <4> HIDE DEF j
      <4>3. b = buffer[j - 1]
        BY <4>1 DEF At
      <4> QED  BY <4>2, <4>3 DEF j
    <3> HIDE DEF b
    <3>4. /\ Append(got[r], b) \in Seq(Byte) /\ Len(Append(got[r], b)) = Len(got[r]) + 1
          /\ \A i \in 1 .. Len(got[r]) : Append(got[r], b)[i] = got[r][i]
          /\ Append(got[r], b)[Len(got[r]) + 1] = b
      BY <3>2, <1>4
    <3>5. ReaderTypes' /\ OthersStay
      BY <3>1, <3>4 DEF TypeOK
    <3>6. got'[r] = Append(got[r], b)
      BY <3>1 DEF TypeOK
    <3>7. \A i \in 1 .. Len(got[r]) + 1 :
            off[r] + i <= Len(Prefix) => Append(got[r], b)[i] = Prefix[off[r] + i]
      <4> SUFFICES ASSUME NEW i \in 1 .. Len(got[r]) + 1, off[r] + i <= Len(Prefix)
                   PROVE  Append(got[r], b)[i] = Prefix[off[r] + i]
        OBVIOUS
      <4>1. CASE i \in 1 .. Len(got[r])
        BY <4>1, <3>1, <3>4, <1>6
      <4>2. CASE i = Len(got[r]) + 1
        BY <4>2, <3>3, <3>4
      <4> QED  BY <4>1, <4>2, <1>4
    <3> QED  BY <3>1, <3>4, <3>5, <3>6, <3>7, <1>5
  <2>5. CASE CopyFault(r) \/ ReadReturn(r)
    <3>1. /\ rpc' = [rpc EXCEPT ![r] = "idle"] /\ todo' = todo /\ got' = got /\ shrunk' = shrunk
          /\ off' = off \/ off' = [off EXCEPT ![r] = off[r] + todo[r]]
      BY <2>5 DEF CopyFault, ReadReturn
    <3>2. ReaderTypes' /\ OthersStay /\ rpc'[r] = "idle"
      BY <3>1, <1>4 DEF TypeOK
    <3> QED  BY <3>2
  <2>6. CASE Open(r)
    <3>1. /\ rpc[r] = "idle" /\ off' = [off EXCEPT ![r] = 0]
          /\ rpc' = rpc /\ todo' = todo /\ got' = got /\ shrunk' = shrunk
      BY <2>6 DEF Open
    <3>2. ReaderTypes' /\ OthersStay /\ rpc'[r] = "idle"
      BY <3>1 DEF TypeOK
    <3> QED  BY <3>2
  <2> QED  BY <2>1, <2>2, <2>3, <2>4, <2>5, <2>6 DEF ReadStep
<1>8. TypeOK'
  BY <1>3, <1>7 DEF TypeOK
<1>9. LengthInv'
  BY <1>1, <1>7 DEF ReadInv, LengthInv
<1>10. ReadInsideBuffer'
  BY <1>7 DEF ReadInv, ReadInsideBuffer
<1>11. PrefixIsRead'
  <2> SUFFICES ASSUME NEW s \in Reader, rpc'[s] = "copying", NEW i \in 1 .. Len(got'[s]),
                      off'[s] + i <= Len(Prefix)
               PROVE  got'[s][i] = Prefix[off'[s] + i]
    BY DEF PrefixIsRead
  <2>1. CASE s = r
    BY <2>1, <1>7
  <2>2. CASE s # r
    <3>1. rpc[s] = "copying" /\ got'[s] = got[s] /\ off'[s] = off[s]
      BY <2>2, <1>7
    <3> QED  BY <3>1 DEF ReadInv, PrefixIsRead
  <2> QED  BY <2>1, <2>2
<1> QED  BY <1>2, <1>8, <1>9, <1>10, <1>11 DEF ReadInv

(* The inductive invariant.                                                *)
THEOREM Invariance == Spec => []IInv
<1>1. ASSUME IInv, [Next]_vars  PROVE IInv'
  <2>1. CASE UNCHANGED vars
    <3>1. /\ buffer' = buffer /\ data_size' = data_size /\ wpc' = wpc /\ text' = text
          /\ at' = at /\ alone' = alone /\ acked' = acked
          /\ rpc' = rpc /\ off' = off /\ todo' = todo /\ got' = got /\ shrunk' = shrunk
      BY <2>1 DEF vars, shared, writing, reading
    <3>2. TypeOK' /\ TextInv' /\ PrefixInv'
      BY <1>1, <3>1 DEF IInv, TypeOK, TextInv, PrefixInv, PrefixInPlace
    <3>3. AloneInv' /\ AckInv'
      BY <1>1, <3>1 DEF IInv, AloneInv, InPlace, AckInv, AckIsWhole
    <3>4. ReadInv'
      BY <1>1, <3>1 DEF IInv, ReadInv, LengthInv, ReadInsideBuffer, PrefixIsRead
    <3> QED  BY <3>2, <3>3, <3>4 DEF IInv
  <2>2. CASE Next
    BY <1>1, <2>2, WriteInv, StoreByteInv, StoreNulInv, MeasureInv, WriteReturnInv, ReaderInv
       DEF Next, WriteStep
  <2> QED  BY <1>1, <2>1, <2>2
<1> QED  BY InitInv, <1>1, PTL DEF Spec

(* The buffer ends in a NUL whatever the writers do, so that strlen stays  *)
(* in it; and of all races between writes and the three loads of a read    *)
(* only one makes a read leave it: a shorter answer between the first two. *)
THEOREM StaysInBuffer == Spec => [](TypeOK /\ ReadInsideBuffer)
<1>1. IInv => TypeOK /\ ReadInsideBuffer
  BY DEF IInv, ReadInv
<1> QED  BY <1>1, Invariance, PTL

(* However writers race, the answer begins with the prefix, and it is the  *)
(* prefix that a read of it returns.                                       *)
THEOREM PrefixIsKept == Spec => []PrefixStays
<1>1. IInv => PrefixStays
  BY DEF IInv, PrefixInv, ReadInv, PrefixStays
<1> QED  BY <1>1, Invariance, PTL

(* A write that ran alone leaves its whole answer.                         *)
THEOREM LoneWriteIsAnswered == Spec => []AckIsWhole
<1>1. IInv => AckIsWhole
  BY DEF IInv, AckInv
<1> QED  BY <1>1, Invariance, PTL
=============================================================================
