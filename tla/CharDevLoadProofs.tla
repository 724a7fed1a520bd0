------------------------- MODULE CharDevLoadProofs -------------------------
(***************************************************************************)
(* Proofs about loading and unloading the character device modules, for    *)
(* every number of files and of banks.                                     *)
(***************************************************************************)
EXTENDS CharDevLoad, SequenceTheorems, TLAPS

-----------------------------------------------------------------------------
(* The tables of the four drivers are complete.                            *)

LEMMA ResourceType ==
  /\ data \in Resource /\ region \in Resource /\ class \in Resource
  /\ \A i \in Int : cdev(i) \in Resource /\ device(i) \in Resource
  BY DEF data, region, class, cdev, device, Resource

LEMMA MsgDevComplete == Complete(MsgDev)
<1> DEFINE d == MsgDev
<1>1. /\ d.setup = <<data, region, class, device(0), cdev(0)>>
      /\ d.exit = <<cdev(0), device(0), class, region, data>>
      /\ d.checked = 1 .. 5
      /\ d.undo = << <<>>, <<data>>, <<region, data>>, <<class, region, data>>,
                     <<device(0), class, region, data>> >>
  BY DEF MsgDev
<1> HIDE DEF d
<1>2. /\ d.setup \in Seq(Resource) /\ d.exit \in Seq(Resource)
      /\ Len(d.setup) = 5 /\ DOMAIN d.setup = 1 .. 5
  BY <1>1, ResourceType
<1>3. d.undo \in Seq(Seq(Resource)) /\ Len(d.undo) = 5
  BY <1>1, ResourceType
<1>4. Elems(d.exit) = Elems(d.setup)
  BY <1>1 DEF Elems
<1>5. ASSUME NEW i \in 1 .. 5
      PROVE  /\ Elems(d.undo[i]) \subseteq Elems(d.setup)
             /\ \A j \in 1 .. i - 1 : d.setup[j] \in Elems(d.undo[i])
  <2>1. CASE i = 1
    BY <1>1, <2>1 DEF Elems
  <2>2. CASE i = 2
    BY <1>1, <2>2 DEF Elems
  <2>3. CASE i = 3
    BY <1>1, <2>3 DEF Elems
  <2>4. CASE i = 4
    BY <1>1, <2>4 DEF Elems
  <2>5. CASE i = 5
    BY <1>1, <2>5 DEF Elems
  <2> QED
    BY <2>1, <2>2, <2>3, <2>4, <2>5
<1> QED
  BY <1>1, <1>2, <1>3, <1>4, <1>5 DEF Complete, d

LEMMA Usb829Complete == Complete(Usb829)
<1> DEFINE d == Usb829
<1>1. /\ d.setup = <<region, cdev(0), class, device(0)>>
      /\ d.exit = <<device(0), class, cdev(0), region>>
      /\ d.checked = 1 .. 4
      /\ d.undo = << <<>>, <<region>>, <<cdev(0), region>>, <<class, cdev(0), region>> >>
  BY DEF Usb829
<1> HIDE DEF d
<1>2. /\ d.setup \in Seq(Resource) /\ d.exit \in Seq(Resource)
      /\ Len(d.setup) = 4 /\ DOMAIN d.setup = 1 .. 4
  BY <1>1, ResourceType
<1>3. d.undo \in Seq(Seq(Resource)) /\ Len(d.undo) = 4
  BY <1>1, ResourceType
<1>4. Elems(d.exit) = Elems(d.setup)
  BY <1>1 DEF Elems
<1>5. ASSUME NEW i \in 1 .. 4
      PROVE  /\ Elems(d.undo[i]) \subseteq Elems(d.setup)
             /\ \A j \in 1 .. i - 1 : d.setup[j] \in Elems(d.undo[i])
  <2>1. CASE i = 1
    BY <1>1, <2>1 DEF Elems
  <2>2. CASE i = 2
    BY <1>1, <2>2 DEF Elems
  <2>3. CASE i = 3
    BY <1>1, <2>3 DEF Elems
  <2>4. CASE i = 4
    BY <1>1, <2>4 DEF Elems
  <2> QED
    BY <2>1, <2>2, <2>3, <2>4
<1> QED
  BY <1>1, <1>2, <1>3, <1>4, <1>5 DEF Complete, d

LEMMA MutexDevComplete == Complete(MutexDev)
<1> DEFINE d == MutexDev
<1>1. /\ d.setup = <<region, cdev(0), class, device(0)>>
      /\ d.exit = <<device(0), class, cdev(0), region>>
      /\ d.checked = 1 .. 3
      /\ d.undo = << <<>>, <<region>>, <<cdev(0), region>>, <<>> >>
  BY DEF MutexDev
<1> HIDE DEF d
<1>2. /\ d.setup \in Seq(Resource) /\ d.exit \in Seq(Resource)
      /\ Len(d.setup) = 4 /\ DOMAIN d.setup = 1 .. 4
  BY <1>1, ResourceType
<1>3. d.undo \in Seq(Seq(Resource)) /\ Len(d.undo) = 4
  BY <1>1, ResourceType
<1>4. Elems(d.exit) = Elems(d.setup)
  BY <1>1 DEF Elems
<1>5. ASSUME NEW i \in 1 .. 3
      PROVE  /\ Elems(d.undo[i]) \subseteq Elems(d.setup)
             /\ \A j \in 1 .. i - 1 : d.setup[j] \in Elems(d.undo[i])
  <2>1. CASE i = 1
    BY <1>1, <2>1 DEF Elems
  <2>2. CASE i = 2
    BY <1>1, <2>2 DEF Elems
  <2>3. CASE i = 3
    BY <1>1, <2>3 DEF Elems
  <2> QED
    BY <2>1, <2>2, <2>3
<1> QED
  BY <1>1, <1>2, <1>3, <1>4, <1>5 DEF Complete, d

-----------------------------------------------------------------------------
(* The table of eep-mem, for every number of banks.                        *)

LEMMA Halves ==
  /\ \A n \in Int : /\ (2 * n) \div 2 = n /\ (2 * n + 1) \div 2 = n
                    /\ (2 * n) % 2 = 0    /\ (2 * n + 1) % 2 = 1
  /\ \A k \in Int : \/ k = 2 * (k \div 2) /\ k % 2 = 0
                    \/ k = 2 * (k \div 2) + 1 /\ k % 2 = 1
  /\ \A k \in Int : k \div 2 \in Int
  OBVIOUS

LEMMA FunctionAsSeq ==
  ASSUME NEW S, NEW n \in Nat, NEW f \in [1 .. n -> S]
  PROVE  f \in Seq(S) /\ Len(f) = n /\ DOMAIN f = 1 .. n
  BY SeqDef

LEMMA Concat ==
  ASSUME NEW S, NEW s \in Seq(S), NEW t \in Seq(S)
  PROVE  /\ s \o t \in Seq(S) /\ Len(s \o t) = Len(s) + Len(t)
         /\ \A i \in 1 .. Len(s) + Len(t) :
              (s \o t)[i] = IF i <= Len(s) THEN s[i] ELSE t[i - Len(s)]
  BY ConcatProperties

LEMMA ElemsConcat ==
  ASSUME NEW S, NEW s \in Seq(S), NEW t \in Seq(S)
  PROVE  s \o t \in Seq(S) /\ Elems(s \o t) = Elems(s) \cup Elems(t)
<1>1. /\ s \o t \in Seq(S) /\ Len(s \o t) = Len(s) + Len(t)
      /\ \A i \in 1 .. Len(s) + Len(t) :
           (s \o t)[i] = IF i <= Len(s) THEN s[i] ELSE t[i - Len(s)]
  BY Concat
<1>2. /\ DOMAIN s = 1 .. Len(s) /\ DOMAIN t = 1 .. Len(t)
      /\ DOMAIN (s \o t) = 1 .. Len(s) + Len(t) /\ Len(s) \in Nat /\ Len(t) \in Nat
  BY <1>1
<1>3. \A i \in DOMAIN s : i \in DOMAIN (s \o t) /\ (s \o t)[i] = s[i]
  BY <1>1, <1>2
<1>4. \A i \in DOMAIN t : i + Len(s) \in DOMAIN (s \o t) /\ (s \o t)[i + Len(s)] = t[i]
  BY <1>1, <1>2
<1>5. \A i \in DOMAIN (s \o t) : \/ i \in DOMAIN s
                                 \/ i - Len(s) \in DOMAIN t /\ (s \o t)[i] = t[i - Len(s)]
  BY <1>1, <1>2
<1>6. Elems(s \o t) \subseteq Elems(s) \cup Elems(t)
  BY <1>1, <1>2, <1>5 DEF Elems
<1>7. Elems(s) \subseteq Elems(s \o t)
  BY <1>3 DEF Elems
<1>8. Elems(t) \subseteq Elems(s \o t)
  BY <1>4 DEF Elems
<1> QED
  BY <1>1, <1>6, <1>7, <1>8

(* The resources held when i banks are set up.                             *)
Banks(i) == {region, class} \cup {cdev(b) : b \in 0 .. i - 1} \cup {device(b) : b \in 0 .. i - 1}

LEMMA TailOfTable ==
  /\ <<class, region>> \in Seq(Resource) /\ Elems(<<class, region>>) = {region, class}
  /\ \A b \in Int : <<cdev(b)>> \in Seq(Resource) /\ Elems(<<cdev(b)>>) = {cdev(b)}
  BY ResourceType DEF Elems

LEMMA RollbackElems ==
  ASSUME NEW i \in Nat
  PROVE  EepRollback(i) \in Seq(Resource) /\ Elems(EepRollback(i)) = Banks(i)
<1> DEFINE f == [j \in 1 .. 2 * i |-> IF j % 2 = 1 THEN device(i - 1 - (j \div 2))
                                      ELSE cdev(i - (j \div 2))]
<1>1. f \in [1 .. 2 * i -> Resource]
  BY ResourceType, Halves
<1>2. /\ f \in Seq(Resource) /\ DOMAIN f = 1 .. 2 * i
  BY <1>1, FunctionAsSeq
<1>3. \A j \in 1 .. 2 * i :
        \/ \E b \in 0 .. i - 1 : f[j] = cdev(b)
        \/ \E b \in 0 .. i - 1 : f[j] = device(b)
  <2> TAKE j \in 1 .. 2 * i
  <2>1. CASE j % 2 = 1
    <3>1. i - 1 - (j \div 2) \in 0 .. i - 1
      BY <2>1, Halves
    <3> QED
      BY <2>1, <3>1
  <2>2. CASE j % 2 # 1
    <3>1. i - (j \div 2) \in 0 .. i - 1
      BY <2>2, Halves
    <3> QED
      BY <2>2, <3>1
  <2> QED
    BY <2>1, <2>2
<1>4. \A b \in 0 .. i - 1 : /\ \E j \in 1 .. 2 * i : f[j] = cdev(b)
                            /\ \E j \in 1 .. 2 * i : f[j] = device(b)
  <2> TAKE b \in 0 .. i - 1
  <2>1. 2 * (i - b) \in 1 .. 2 * i /\ f[2 * (i - b)] = cdev(b)
    BY Halves
  <2>2. 2 * (i - 1 - b) + 1 \in 1 .. 2 * i /\ f[2 * (i - 1 - b) + 1] = device(b)
    BY Halves
  <2> QED
    BY <2>1, <2>2
<1>5. EepRollback(i) = f \o <<class, region>>
  BY DEF EepRollback
<1> HIDE DEF f
<1>6. Elems(f) = {cdev(b) : b \in 0 .. i - 1} \cup {device(b) : b \in 0 .. i - 1}
  BY <1>2, <1>3, <1>4 DEF Elems
<1>7. /\ EepRollback(i) \in Seq(Resource)
      /\ Elems(EepRollback(i)) = Elems(f) \cup {region, class}
  <2> DEFINE t == <<class, region>>
  <2>1. EepRollback(i) = f \o t /\ t \in Seq(Resource) /\ Elems(t) = {region, class}
    BY <1>5, TailOfTable
  <2> HIDE DEF t
  <2>2. f \o t \in Seq(Resource) /\ Elems(f \o t) = Elems(f) \cup Elems(t)
    BY <1>2, <2>1, ElemsConcat
  <2> QED
    BY <2>1, <2>2
<1> QED
  BY <1>6, <1>7 DEF Banks

LEMMA ExitElems ==
  ASSUME EEP_NBANK \in Nat
  PROVE  Eep.exit \in Seq(Resource) /\ Elems(Eep.exit) = Banks(EEP_NBANK)
<1> DEFINE f == [j \in 1 .. 2 * EEP_NBANK |->
                   IF j % 2 = 1 THEN device(j \div 2) ELSE cdev((j \div 2) - 1)]
<1>1. f \in [1 .. 2 * EEP_NBANK -> Resource]
  BY ResourceType, Halves
<1>2. /\ f \in Seq(Resource) /\ DOMAIN f = 1 .. 2 * EEP_NBANK
  BY <1>1, FunctionAsSeq
<1>3. \A j \in 1 .. 2 * EEP_NBANK :
        \/ \E b \in 0 .. EEP_NBANK - 1 : f[j] = cdev(b)
        \/ \E b \in 0 .. EEP_NBANK - 1 : f[j] = device(b)
  <2> TAKE j \in 1 .. 2 * EEP_NBANK
  <2>1. CASE j % 2 = 1
    <3>1. j \div 2 \in 0 .. EEP_NBANK - 1
      BY <2>1, Halves
    <3> QED
      BY <2>1, <3>1
  <2>2. CASE j % 2 # 1
    <3>1. (j \div 2) - 1 \in 0 .. EEP_NBANK - 1
      BY <2>2, Halves
    <3> QED
      BY <2>2, <3>1
  <2> QED
    BY <2>1, <2>2
<1>4. \A b \in 0 .. EEP_NBANK - 1 : /\ \E j \in 1 .. 2 * EEP_NBANK : f[j] = cdev(b)
                                    /\ \E j \in 1 .. 2 * EEP_NBANK : f[j] = device(b)
  <2> TAKE b \in 0 .. EEP_NBANK - 1
  <2>1. 2 * (b + 1) \in 1 .. 2 * EEP_NBANK /\ f[2 * (b + 1)] = cdev(b)
    BY Halves
  <2>2. 2 * b + 1 \in 1 .. 2 * EEP_NBANK /\ f[2 * b + 1] = device(b)
    BY Halves
  <2> QED
    BY <2>1, <2>2
<1>5. Eep.exit = f \o <<class, region>>
  BY DEF Eep
<1> HIDE DEF f
<1>6. Elems(f) = {cdev(b) : b \in 0 .. EEP_NBANK - 1} \cup {device(b) : b \in 0 .. EEP_NBANK - 1}
  BY <1>2, <1>3, <1>4 DEF Elems
<1>7. /\ Eep.exit \in Seq(Resource)
      /\ Elems(Eep.exit) = Elems(f) \cup {region, class}
  <2> DEFINE t == <<class, region>>
  <2>1. Eep.exit = f \o t /\ t \in Seq(Resource) /\ Elems(t) = {region, class}
    BY <1>5, TailOfTable
  <2> HIDE DEF t
  <2>2. f \o t \in Seq(Resource) /\ Elems(f \o t) = Elems(f) \cup Elems(t)
    BY <1>2, <2>1, ElemsConcat
  <2> QED
    BY <2>1, <2>2
<1> QED
  BY <1>6, <1>7 DEF Banks

LEMMA SetupOfBanks ==
  ASSUME EEP_NBANK \in Nat
  PROVE  /\ EepSetup \in Seq(Resource) /\ Len(EepSetup) = 2 * EEP_NBANK + 2
         /\ DOMAIN EepSetup = 1 .. 2 * EEP_NBANK + 2
         /\ EepSetup[1] = region /\ EepSetup[2] = class
         /\ \A b \in 0 .. EEP_NBANK - 1 : EepSetup[2 * b + 3] = cdev(b)
                                          /\ EepSetup[2 * b + 4] = device(b)
         /\ \A k \in 3 .. 2 * EEP_NBANK + 2 :
              \E b \in 0 .. EEP_NBANK - 1 : k = 2 * b + 3 \/ k = 2 * b + 4
<1>1. \A k \in 3 .. 2 * EEP_NBANK + 2 : EepBank(k) \in Int
  BY Halves DEF EepBank
<1>2. EepSetup \in [1 .. 2 * EEP_NBANK + 2 -> Resource]
  BY <1>1, ResourceType DEF EepSetup
<1>3. \A b \in 0 .. EEP_NBANK - 1 :
        /\ EepBank(2 * b + 3) = b /\ EepBank(2 * b + 4) = b
        /\ (2 * b + 3) % 2 = 1 /\ (2 * b + 4) % 2 = 0
  <2> TAKE b \in 0 .. EEP_NBANK - 1
  <2>1. 2 * b + 3 = 2 * (b + 1) + 1 /\ 2 * b + 4 = 2 * (b + 2)
    OBVIOUS
  <2> QED
    BY <2>1, Halves DEF EepBank
<1>4. ASSUME NEW b \in 0 .. EEP_NBANK - 1
      PROVE  EepSetup[2 * b + 3] = cdev(b) /\ EepSetup[2 * b + 4] = device(b)
  BY <1>3 DEF EepSetup
<1>5. ASSUME NEW k \in 3 .. 2 * EEP_NBANK + 2
      PROVE  \E b \in 0 .. EEP_NBANK - 1 : k = 2 * b + 3 \/ k = 2 * b + 4
  <2>1. EepBank(k) \in 0 .. EEP_NBANK - 1
    BY Halves DEF EepBank
  <2>2. k = 2 * EepBank(k) + 3 \/ k = 2 * EepBank(k) + 4
    BY Halves DEF EepBank
  <2> QED
    BY <2>1, <2>2
<1>6. EepSetup[1] = region /\ EepSetup[2] = class
  BY DEF EepSetup
<1> QED
  BY <1>2, <1>4, <1>5, <1>6, FunctionAsSeq

LEMMA SetupElems ==
  ASSUME EEP_NBANK \in Nat
  PROVE  Elems(EepSetup) = Banks(EEP_NBANK)
<1>1. Elems(EepSetup) \subseteq Banks(EEP_NBANK)
  <2> SUFFICES ASSUME NEW k \in 1 .. 2 * EEP_NBANK + 2
               PROVE  EepSetup[k] \in Banks(EEP_NBANK)
    BY SetupOfBanks DEF Elems
  <2>1. CASE k \in {1, 2}
    BY <2>1, SetupOfBanks DEF Banks
  <2>2. CASE k \in 3 .. 2 * EEP_NBANK + 2
    BY <2>2, SetupOfBanks DEF Banks
  <2> QED
    BY <2>1, <2>2
<1>2. \A b \in 0 .. EEP_NBANK - 1 : cdev(b) \in Elems(EepSetup) /\ device(b) \in Elems(EepSetup)
  <2> TAKE b \in 0 .. EEP_NBANK - 1
  <2>1. 2 * b + 3 \in DOMAIN EepSetup /\ 2 * b + 4 \in DOMAIN EepSetup
    BY SetupOfBanks
  <2> QED
    BY <2>1, SetupOfBanks DEF Elems
<1>3. region \in Elems(EepSetup) /\ class \in Elems(EepSetup)
  BY SetupOfBanks DEF Elems
<1> QED
  BY <1>1, <1>2, <1>3 DEF Banks

(* The rollback of a bank gives back all that was set up before it.        *)
LEMMA SetupBeforeBank ==
  ASSUME EEP_NBANK \in Nat, NEW i \in 0 .. EEP_NBANK - 1, NEW j \in 1 .. 2 * i + 2
  PROVE  EepSetup[j] \in Banks(i)
<1>1. CASE j \in {1, 2}
  BY <1>1, SetupOfBanks DEF Banks
<1>2. CASE j \in 3 .. 2 * i + 2
  <2>0. j \in 3 .. 2 * EEP_NBANK + 2
    BY <1>2
  <2>1. PICK b \in 0 .. EEP_NBANK - 1 : j = 2 * b + 3 \/ j = 2 * b + 4
    BY <2>0, SetupOfBanks
  <2>2. b \in 0 .. i - 1
    BY <1>2, <2>1
  <2> QED
    BY <2>1, <2>2, SetupOfBanks DEF Banks
<1> QED
  BY <1>1, <1>2

LEMMA EepUndo ==
  ASSUME EEP_NBANK \in Nat
  PROVE  /\ Eep.undo \in Seq(Seq(Resource)) /\ Len(Eep.undo) = Len(EepSetup)
         /\ Eep.undo[1] = <<>>
         /\ Eep.undo[2] = <<region>>
         /\ \A b \in 0 .. EEP_NBANK - 1 : Eep.undo[2 * b + 3] = EepRollback(b)
<1> DEFINE u(k) == IF k = 1 THEN <<>>
                   ELSE IF k = 2 THEN <<region>>
                   ELSE IF k % 2 = 1 THEN EepRollback(EepBank(k))
                   ELSE <<cdev(EepBank(k))>> \o EepRollback(EepBank(k))
<1>1. Eep.undo = [k \in 1 .. 2 * EEP_NBANK + 2 |-> u(k)]
  BY SetupOfBanks DEF Eep
<1>2. <<>> \in Seq(Resource) /\ <<region>> \in Seq(Resource)
  BY ResourceType
<1>3. ASSUME NEW k \in 3 .. 2 * EEP_NBANK + 2
      PROVE  u(k) \in Seq(Resource)
  <2> DEFINE b == EepBank(k)
  <2>1. b \in Nat
    BY Halves DEF EepBank
  <2> HIDE DEF b
  <2>2. EepRollback(b) \in Seq(Resource)
    BY <2>1, RollbackElems
  <2>4. <<cdev(b)>> \in Seq(Resource)
    <3>1. cdev(b) \in Resource
      BY <2>1, ResourceType
    <3> QED
      BY <3>1
  <2>3. <<cdev(b)>> \o EepRollback(b) \in Seq(Resource)
    BY <2>2, <2>4, ElemsConcat
  <2> QED
    BY <2>2, <2>3 DEF b
<1>4. \A k \in 1 .. 2 * EEP_NBANK + 2 : u(k) \in Seq(Resource)
  <2> TAKE k \in 1 .. 2 * EEP_NBANK + 2
  <2>1. k = 1 \/ k = 2 \/ k \in 3 .. 2 * EEP_NBANK + 2
    OBVIOUS
  <2>2. CASE k = 1
    BY <2>2, <1>2
  <2>3. CASE k = 2
    BY <2>3, <1>2
  <2> HIDE DEF u
  <2> QED
    BY <2>1, <2>2, <2>3, <1>3
<1>5. u(1) = <<>> /\ u(2) = <<region>>
  OBVIOUS
<1>6. ASSUME NEW b \in 0 .. EEP_NBANK - 1
      PROVE  u(2 * b + 3) = EepRollback(b)
  <2>1. 2 * b + 3 = 2 * (b + 1) + 1
    OBVIOUS
  <2>2. (2 * b + 3) % 2 = 1 /\ EepBank(2 * b + 3) = b
    BY <2>1, Halves DEF EepBank
  <2> QED
    BY <2>2
<1> HIDE DEF u
<1>7. Eep.undo \in [1 .. 2 * EEP_NBANK + 2 -> Seq(Resource)]
  BY <1>1, <1>4
<1>8. Eep.undo \in Seq(Seq(Resource)) /\ Len(Eep.undo) = 2 * EEP_NBANK + 2
  <2>1. 2 * EEP_NBANK + 2 \in Nat
    OBVIOUS
  <2> QED
    BY <1>7, <2>1, FunctionAsSeq
<1>9. /\ 1 \in 1 .. 2 * EEP_NBANK + 2 /\ 2 \in 1 .. 2 * EEP_NBANK + 2
      /\ \A b \in 0 .. EEP_NBANK - 1 : 2 * b + 3 \in 1 .. 2 * EEP_NBANK + 2
  OBVIOUS
<1> QED
  BY <1>1, <1>5, <1>6, <1>8, <1>9, SetupOfBanks

LEMMA EepComplete ==
  ASSUME EEP_NBANK \in Nat
  PROVE  Complete(Eep)
<1>1. Eep.setup = EepSetup /\ Eep.checked = {1, 2} \cup {2 * i + 3 : i \in 0 .. EEP_NBANK - 1}
  BY DEF Eep
<1>2. Eep.checked \subseteq DOMAIN EepSetup
  BY <1>1, SetupOfBanks
<1>3. ASSUME NEW i \in Eep.checked
      PROVE  /\ Elems(Eep.undo[i]) \subseteq Banks(EEP_NBANK)
             /\ \A j \in 1 .. i - 1 : EepSetup[j] \in Elems(Eep.undo[i])
  <2>1. CASE i = 1
    BY <2>1, EepUndo DEF Elems
  <2>2. CASE i = 2
    <3>1. Eep.undo[i] = <<region>> /\ Elems(<<region>>) = {region}
      BY <2>2, EepUndo DEF Elems
    <3> QED
      BY <2>2, <3>1, SetupOfBanks DEF Banks
  <2>3. ASSUME NEW b \in 0 .. EEP_NBANK - 1, i = 2 * b + 3
        PROVE  /\ Elems(Eep.undo[i]) \subseteq Banks(EEP_NBANK)
               /\ \A j \in 1 .. i - 1 : EepSetup[j] \in Elems(Eep.undo[i])
    <3>1. Elems(Eep.undo[i]) = Banks(b)
      <4>1. Eep.undo[i] = EepRollback(b) /\ b \in Nat
        BY <2>3, EepUndo
      <4> QED
        BY <4>1, RollbackElems
    <3>2. Banks(b) \subseteq Banks(EEP_NBANK)
      BY DEF Banks
    <3>3. \A j \in 1 .. i - 1 : EepSetup[j] \in Banks(b)
      BY <2>3, SetupBeforeBank
    <3> QED
      BY <3>1, <3>2, <3>3
  <2> QED
    BY <1>1, <2>1, <2>2, <2>3
<1> QED
  BY <1>1, <1>2, <1>3, SetupOfBanks, SetupElems, ExitElems, EepUndo DEF Complete

-----------------------------------------------------------------------------
(* Loading and unloading.                                                  *)

(* What is held is covered: by the steps taken so far while init runs, by  *)
(* what is still to be released once it or the exit function gives back.   *)
HeldInv ==
  /\ state = "absent" => held = {}
  /\ state = "coming" => \A r \in held : \E j \in 1 .. step - 1 : r = drv.setup[j]
  /\ state \in {"undoing", "going"} => held \subseteq Elems(todo)

Inv == TypeOK /\ HeldInv

TableOK == \A d \in Drivers : Complete(d)

LEMMA PopOne ==
  ASSUME NEW s \in Seq(Resource), s # <<>>
  PROVE  /\ Tail(s) \in Seq(Resource)
         /\ Elems(s) \subseteq {Head(s)} \cup Elems(Tail(s))
         /\ Elems(Tail(s)) \subseteq Elems(s)
<1>1. /\ Tail(s) \in Seq(Resource) /\ Len(Tail(s)) = Len(s) - 1 /\ Head(s) = s[1]
      /\ Len(s) \in Nat /\ Len(s) >= 1
      /\ DOMAIN s = 1 .. Len(s) /\ DOMAIN Tail(s) = 1 .. Len(s) - 1
      /\ \A i \in 1 .. Len(s) - 1 : Tail(s)[i] = s[i + 1]
  OBVIOUS
<1>2. \A i \in DOMAIN s : i = 1 \/ (i - 1 \in DOMAIN Tail(s) /\ s[i] = Tail(s)[i - 1])
  BY <1>1
<1>3. \A i \in DOMAIN Tail(s) : i + 1 \in DOMAIN s /\ s[i + 1] = Tail(s)[i]
  BY <1>1
<1>4. Elems(s) \subseteq {Head(s)} \cup Elems(Tail(s))
  <2> SUFFICES ASSUME NEW i \in DOMAIN s, i # 1
               PROVE  s[i] \in Elems(Tail(s))
    BY <1>1 DEF Elems
  <2> QED
    BY <1>2 DEF Elems
<1>5. Elems(Tail(s)) \subseteq Elems(s)
  BY <1>3 DEF Elems
<1> QED
  BY <1>1, <1>4, <1>5

LEMMA InitInv == TableOK /\ Init => Inv
<1> SUFFICES ASSUME TableOK, Init PROVE Inv
  OBVIOUS
<1>1. drv \in Drivers /\ drv.setup \in Seq(Resource)
  BY DEF TableOK, Complete, Init
<1>2. TypeOK
  BY <1>1 DEF Init, TypeOK, Elems
<1> QED
  BY <1>2 DEF Init, HeldInv, Inv

LEMMA NextInv == TableOK /\ Inv /\ [Next]_vars => Inv'
<1> SUFFICES ASSUME TableOK, Inv, [Next]_vars PROVE Inv'
  OBVIOUS
<1> USE DEF Inv
<1>0. /\ Complete(drv)
      /\ drv.setup \in Seq(Resource) /\ Len(drv.setup) \in Nat
      /\ DOMAIN drv.setup = 1 .. Len(drv.setup)
      /\ step \in Int
  <2>1. Complete(drv)
    BY DEF TableOK, TypeOK
  <2>2. drv.setup \in Seq(Resource)
    BY <2>1 DEF Complete
  <2>3. Len(drv.setup) \in Nat /\ DOMAIN drv.setup = 1 .. Len(drv.setup)
    BY <2>2
  <2>4. step \in Int
    BY <2>3 DEF TypeOK
  <2> QED
    BY <2>1, <2>2, <2>3, <2>4
<1>1. CASE Insmod
  <2>1. 1 \in 1 .. Len(drv.setup) + 1
    BY <1>0
  <2> QED
    BY <1>1, <2>1 DEF Insmod, TypeOK, HeldInv
<1>2. CASE SetupOk
  <2>1. step \in 1 .. Len(drv.setup) /\ drv.setup[step] \in Elems(drv.setup)
    BY <1>0, <1>2 DEF SetupOk, Elems
  <2>2. TypeOK'
    BY <1>0, <1>2, <2>1 DEF SetupOk, TypeOK
  <2>3. HeldInv'
    <3>1. ASSUME NEW r \in held' PROVE \E j \in 1 .. step' - 1 : r = drv.setup[j]
      <4>1. CASE r = drv.setup[step]
        BY <4>1, <1>0, <1>2, <2>1 DEF SetupOk
      <4>2. CASE r \in held
        BY <4>2, <1>0, <1>2, <2>1 DEF SetupOk, HeldInv
      <4> QED
        BY <4>1, <4>2, <1>2 DEF SetupOk
    <3> QED
      BY <3>1, <1>2 DEF SetupOk, HeldInv
  <2> QED
    BY <2>2, <2>3
<1>3. CASE SetupFails
  <2>1. /\ drv.undo \in Seq(Seq(Resource)) /\ step \in DOMAIN drv.undo
        /\ \A j \in 1 .. step - 1 : drv.setup[j] \in Elems(drv.undo[step])
    BY <1>0, <1>3 DEF SetupFails, Complete
  <2>2. drv.undo[step] \in Seq(Resource)
    BY <2>1
  <2>3. held \subseteq Elems(drv.undo[step])
    BY <2>1, <1>3 DEF SetupFails, HeldInv
  <2> QED
    BY <1>3, <2>2, <2>3 DEF SetupFails, TypeOK, HeldInv
<1>4. CASE SetupFailsUnnoticed
  <2>1. step \in 1 .. Len(drv.setup) /\ step' = step + 1
    BY <1>0, <1>4 DEF SetupFailsUnnoticed
  <2>2. TypeOK'
    BY <1>0, <1>4, <2>1 DEF SetupFailsUnnoticed, TypeOK
  <2>3. \A r \in held : \E j \in 1 .. step' - 1 : r = drv.setup[j]
    BY <1>4, <2>1 DEF SetupFailsUnnoticed, HeldInv
  <2> QED
    BY <1>4, <2>2, <2>3 DEF SetupFailsUnnoticed, HeldInv
<1>5. CASE SetupDone
  BY <1>5 DEF SetupDone, TypeOK, HeldInv
<1>6. CASE Rmmod
  <2>1. drv.exit \in Seq(Resource) /\ held \subseteq Elems(drv.exit)
    BY <1>0 DEF Complete, TypeOK
  <2> QED
    BY <1>6, <2>1 DEF Rmmod, TypeOK, HeldInv
<1>7. CASE Release
  <2>1. /\ Tail(todo) \in Seq(Resource)
        /\ Elems(todo) \subseteq {Head(todo)} \cup Elems(Tail(todo))
    BY <1>7, PopOne DEF Release, TypeOK
  <2>2. held' \subseteq Elems(todo')
    BY <1>7, <2>1 DEF Release, HeldInv
  <2> QED
    BY <1>7, <2>1, <2>2 DEF Release, TypeOK, HeldInv
<1>8. CASE Freed
  <2>1. held = {}
    BY <1>8 DEF Freed, HeldInv, Elems
  <2> QED
    BY <1>8, <2>1 DEF Freed, TypeOK, HeldInv
<1>9. ASSUME NEW f \in File, Open(f) PROVE Inv'
  BY <1>9 DEF Open, TypeOK, HeldInv
<1>10. ASSUME NEW f \in File, Close(f) PROVE Inv'
  BY <1>10 DEF Close, TypeOK, HeldInv
<1>11. CASE UNCHANGED vars
  BY <1>11 DEF vars, TypeOK, HeldInv
<1> QED
  BY <1>1, <1>2, <1>3, <1>4, <1>5, <1>6, <1>7, <1>8, <1>9, <1>10, <1>11 DEF Next

(* Whichever step of its init fails, and after rmmod, a driver whose table *)
(* is complete has left nothing behind.                                    *)
THEOREM CompleteTableDoesNotLeak == TableOK /\ Spec => []NoLeak
<1> SUFFICES ASSUME TableOK PROVE Spec => []NoLeak
  OBVIOUS
<1>1. Init => Inv
  BY InitInv
<1>2. Inv /\ [Next]_vars => Inv'
  BY NextInv
<1>3. Inv => NoLeak
  BY DEF Inv, HeldInv, NoLeak
<1> QED
  BY <1>1, <1>2, <1>3, PTL DEF Spec

ModelledDrivers == Drivers \subseteq {MsgDev, Usb829, MutexDev, Eep} /\ EEP_NBANK \in Nat

LEMMA ModelledTables == ModelledDrivers => TableOK
  BY MsgDevComplete, Usb829Complete, MutexDevComplete, EepComplete DEF ModelledDrivers, TableOK

(* The four drivers leave nothing behind, for every number of banks.       *)
THEOREM DriversDoNotLeak == ModelledDrivers /\ Spec => []NoLeak
  BY ModelledTables, CompleteTableDoesNotLeak, PTL

(* The type invariant: no step of init or of a rollback leaves its table.  *)
THEOREM TypeCorrect == ModelledDrivers /\ Spec => []TypeOK
<1> SUFFICES ASSUME ModelledDrivers PROVE Spec => []TypeOK
  OBVIOUS
<1>1. TableOK
  BY ModelledTables
<1>2. Init => Inv
  BY <1>1, InitInv
<1>3. Inv /\ [Next]_vars => Inv'
  BY <1>1, NextInv
<1>4. Inv => TypeOK
  BY DEF Inv
<1> QED
  BY <1>2, <1>3, <1>4, PTL DEF Spec

-----------------------------------------------------------------------------
(* The order of releases.                                                  *)

(* What has certainly been acquired: the steps that were checked.          *)
OrderInv ==
  /\ state \in {"coming", "live"} =>
       \A j \in drv.checked : (state = "live" \/ j < step) => drv.setup[j] \in held
  /\ state \in {"undoing", "going"} => SafeOrder(drv, todo)
  /\ state \notin {"undoing", "going"} => todo = <<>>
  /\ ReleasesWhatItHolds
  /\ Backed

AllOrdered == TableOK /\ \A d \in Drivers : Ordered(d)

LEMMA NextOrderInv ==
  ASSUME AllOrdered, Inv, OrderInv, [Next]_vars
  PROVE  OrderInv'
<1>0. /\ Complete(drv) /\ Ordered(drv)
      /\ drv.setup \in Seq(Resource) /\ Len(drv.setup) \in Nat
      /\ DOMAIN drv.setup = 1 .. Len(drv.setup)
      /\ drv.checked \subseteq 1 .. Len(drv.setup)
      /\ step \in Int /\ todo \in Seq(Resource)
  <2>1. Complete(drv) /\ Ordered(drv)
    BY DEF AllOrdered, TableOK, Inv, TypeOK
  <2>2. drv.setup \in Seq(Resource) /\ drv.checked \subseteq DOMAIN drv.setup
    BY <2>1 DEF Complete
  <2>3. Len(drv.setup) \in Nat /\ DOMAIN drv.setup = 1 .. Len(drv.setup)
    BY <2>2
  <2>4. step \in Int /\ todo \in Seq(Resource)
    BY <2>3 DEF Inv, TypeOK
  <2> QED
    BY <2>1, <2>2, <2>3, <2>4
<1> DEFINE Unsure(d) == {d.setup[i] : i \in DOMAIN d.setup \ d.checked}
<1>a. /\ Elems(<<>>) = {} /\ DOMAIN <<>> = {}
  BY DEF Elems
<1>1. CASE Insmod
  <2>1. held = {} /\ held' = {} /\ todo' = <<>> /\ drv' = drv /\ step' = 1 /\ state' = "coming"
    BY <1>1 DEF Insmod, Inv, HeldInv, OrderInv
  <2> QED
    BY <1>0, <1>a, <2>1 DEF OrderInv, ReleasesWhatItHolds, Backed
<1>2. CASE SetupOk
  <2>1. /\ step \in 1 .. Len(drv.setup) /\ step' = step + 1 /\ state = "coming" /\ state' = "coming"
        /\ held' = held \cup {drv.setup[step]} /\ todo' = todo /\ todo = <<>> /\ drv' = drv
    BY <1>0, <1>2 DEF SetupOk, OrderInv
  <2>2. \A j \in drv.checked : j < step' => drv.setup[j] \in held'
    BY <1>0, <2>1 DEF OrderInv
  <2>3. Needs(drv, drv.setup[step]) \subseteq held
    <3>1. Needs(drv, drv.setup[step]) \subseteq {drv.setup[j] : j \in drv.checked \cap (1 .. step - 1)}
      BY <1>0, <2>1 DEF Ordered
    <3> QED
      BY <1>0, <2>1, <3>1 DEF OrderInv
  <2>4. Backed'
    BY <2>1, <2>3 DEF OrderInv, Backed
  <2>5. ReleasesWhatItHolds'
    BY <1>a, <2>1 DEF ReleasesWhatItHolds
  <2> QED
    BY <2>1, <2>2, <2>4, <2>5 DEF OrderInv
<1>3. CASE SetupFails
  <2>1. /\ step \in drv.checked /\ state = "coming" /\ state' = "undoing" /\ held' = held
        /\ todo' = drv.undo[step] /\ drv' = drv
    BY <1>3 DEF SetupFails
  <2>2. SafeOrder(drv, todo')
    BY <1>0, <2>1 DEF Ordered
  <2>3. ReleasesWhatItHolds'
    <3>1. Elems(todo') \subseteq {drv.setup[j] : j \in 1 .. step - 1}
      BY <1>0, <2>1 DEF Ordered
    <3>2. \A j \in 1 .. step - 1 : drv.setup[j] \in held \cup Unsure(drv)
      BY <1>0, <2>1 DEF OrderInv
    <3>3. Elems(todo') \subseteq held' \cup Unsure(drv')
      BY <2>1, <3>1, <3>2
    <3> QED
      BY <2>1, <2>2, <3>3 DEF SafeOrder, ReleasesWhatItHolds
  <2> QED
    BY <2>1, <2>2, <2>3 DEF OrderInv, Backed
<1>4. CASE SetupFailsUnnoticed
  <2>1. /\ step \notin drv.checked /\ step' = step + 1 /\ state = "coming" /\ state' = "coming"
        /\ UNCHANGED <<drv, held, todo>>
    BY <1>4 DEF SetupFailsUnnoticed
  <2>2. \A j \in drv.checked : j < step' => j < step
    BY <1>0, <2>1
  <2> QED
    BY <2>1, <2>2 DEF OrderInv, ReleasesWhatItHolds, Backed
<1>5. CASE SetupDone
  <2>1. \A j \in drv.checked : j < step
    BY <1>0, <1>5 DEF SetupDone
  <2> QED
    BY <1>5, <2>1 DEF SetupDone, OrderInv, ReleasesWhatItHolds, Backed
<1>6. CASE Rmmod
  <2>1. state = "live" /\ state' = "going" /\ todo' = drv.exit /\ held' = held /\ drv' = drv
    BY <1>6 DEF Rmmod
  <2>2. SafeOrder(drv, todo')
    BY <1>0, <2>1 DEF Ordered
  <2>3. ReleasesWhatItHolds'
    <3>1. Elems(todo') \subseteq Elems(drv.setup)
      BY <1>0, <2>1 DEF Complete
    <3>2. \A j \in DOMAIN drv.setup : drv.setup[j] \in held \cup Unsure(drv)
      BY <2>1 DEF OrderInv
    <3>3. Elems(todo') \subseteq held' \cup Unsure(drv')
      BY <2>1, <3>1, <3>2 DEF Elems
    <3> QED
      BY <2>1, <2>2, <3>3 DEF SafeOrder, ReleasesWhatItHolds
  <2> QED
    BY <2>1, <2>2, <2>3 DEF OrderInv, Backed
<1>7. CASE Release
  <2>0. /\ state \in {"undoing", "going"} /\ state' = state /\ todo # <<>> /\ drv' = drv
        /\ held' = held \ {Head(todo)} /\ todo' = Tail(todo)
    BY <1>7 DEF Release
  <2>1. /\ Len(todo) \in Nat /\ DOMAIN todo = 1 .. Len(todo) /\ 1 \in DOMAIN todo /\ Head(todo) = todo[1]
        /\ DOMAIN todo' = 1 .. Len(todo) - 1
        /\ \A i \in DOMAIN todo' : i + 1 \in DOMAIN todo /\ todo'[i] = todo[i + 1]
    BY <1>0, <2>0
  <2>2. SafeOrder(drv, todo)
    BY <2>0 DEF OrderInv
  <2>3. SafeOrder(drv, todo')
    <3>1. ASSUME NEW i \in DOMAIN todo', NEW j \in DOMAIN todo', todo'[i] \in Needs(drv, todo'[j])
          PROVE  j < i
      <4>1. j + 1 < i + 1
        BY <2>1, <2>2, <3>1 DEF SafeOrder
      <4> QED
        BY <2>1, <4>1
    <3>2. ASSUME NEW i \in DOMAIN todo', NEW j \in DOMAIN todo', i # j
          PROVE  todo'[i] # todo'[j]
      <4>1. i + 1 # j + 1
        BY <2>1, <3>2
      <4> QED
        BY <2>1, <2>2, <4>1 DEF SafeOrder
    <3> QED
      BY <3>1, <3>2 DEF SafeOrder
  <2>4. \A i \in DOMAIN todo' : todo'[i] # Head(todo)
    <3> TAKE i \in DOMAIN todo'
    <3>1. i + 1 # 1
      BY <2>1
    <3> QED
      BY <2>1, <2>2, <3>1 DEF SafeOrder
  <2>5. ReleasesWhatItHolds'
    <3>1. \A i \in DOMAIN todo' : todo'[i] \in held \cup Unsure(drv)
      BY <2>1 DEF OrderInv, ReleasesWhatItHolds, Elems
    <3>2. Elems(todo') \subseteq held' \cup Unsure(drv')
      BY <2>0, <2>4, <3>1 DEF Elems
    <3> QED
      BY <2>0, <2>3, <3>2 DEF SafeOrder, ReleasesWhatItHolds
  <2>6. Backed'
    <3> SUFFICES ASSUME NEW r \in held' PROVE Needs(drv, r) \subseteq held'
      BY <2>0 DEF Backed
    <3>1. PICK j \in DOMAIN todo : r = todo[j]
      BY <2>0 DEF Inv, HeldInv, Elems
    <3>2. Head(todo) \notin Needs(drv, r)
      BY <2>0, <2>1, <2>2, <3>1 DEF SafeOrder
    <3>3. Needs(drv, r) \subseteq held
      BY <2>0 DEF OrderInv, Backed
    <3> QED
      BY <2>0, <3>2, <3>3
  <2> QED
    BY <2>0, <2>3, <2>5, <2>6 DEF OrderInv
<1>8. CASE Freed
  BY <1>8 DEF Freed, OrderInv, ReleasesWhatItHolds, Backed
<1>9. ASSUME NEW f \in File, Open(f) \/ Close(f) PROVE OrderInv'
  BY <1>9 DEF Open, Close, OrderInv, ReleasesWhatItHolds, Backed
<1>10. CASE UNCHANGED vars
  BY <1>10 DEF vars, OrderInv, ReleasesWhatItHolds, Backed
<1> QED
  BY <1>1, <1>2, <1>3, <1>4, <1>5, <1>6, <1>7, <1>8, <1>9, <1>10 DEF Next

(* The tables are ordered.                                                 *)
LEMMA Kinds ==
  /\ data[1] = "data" /\ region[1] = "region" /\ class[1] = "class"
  /\ \A i : cdev(i)[1] = "cdev" /\ device(i)[1] = "device"
  /\ data # region /\ data # class /\ region # class
  /\ \A i : /\ cdev(i) \notin {data, region, class} /\ device(i) \notin {data, region, class}
            /\ \A j : cdev(i) # device(j)
  /\ \A i, j : (cdev(i) = cdev(j) => i = j) /\ (device(i) = device(j) => i = j)
  BY DEF data, region, class, cdev, device

LEMMA NeedsOf ==
  ASSUME NEW d
  PROVE  /\ Needs(d, data) = {} /\ Needs(d, region) = {} /\ Needs(d, class) = {}
         /\ \A i : /\ Needs(d, device(i)) = {region, class}
                   /\ Needs(d, cdev(i)) = {region, data} \cap Elems(d.setup)
  BY Kinds DEF Needs

LEMMA MsgDevOrdered == Ordered(MsgDev)
<1> DEFINE d == MsgDev
<1>1. /\ d.setup = <<data, region, class, device(0), cdev(0)>>
      /\ d.exit = <<cdev(0), device(0), class, region, data>>
      /\ d.checked = 1 .. 5
      /\ d.undo = << <<>>, <<data>>, <<region, data>>, <<class, region, data>>,
                     <<device(0), class, region, data>> >>
  BY DEF MsgDev
<1> HIDE DEF d
<1>2. Needs(d, cdev(0)) = {region, data} /\ Needs(d, device(0)) = {region, class}
      /\ Needs(d, data) = {} /\ Needs(d, region) = {} /\ Needs(d, class) = {}
  BY <1>1, NeedsOf DEF Elems
<1>3. SafeOrder(d, d.exit)
  BY <1>1, <1>2, Kinds DEF SafeOrder
<1>4. ASSUME NEW i \in 1 .. 5
      PROVE  /\ SafeOrder(d, d.undo[i])
             /\ Elems(d.undo[i]) \subseteq {d.setup[j] : j \in 1 .. i - 1}
             /\ Needs(d, d.setup[i]) \subseteq {d.setup[j] : j \in d.checked \cap (1 .. i - 1)}
  <2>1. CASE i = 1
    BY <1>1, <1>2, <2>1, Kinds DEF SafeOrder, Elems
  <2>2. CASE i = 2
    BY <1>1, <1>2, <2>2, Kinds DEF SafeOrder, Elems
  <2>3. CASE i = 3
    BY <1>1, <1>2, <2>3, Kinds DEF SafeOrder, Elems
  <2>4. CASE i = 4
    BY <1>1, <1>2, <2>4, Kinds DEF SafeOrder, Elems
  <2>5. CASE i = 5
    BY <1>1, <1>2, <2>5, Kinds DEF SafeOrder, Elems
  <2> QED
    BY <2>1, <2>2, <2>3, <2>4, <2>5
<1>5. DOMAIN d.setup = 1 .. 5
  BY <1>1
<1> QED
  BY <1>1, <1>3, <1>4, <1>5 DEF Ordered, d

LEMMA Usb829Ordered == Ordered(Usb829)
<1> DEFINE d == Usb829
<1>1. /\ d.setup = <<region, cdev(0), class, device(0)>>
      /\ d.exit = <<device(0), class, cdev(0), region>>
      /\ d.checked = 1 .. 4
      /\ d.undo = << <<>>, <<region>>, <<cdev(0), region>>, <<class, cdev(0), region>> >>
  BY DEF Usb829
<1> HIDE DEF d
<1>2. Needs(d, cdev(0)) = {region} /\ Needs(d, device(0)) = {region, class}
      /\ Needs(d, region) = {} /\ Needs(d, class) = {}
  BY <1>1, NeedsOf, Kinds DEF Elems
<1>3. SafeOrder(d, d.exit)
  BY <1>1, <1>2, Kinds DEF SafeOrder
<1>4. ASSUME NEW i \in 1 .. 4
      PROVE  /\ SafeOrder(d, d.undo[i])
             /\ Elems(d.undo[i]) \subseteq {d.setup[j] : j \in 1 .. i - 1}
             /\ Needs(d, d.setup[i]) \subseteq {d.setup[j] : j \in d.checked \cap (1 .. i - 1)}
  <2>1. CASE i = 1
    BY <1>1, <1>2, <2>1, Kinds DEF SafeOrder, Elems
  <2>2. CASE i = 2
    BY <1>1, <1>2, <2>2, Kinds DEF SafeOrder, Elems
  <2>3. CASE i = 3
    BY <1>1, <1>2, <2>3, Kinds DEF SafeOrder, Elems
  <2>4. CASE i = 4
    BY <1>1, <1>2, <2>4, Kinds DEF SafeOrder, Elems
  <2> QED
    BY <2>1, <2>2, <2>3, <2>4
<1>5. DOMAIN d.setup = 1 .. 4
  BY <1>1
<1> QED
  BY <1>1, <1>3, <1>4, <1>5 DEF Ordered, d

LEMMA MutexDevOrdered == Ordered(MutexDev)
<1> DEFINE d == MutexDev
<1>1. /\ d.setup = <<region, cdev(0), class, device(0)>>
      /\ d.exit = <<device(0), class, cdev(0), region>>
      /\ d.checked = 1 .. 3
      /\ d.undo = << <<>>, <<region>>, <<cdev(0), region>>, <<>> >>
  BY DEF MutexDev
<1> HIDE DEF d
<1>2. Needs(d, cdev(0)) = {region} /\ Needs(d, device(0)) = {region, class}
      /\ Needs(d, region) = {} /\ Needs(d, class) = {}
  BY <1>1, NeedsOf, Kinds DEF Elems
<1>3. SafeOrder(d, d.exit)
  BY <1>1, <1>2, Kinds DEF SafeOrder
<1>4. ASSUME NEW i \in 1 .. 3
      PROVE  /\ SafeOrder(d, d.undo[i])
             /\ Elems(d.undo[i]) \subseteq {d.setup[j] : j \in 1 .. i - 1}
  <2>1. CASE i = 1
    BY <1>1, <1>2, <2>1, Kinds DEF SafeOrder, Elems
  <2>2. CASE i = 2
    BY <1>1, <1>2, <2>2, Kinds DEF SafeOrder, Elems
  <2>3. CASE i = 3
    BY <1>1, <1>2, <2>3, Kinds DEF SafeOrder, Elems
  <2> QED
    BY <2>1, <2>2, <2>3
<1>5. ASSUME NEW i \in 1 .. 4
      PROVE  Needs(d, d.setup[i]) \subseteq {d.setup[j] : j \in d.checked \cap (1 .. i - 1)}
  BY <1>1, <1>2, <1>5
<1>6. DOMAIN d.setup = 1 .. 4
  BY <1>1
<1> QED
  BY <1>1, <1>3, <1>4, <1>5, <1>6 DEF Ordered, d

(* A list that ends with the class and the region, after banks that do not *)
(* repeat.                                                                 *)
LEMMA BanksThenClass ==
  ASSUME NEW d, NEW n \in Nat, NEW f \in Seq(Resource), Len(f) = n,
         \A j \in 1 .. n : \E b \in Int : f[j] = cdev(b) \/ f[j] = device(b),
         \A j, k \in 1 .. n : j # k => f[j] # f[k],
         data \notin Elems(d.setup)
  PROVE  SafeOrder(d, f \o <<class, region>>)
<1> DEFINE t == <<class, region>>
           s == f \o t
<1>1. t \in Seq(Resource) /\ Len(t) = 2 /\ t[1] = class /\ t[2] = region
  BY ResourceType
<1> HIDE DEF t
<1>2. /\ DOMAIN s = 1 .. n + 2
      /\ \A j \in 1 .. n : s[j] = f[j]
      /\ s[n + 1] = class /\ s[n + 2] = region
  <2>0. /\ f \o t \in Seq(Resource) /\ Len(f \o t) = Len(f) + Len(t)
        /\ \A i \in 1 .. Len(f) + Len(t) :
             (f \o t)[i] = IF i <= Len(f) THEN f[i] ELSE t[i - Len(f)]
    BY <1>1, Concat
  <2>1. /\ s \in Seq(Resource) /\ Len(s) = n + 2
        /\ \A i \in 1 .. n + 2 : s[i] = IF i <= n THEN f[i] ELSE t[i - n]
    BY <1>1, <2>0
  <2> QED
    BY <1>1, <2>1
<1> HIDE DEF s
<1>3. \A j \in 1 .. n + 2 : j \in 1 .. n \/ j = n + 1 \/ j = n + 2
  OBVIOUS
<1>4. \A j \in 1 .. n : s[j] \notin {class, region, data}
  BY <1>2, Kinds
<1>5. \A i, j \in 1 .. n + 2 : i # j => s[i] # s[j]
  <2>1. \A i, j \in 1 .. n : i # j => s[i] # s[j]
    BY <1>2
  <2> QED
    BY <1>2, <1>3, <1>4, <2>1, Kinds
<1>6. ASSUME NEW i \in 1 .. n + 2, NEW j \in 1 .. n + 2, s[i] \in Needs(d, s[j])
      PROVE  j < i
  <2>1. j \in 1 .. n
    BY <1>2, <1>3, <1>6, NeedsOf
  <2>2. Needs(d, s[j]) \subseteq {region, class}
    BY <1>2, <2>1, NeedsOf
  <2>3. i \notin 1 .. n
    BY <1>4, <1>6, <2>2
  <2> QED
    BY <2>1, <2>3
<1> QED
  BY <1>2, <1>5, <1>6 DEF SafeOrder, s, t

LEMMA EepHasNoData ==
  ASSUME EEP_NBANK \in Nat
  PROVE  data \notin Elems(Eep.setup)
<1>1. Elems(Eep.setup) = Banks(EEP_NBANK)
  BY SetupElems DEF Eep
<1> QED
  BY <1>1, Kinds DEF Banks

LEMMA RollbackOrdered ==
  ASSUME EEP_NBANK \in Nat, NEW i \in Nat
  PROVE  SafeOrder(Eep, EepRollback(i))
<1> DEFINE f == [j \in 1 .. 2 * i |-> IF j % 2 = 1 THEN device(i - 1 - (j \div 2))
                                      ELSE cdev(i - (j \div 2))]
<1>1. f \in [1 .. 2 * i -> Resource]
  BY ResourceType, Halves
<1>2. f \in Seq(Resource) /\ Len(f) = 2 * i /\ 2 * i \in Nat
  BY <1>1, FunctionAsSeq
<1>3. \A j \in 1 .. 2 * i : \E b \in Int : f[j] = cdev(b) \/ f[j] = device(b)
  <2> TAKE j \in 1 .. 2 * i
  <2>1. i - 1 - (j \div 2) \in Int /\ i - (j \div 2) \in Int
    BY Halves
  <2> QED
    BY <2>1
<1>4. ASSUME NEW j \in 1 .. 2 * i, NEW k \in 1 .. 2 * i, f[j] = f[k]
      PROVE  j = k
  <2>1. j % 2 = k % 2
    BY <1>4, Kinds, Halves
  <2>2. j \div 2 \in Int /\ k \div 2 \in Int
    BY Halves
  <2>3. CASE j % 2 = 1
    <3>1. i - 1 - (j \div 2) = i - 1 - (k \div 2)
      BY <1>4, <2>1, <2>3, Kinds
    <3>2. j \div 2 = k \div 2
      BY <2>2, <3>1
    <3> QED
      BY <2>1, <3>2, Halves
  <2>4. CASE j % 2 # 1
    <3>1. i - (j \div 2) = i - (k \div 2)
      BY <1>4, <2>1, <2>4, Kinds
    <3>2. j \div 2 = k \div 2
      BY <2>2, <3>1
    <3> QED
      BY <2>1, <3>2, Halves
  <2> QED
    BY <2>3, <2>4
<1>5. EepRollback(i) = f \o <<class, region>>
  BY DEF EepRollback
<1> HIDE DEF f
<1>6. data \notin Elems(Eep.setup)
  BY EepHasNoData
<1>7. SafeOrder(Eep, f \o <<class, region>>)
  BY <1>2, <1>3, <1>4, <1>6, BanksThenClass
<1> QED
  BY <1>5, <1>7

LEMMA ExitOrdered ==
  ASSUME EEP_NBANK \in Nat
  PROVE  SafeOrder(Eep, Eep.exit)
<1> DEFINE f == [j \in 1 .. 2 * EEP_NBANK |->
                   IF j % 2 = 1 THEN device(j \div 2) ELSE cdev((j \div 2) - 1)]
<1>1. f \in [1 .. 2 * EEP_NBANK -> Resource]
  BY ResourceType, Halves
<1>2. f \in Seq(Resource) /\ Len(f) = 2 * EEP_NBANK /\ 2 * EEP_NBANK \in Nat
  BY <1>1, FunctionAsSeq
<1>3. \A j \in 1 .. 2 * EEP_NBANK : \E b \in Int : f[j] = cdev(b) \/ f[j] = device(b)
  <2> TAKE j \in 1 .. 2 * EEP_NBANK
  <2>1. j \div 2 \in Int /\ (j \div 2) - 1 \in Int
    BY Halves
  <2> QED
    BY <2>1
<1>4. ASSUME NEW j \in 1 .. 2 * EEP_NBANK, NEW k \in 1 .. 2 * EEP_NBANK, f[j] = f[k]
      PROVE  j = k
  <2>1. j % 2 = k % 2
    BY <1>4, Kinds, Halves
  <2>2. j \div 2 \in Int /\ k \div 2 \in Int
    BY Halves
  <2>3. CASE j % 2 = 1
    <3>1. j \div 2 = k \div 2
      BY <1>4, <2>1, <2>3, Kinds
    <3> QED
      BY <2>1, <3>1, Halves
  <2>4. CASE j % 2 # 1
    <3>1. (j \div 2) - 1 = (k \div 2) - 1
      BY <1>4, <2>1, <2>4, Kinds
    <3>2. j \div 2 = k \div 2
      BY <2>2, <3>1
    <3> QED
      BY <2>1, <3>2, Halves
  <2> QED
    BY <2>3, <2>4
<1>5. Eep.exit = f \o <<class, region>>
  BY DEF Eep
<1> HIDE DEF f
<1> QED
  BY <1>2, <1>3, <1>4, <1>5, BanksThenClass, EepHasNoData

(* All that is set up before bank i is set up by then.                     *)
LEMMA BanksBefore ==
  ASSUME EEP_NBANK \in Nat, NEW i \in 0 .. EEP_NBANK - 1
  PROVE  Banks(i) \subseteq {EepSetup[j] : j \in 1 .. 2 * i + 2}
<1>1. region \in {EepSetup[j] : j \in 1 .. 2 * i + 2} /\ class \in {EepSetup[j] : j \in 1 .. 2 * i + 2}
  BY SetupOfBanks
<1>2. ASSUME NEW b \in 0 .. i - 1
      PROVE  /\ cdev(b) \in {EepSetup[j] : j \in 1 .. 2 * i + 2}
             /\ device(b) \in {EepSetup[j] : j \in 1 .. 2 * i + 2}
  <2>1. b \in 0 .. EEP_NBANK - 1 /\ 2 * b + 3 \in 1 .. 2 * i + 2 /\ 2 * b + 4 \in 1 .. 2 * i + 2
    OBVIOUS
  <2> QED
    BY <2>1, SetupOfBanks
<1> QED
  BY <1>1, <1>2 DEF Banks

LEMMA EepOrdered ==
  ASSUME EEP_NBANK \in Nat
  PROVE  Ordered(Eep)
<1>1. /\ Eep.setup = EepSetup
      /\ Eep.checked = {1, 2} \cup {2 * i + 3 : i \in 0 .. EEP_NBANK - 1}
  BY DEF Eep
<1>2. ASSUME NEW i \in Eep.checked
      PROVE  /\ SafeOrder(Eep, Eep.undo[i])
             /\ Elems(Eep.undo[i]) \subseteq {EepSetup[j] : j \in 1 .. i - 1}
  <2>1. CASE i = 1
    BY <2>1, EepUndo DEF SafeOrder, Elems
  <2>2. CASE i = 2
    <3>1. Eep.undo[i] = <<region>> /\ Needs(Eep, region) = {} /\ EepSetup[1] = region
      BY <2>2, EepUndo, NeedsOf, SetupOfBanks
    <3> QED
      BY <2>2, <3>1 DEF SafeOrder, Elems
  <2>3. ASSUME NEW b \in 0 .. EEP_NBANK - 1, i = 2 * b + 3
        PROVE  /\ SafeOrder(Eep, Eep.undo[i])
               /\ Elems(Eep.undo[i]) \subseteq {EepSetup[j] : j \in 1 .. i - 1}
    <3>1. Eep.undo[i] = EepRollback(b) /\ b \in Nat /\ i - 1 = 2 * b + 2
      BY <2>3, EepUndo
    <3> QED
      BY <3>1, RollbackOrdered, RollbackElems, BanksBefore
  <2> QED
    BY <1>1, <2>1, <2>2, <2>3
<1>3. ASSUME NEW i \in DOMAIN EepSetup
      PROVE  Needs(Eep, EepSetup[i]) \subseteq {EepSetup[j] : j \in Eep.checked \cap (1 .. i - 1)}
  <2>1. i \in 1 .. 2 * EEP_NBANK + 2 /\ EepSetup[1] = region /\ EepSetup[2] = class
    BY SetupOfBanks
  <2>2. CASE i \in {1, 2}
    BY <2>1, <2>2, NeedsOf
  <2>3. CASE i \in 3 .. 2 * EEP_NBANK + 2
    <3>1. PICK b \in 0 .. EEP_NBANK - 1 : EepSetup[i] = cdev(b) \/ EepSetup[i] = device(b)
      BY <2>3, SetupOfBanks
    <3>2. Needs(Eep, EepSetup[i]) \subseteq {region, class}
      BY <3>1, NeedsOf, EepHasNoData
    <3>3. 1 \in Eep.checked \cap (1 .. i - 1) /\ 2 \in Eep.checked \cap (1 .. i - 1)
      BY <1>1, <2>3
    <3> QED
      BY <2>1, <3>2, <3>3
  <2> QED
    BY <2>1, <2>2, <2>3
<1> QED
  BY <1>1, <1>2, <1>3, ExitOrdered DEF Ordered

LEMMA ModelledOrders == ModelledDrivers => AllOrdered
  BY ModelledTables, MsgDevOrdered, Usb829Ordered, MutexDevOrdered, EepOrdered
  DEF ModelledDrivers, AllOrdered

LEMMA OrderIsKept == ModelledDrivers /\ Spec => []OrderInv
<1> SUFFICES ASSUME ModelledDrivers PROVE Spec => []OrderInv
  OBVIOUS
<1>1. AllOrdered /\ TableOK
  BY ModelledTables, ModelledOrders
<1>2. Init => Inv /\ OrderInv
  BY <1>1, InitInv DEF Init, OrderInv, ReleasesWhatItHolds, Backed, Elems
<1>3. Inv /\ OrderInv /\ [Next]_vars => Inv' /\ OrderInv'
  BY <1>1, NextInv, NextOrderInv
<1> QED
  BY <1>2, <1>3, PTL DEF Spec

(* The error paths and exit functions of the four drivers release nothing  *)
(* twice and nothing they do not hold, for every number of banks.          *)
THEOREM NothingIsReleasedTwice == ModelledDrivers /\ Spec => []ReleasesWhatItHolds
<1>1. OrderInv => ReleasesWhatItHolds
  BY DEF OrderInv
<1> QED
  BY <1>1, OrderIsKept, PTL

(* They release nothing before what stands on it.                          *)
THEOREM NothingLosesItsGround == ModelledDrivers /\ Spec => []Backed
<1>1. OrderInv => Backed
  BY DEF OrderInv
<1> QED
  BY <1>1, OrderIsKept, PTL

-----------------------------------------------------------------------------
(* No file outlives a driver that adds its cdev last: as long as a step is *)
(* left to fail there is no cdev to open, and from rmmod on no open is     *)
(* granted.                                                                *)
FilesInv ==
  /\ state \in {"absent", "going"} => files = {}
  /\ CdevLast(drv) =>
       /\ stranded = {}
       /\ state = "coming" /\ step <= Len(drv.setup) => files = {}
       /\ state = "undoing" => files = {} /\ \A r \in held : ~ IsCdev(r)

LEMMA NextFilesInv ==
  ASSUME TableOK, Inv, FilesInv, [Next]_vars
  PROVE  FilesInv'
<1>0. /\ step \in Int /\ Len(drv.setup) \in Nat
      /\ drv.checked \subseteq 1 .. Len(drv.setup)
  <2>1. Complete(drv)
    BY DEF TableOK, Inv, TypeOK
  <2>2. drv.setup \in Seq(Resource) /\ drv.checked \subseteq DOMAIN drv.setup
    BY <2>1 DEF Complete
  <2>3. Len(drv.setup) \in Nat /\ DOMAIN drv.setup = 1 .. Len(drv.setup)
    BY <2>2
  <2>4. step \in Int
    BY <2>3 DEF Inv, TypeOK
  <2> QED
    BY <2>2, <2>3, <2>4
(* Before the last step nothing that is held is a cdev.                    *)
<1>1. ASSUME CdevLast(drv), state = "coming", step <= Len(drv.setup)
      PROVE  \A r \in held : ~ IsCdev(r)
  <2>1. \A r \in held : \E j \in 1 .. step - 1 : r = drv.setup[j]
    BY <1>1 DEF Inv, HeldInv
  <2>2. \A j \in 1 .. step - 1 : j \in 1 .. Len(drv.setup) - 1
    BY <1>0, <1>1
  <2> QED
    BY <1>1, <2>1, <2>2 DEF CdevLast
<1>2. CASE Insmod
  BY <1>2 DEF Insmod, FilesInv
<1>3. CASE SetupOk
  BY <1>0, <1>3 DEF SetupOk, FilesInv
<1>4. CASE SetupFails
  BY <1>0, <1>1, <1>4 DEF SetupFails, FilesInv
<1>5. CASE SetupFailsUnnoticed
  BY <1>0, <1>5 DEF SetupFailsUnnoticed, FilesInv
<1>6. CASE SetupDone
  BY <1>6 DEF SetupDone, FilesInv
<1>7. CASE Rmmod
  BY <1>7 DEF Rmmod, FilesInv
<1>8. CASE Release
  BY <1>8 DEF Release, FilesInv
<1>9. CASE Freed
  BY <1>9 DEF Freed, FilesInv
<1>10. ASSUME NEW f \in File, Open(f) PROVE FilesInv'
  BY <1>1, <1>10 DEF Open, FilesInv
<1>11. ASSUME NEW f \in File, Close(f) PROVE FilesInv'
  BY <1>11 DEF Close, FilesInv
<1>12. CASE UNCHANGED vars
  BY <1>12 DEF vars, FilesInv
<1> QED
  BY <1>2, <1>3, <1>4, <1>5, <1>6, <1>7, <1>8, <1>9, <1>10, <1>11, <1>12 DEF Next

(* Only a driver that adds a cdev before its last step can be freed under  *)
(* an open file; msgdev.c, which adds it last, never is.                   *)
THEOREM OnlyEarlyCdevStrands == ModelledDrivers /\ Spec => []StrandedOnlyByEarlyCdev
<1> SUFFICES ASSUME ModelledDrivers PROVE Spec => []StrandedOnlyByEarlyCdev
  OBVIOUS
<1>1. TableOK
  BY ModelledTables
<1>2. Init => Inv /\ FilesInv
  BY <1>1, InitInv DEF Init, FilesInv
<1>3. Inv /\ FilesInv /\ [Next]_vars => Inv' /\ FilesInv'
  BY <1>1, NextInv, NextFilesInv
<1>4. FilesInv => StrandedOnlyByEarlyCdev
  BY DEF FilesInv, StrandedOnlyByEarlyCdev
<1> QED
  BY <1>2, <1>3, <1>4, PTL DEF Spec

LEMMA MsgDevIsCdevLast == CdevLast(MsgDev)
  BY DEF CdevLast, MsgDev, IsCdev, data, region, class, device
=============================================================================
