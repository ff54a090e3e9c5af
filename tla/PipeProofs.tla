----------------------------- MODULE PipeProofs -----------------------------
(***************************************************************************)
(* Proofs about Pipe for every buffer size, every byte set and every       *)
(* sequence of reads and writes.                                           *)
(***************************************************************************)
EXTENDS Pipe, SequenceTheorems, TLAPS

\* A leaf that names no prover is tried with SMT, then with Zenon.
USE SMTT(30), ZenonT(10)

\* Positions wrap into the buffer.
LEMMA WrapFacts ==
    ASSUME NEW i \in Int, 0 <= i, i < 2 * Size
    PROVE  Wrap(i) \in Slots
BY PipeAssumption DEF Wrap, Slots

\* The fill level never reaches the size of the buffer.
LEMMA UsedFacts ==
    ASSUME TypeOK
    PROVE  /\ Used \in 0..(Size - 1)
           /\ Free \in 0..(Size - 1)
           /\ Free + Used = Size - 1
BY PipeAssumption DEF TypeOK, Used, Free, Wrap, Slots

LEMMA LeastFacts ==
    ASSUME NEW a \in Nat, NEW b \in Nat
    PROVE  Least(a, b) \in Nat /\ Least(a, b) <= a /\ Least(a, b) <= b
BY DEF Least

LEMMA InitType == Init => TypeOK
BY PipeAssumption DEF Init, TypeOK, Slots

LEMMA WriteType ==
    ASSUME TypeOK, NEW data \in Chunks, Write(data)
    PROVE  TypeOK'
<1> DEFINE k == Least(Len(data), Free)
<1>1. data \in Seq(Bytes) /\ Len(data) \in Nat
  BY PipeAssumption
<1>2. Free \in Nat /\ Free <= Size - 1
  BY UsedFacts, PipeAssumption
<1>3. k \in Nat /\ k <= Len(data) /\ k <= Free
  BY <1>1, <1>2, LeastFacts
<1>4. /\ buf' = [i \in Slots |->
                    IF Wrap(i - tail + Size) < k
                    THEN data[Wrap(i - tail + Size) + 1] ELSE buf[i]]
      /\ tail' = Wrap(tail + k) /\ ret' = k /\ got' = <<>> /\ head' = head
  BY DEF Write
<1> HIDE DEF k
<1>5. \A i \in Slots : Wrap(i - tail + Size) \in Slots
  BY PipeAssumption DEF TypeOK, Slots, Wrap
<1>6. \A i \in Slots : Wrap(i - tail + Size) < k
        => data[Wrap(i - tail + Size) + 1] \in Bytes
  <2> TAKE i \in Slots
  <2> HAVE Wrap(i - tail + Size) < k
  <2>1. Wrap(i - tail + Size) + 1 \in 1..Len(data)
    <3> DEFINE w == Wrap(i - tail + Size)
    <3>1. w \in Slots /\ w < k
      BY <1>5, Zenon
    <3> HIDE DEF w
    <3>2. w + 1 \in 1..Len(data)
      BY <3>1, <1>1, <1>3, PipeAssumption, SMTT(30) DEF Slots
    <3> QED BY <3>2, Zenon DEF w
  <2> QED BY <2>1, <1>1
<1>7. buf' \in [Slots -> Bytes]
  BY <1>4, <1>6 DEF TypeOK
<1>8. tail' \in Slots
  BY <1>2, <1>3, <1>4, PipeAssumption DEF TypeOK, Slots, Wrap
<1> QED BY <1>3, <1>4, <1>7, <1>8 DEF TypeOK

LEMMA ReadType ==
    ASSUME TypeOK, NEW count \in Counts, Read(count)
    PROVE  TypeOK'
<1> DEFINE k == Least(count, Used)
<1>1. count \in Nat /\ Used \in Nat /\ Used <= Size - 1
  BY UsedFacts, PipeAssumption
<1>2. k \in Nat /\ k <= Used
  BY <1>1, LeastFacts
<1>3. /\ got' = [i \in 1..k |-> buf[Wrap(head + i - 1)]]
      /\ head' = Wrap(head + k) /\ ret' = k /\ UNCHANGED <<buf, tail>>
  BY DEF Read
<1> HIDE DEF k
<1>4. \A i \in 1..k : Wrap(head + i - 1) \in Slots
  BY <1>1, <1>2, PipeAssumption DEF TypeOK, Slots, Wrap
<1>5. got' \in Seq(Bytes)
  <2>1. \A i \in 1..k : buf[Wrap(head + i - 1)] \in Bytes
    BY <1>4 DEF TypeOK
  <2> QED BY <2>1, <1>2, <1>3
<1>6. head' \in Slots
  BY <1>1, <1>2, <1>3, PipeAssumption DEF TypeOK, Slots, Wrap
<1> QED BY <1>2, <1>3, <1>5, <1>6 DEF TypeOK

\* head and tail stay inside the buffer and every slot holds a byte.
THEOREM TypeCorrect == Spec => []TypeOK
<1>1. TypeOK /\ [Next]_vars => TypeOK'
  <2> SUFFICES ASSUME TypeOK, [Next]_vars PROVE TypeOK'
    OBVIOUS
  <2>1. CASE UNCHANGED vars
    BY <2>1 DEF vars, TypeOK
  <2> QED BY <2>1, WriteType, ReadType DEF Next
<1> QED BY <1>1, InitType, PTL DEF Spec

-----------------------------------------------------------------------------

\* A write appends to the contents what fits.
LEMMA WriteContents ==
    ASSUME TypeOK, NEW data \in Chunks, Write(data)
    PROVE  Contents' = Contents \o SubSeq(data, 1, Least(Len(data), Free))
<1> DEFINE k == Least(Len(data), Free)
<1>1. data \in Seq(Bytes) /\ Len(data) \in Nat
  BY PipeAssumption
<1>2. /\ Free \in Nat /\ Used \in Nat /\ Free + Used = Size - 1
      /\ head \in Slots /\ tail \in Slots
  BY UsedFacts, PipeAssumption DEF TypeOK
<1>3. k \in Nat /\ k <= Len(data) /\ k <= Free
  BY <1>1, <1>2, LeastFacts, Zenon
<1>4. /\ buf' = [i \in Slots |->
                    IF Wrap(i - tail + Size) < k
                    THEN data[Wrap(i - tail + Size) + 1] ELSE buf[i]]
      /\ tail' = Wrap(tail + k) /\ head' = head
  BY DEF Write
<1> HIDE DEF k
<1>5. Used' = Used + k
  <2>1. Used' = Wrap(Wrap(tail + k) - head + Size)
    BY <1>4 DEF Used, Wrap
  <2>2. k <= Size - 1 - Used /\ Used = Wrap(tail - head + Size)
    BY <1>2, <1>3, PipeAssumption DEF Used
  <2>3. /\ head \in Int /\ tail \in Int /\ Size \in Int /\ Size > 0
        /\ 0 <= head /\ head < Size /\ 0 <= tail /\ tail < Size
    BY <1>2, PipeAssumption DEF Slots
  <2> HIDE DEF Used
  <2> QED BY <2>1, <2>2, <2>3, <1>2, <1>3 DEF Wrap
<1>6. Contents' = [i \in 1..(Used + k) |-> buf'[Wrap(head + i - 1)]]
  BY <1>4, <1>5 DEF Contents, Wrap
<1>7. \A i \in 1..Used :
        /\ Wrap(head + i - 1) \in Slots
        /\ ~ (Wrap(Wrap(head + i - 1) - tail + Size) < k)
  BY <1>2, <1>3, PipeAssumption DEF Used, Free, Wrap, Slots
<1>8. \A i \in (Used + 1)..(Used + k) :
        /\ Wrap(head + i - 1) \in Slots
        /\ Wrap(Wrap(head + i - 1) - tail + Size) = i - Used - 1
  BY <1>2, <1>3, PipeAssumption DEF Used, Free, Wrap, Slots
<1>9. \A i \in 1..(Used + k) : buf'[Wrap(head + i - 1)] =
        IF i <= Used THEN buf[Wrap(head + i - 1)] ELSE data[i - Used]
  <2> TAKE i \in 1..(Used + k)
  <2>1. CASE i <= Used
    <3>1. i \in 1..Used
      BY <2>1, <1>2
    <3> QED BY <3>1, <2>1, <1>4, <1>7
  <2>2. CASE ~ (i <= Used)
    <3>1. i \in (Used + 1)..(Used + k)
      BY <2>2, <1>2, <1>3
    <3>2. Wrap(Wrap(head + i - 1) - tail + Size) < k
          /\ Wrap(Wrap(head + i - 1) - tail + Size) + 1 = i - Used
      BY <3>1, <1>2, <1>3, <1>8
    <3> QED BY <3>1, <3>2, <2>2, <1>4, <1>8
  <2> QED BY <2>1, <2>2
<1>10. /\ Contents \in Seq(Bytes) /\ Len(Contents) = Used
       /\ \A i \in 1..Used : Contents[i] = buf[Wrap(head + i - 1)]
  <2>1. \A i \in 1..Used : buf[Wrap(head + i - 1)] \in Bytes
    BY <1>7 DEF TypeOK
  <2> QED BY <2>1, <1>2 DEF Contents
<1>11. /\ SubSeq(data, 1, k) \in Seq(Bytes) /\ Len(SubSeq(data, 1, k)) = k
       /\ \A j \in 1..k : SubSeq(data, 1, k)[j] = data[j]
  BY <1>1, <1>3
<1>12. /\ Contents \o SubSeq(data, 1, k) \in Seq(Bytes)
       /\ Len(Contents \o SubSeq(data, 1, k)) = Used + k
       /\ \A i \in 1..(Used + k) : (Contents \o SubSeq(data, 1, k))[i] =
            IF i <= Used THEN Contents[i] ELSE SubSeq(data, 1, k)[i - Used]
  BY <1>10, <1>11, ConcatProperties
<1>13. \A i \in 1..(Used + k) :
         buf'[Wrap(head + i - 1)] = (Contents \o SubSeq(data, 1, k))[i]
  <2> TAKE i \in 1..(Used + k)
  <2>1. CASE i <= Used
    <3>1. i \in 1..Used
      BY <2>1, <1>2
    <3> QED BY <3>1, <2>1, <1>9, <1>10, <1>12
  <2>2. CASE ~ (i <= Used)
    <3>1. i - Used \in 1..k
      BY <2>2, <1>2, <1>3
    <3> QED BY <3>1, <2>2, <1>9, <1>11, <1>12
  <2> QED BY <2>1, <2>2, Zenon
<1>14. Contents \o SubSeq(data, 1, k) =
         [i \in 1..(Used + k) |-> (Contents \o SubSeq(data, 1, k))[i]]
  BY <1>12, LenProperties
<1> QED BY <1>6, <1>13, <1>14, Zenon DEF k

\* A read takes from the front of the contents what there is.
LEMMA ReadContents ==
    ASSUME TypeOK, NEW count \in Counts, Read(count)
    PROVE  /\ got' = SubSeq(Contents, 1, Least(count, Used))
           /\ Contents' = SubSeq(Contents, Least(count, Used) + 1, Used)
           /\ Len(Contents) = Used
<1> DEFINE k == Least(count, Used)
<1>1. /\ count \in Nat /\ Used \in Nat /\ Used <= Size - 1
      /\ head \in Slots /\ tail \in Slots
  BY UsedFacts, PipeAssumption DEF TypeOK
<1>2. k \in Nat /\ k <= Used
  BY <1>1, LeastFacts
<1>3. /\ got' = [i \in 1..k |-> buf[Wrap(head + i - 1)]]
      /\ head' = Wrap(head + k) /\ buf' = buf /\ tail' = tail
  BY DEF Read
<1> HIDE DEF k
<1>4. /\ head \in Int /\ tail \in Int /\ Size \in Int /\ Size > 0
      /\ 0 <= head /\ head < Size /\ 0 <= tail /\ tail < Size
  BY <1>1, PipeAssumption DEF Slots
<1>5. Used' = Used - k
  <2>1. Used' = Wrap(tail - Wrap(head + k) + Size)
    BY <1>3 DEF Used, Wrap
  <2>2. Used = Wrap(tail - head + Size)
    BY DEF Used
  <2> HIDE DEF Used
  <2> QED BY <2>1, <2>2, <1>1, <1>2, <1>4 DEF Wrap
<1>6. /\ Contents \in Seq(Bytes) /\ Len(Contents) = Used
      /\ \A i \in 1..Used : Contents[i] = buf[Wrap(head + i - 1)]
      /\ \A i \in 1..Used : Contents[i] \in Bytes
  <2>1. \A i \in 1..Used : Wrap(head + i - 1) \in Slots
    BY <1>1, <1>4 DEF Wrap, Slots
  <2>2. \A i \in 1..Used : buf[Wrap(head + i - 1)] \in Bytes
    BY <2>1 DEF TypeOK
  <2> QED BY <2>2, <1>1 DEF Contents
<1>7. got' = SubSeq(Contents, 1, k)
  <2>1. /\ SubSeq(Contents, 1, k) \in Seq(Bytes)
        /\ Len(SubSeq(Contents, 1, k)) = k
        /\ \A i \in 1..k : SubSeq(Contents, 1, k)[i] = Contents[i]
    BY <1>1, <1>2, <1>6
  <2>2. SubSeq(Contents, 1, k) = [i \in 1..k |-> SubSeq(Contents, 1, k)[i]]
    BY <2>1, LenProperties
  <2>3. \A i \in 1..k : SubSeq(Contents, 1, k)[i] = buf[Wrap(head + i - 1)]
    BY <2>1, <1>1, <1>2, <1>6
  <2> QED BY <2>2, <2>3, <1>3, Zenon
<1>8. Contents' = SubSeq(Contents, k + 1, Used)
  <2>1. Contents' = [i \in 1..(Used - k) |-> buf[Wrap(Wrap(head + k) + i - 1)]]
    BY <1>3, <1>5 DEF Contents, Wrap
  <2>2. \A i \in (k + 1)..Used : Contents[i] \in Bytes
    BY <1>1, <1>2, <1>6
  <2>3. /\ SubSeq(Contents, k + 1, Used) \in Seq(Bytes)
        /\ Len(SubSeq(Contents, k + 1, Used)) = Used - k
        /\ \A i \in 1..(Used - k) :
                SubSeq(Contents, k + 1, Used)[i] = Contents[k + i]
    <3> DEFINE s == SubSeq(Contents, k + 1, Used)
    <3>1. k + 1 \in Int /\ Used \in Int
      BY <1>1, <1>2
    <3>2. /\ s \in Seq(Bytes)
          /\ Len(s) = IF k + 1 <= Used THEN Used - (k + 1) + 1 ELSE 0
          /\ \A i \in 1..(Used - (k + 1) + 1) : s[i] = Contents[(k + 1) + i - 1]
      <4>1. \A i \in (k + 1)..Used : Contents[i] \in Bytes
        BY <2>2
      <4> HIDE DEF Used, Contents
      <4> QED BY <3>1, <4>1, SubSeqProperties, SMTT(30) DEF s
    <3> HIDE DEF s, Used
    <3>3. /\ Len(s) = Used - k
          /\ \A i \in 1..(Used - k) : (k + 1) + i - 1 = k + i
          /\ Used - (k + 1) + 1 = Used - k
      BY <3>2, <1>1, <1>2, SMTT(30)
    <3> QED BY <3>2, <3>3, Zenon DEF s
  <2>4. \A i \in 1..(Used - k) :
            Wrap(Wrap(head + k) + i - 1) = Wrap(head + (k + i) - 1)
    <3> TAKE i \in 1..(Used - k)
    <3>1. i \in Int /\ 1 <= i /\ i + k <= Size - 1
      BY <1>1, <1>2, <1>4
    <3> HIDE DEF Used
    <3> QED BY <3>1, <1>2, <1>4 DEF Wrap
  <2>5. \A i \in 1..(Used - k) :
            SubSeq(Contents, k + 1, Used)[i] = buf[Wrap(Wrap(head + k) + i - 1)]
    <3> TAKE i \in 1..(Used - k)
    <3>1. k + i \in 1..Used
      BY <1>1, <1>2
    <3> QED BY <3>1, <2>3, <2>4, <1>6
  <2>6. SubSeq(Contents, k + 1, Used) =
            [i \in 1..(Used - k) |-> SubSeq(Contents, k + 1, Used)[i]]
    BY <2>3, LenProperties, SMTT(30)
  <2> QED BY <2>1, <2>5, <2>6, Zenon
<1> QED BY <1>6, <1>7, <1>8 DEF k

LEMMA ContentsLength ==
    ASSUME TypeOK
    PROVE  Len(Contents) = Used /\ Used \in Nat
BY UsedFacts, PipeAssumption DEF Contents

\* The two modules mean the same by the smaller of two numbers.
LEMMA SameLeast == \A a, b : Fifo!Least(a, b) = Least(a, b)
BY DEF Fifo!Least, Least

LEMMA WriteIsPut ==
    ASSUME TypeOK, NEW data \in Chunks, Write(data)
    PROVE  Fifo!Put(data)
<1>1. (Size - 1) - Len(Contents) = Free
  BY ContentsLength, PipeAssumption DEF Free
<1>2. Fifo!Least(Len(data), (Size - 1) - Len(Contents)) = Least(Len(data), Free)
  BY <1>1, SameLeast
<1> QED BY <1>2, WriteContents, Zenon DEF Fifo!Put, Write

LEMMA ReadIsTake ==
    ASSUME TypeOK, NEW count \in Counts, Read(count)
    PROVE  Fifo!Take(count)
<1>1. Fifo!Least(count, Len(Contents)) = Least(count, Used)
  BY ContentsLength, SameLeast
<1> QED BY <1>1, ReadContents DEF Fifo!Take, Read

\* The ring buffer implements the bounded queue, for every size of the buffer
\* and every length of reads and writes.
THEOREM Refinement == Spec => ImplementsFifo
<1>1. Init => Fifo!Init
  <2> SUFFICES ASSUME Init PROVE Fifo!Init
    OBVIOUS
  <2>1. Used = 0
    BY PipeAssumption DEF Init, Used, Wrap
  <2>2. Contents = <<>>
    BY <2>1 DEF Contents
  <2> QED BY <2>2 DEF Init, Fifo!Init
<1>2. TypeOK /\ [Next]_vars => [Fifo!Next]_<<Contents, got, ret>>
  <2> SUFFICES ASSUME TypeOK, [Next]_vars
               PROVE  Fifo!Next \/ UNCHANGED <<Contents, got, ret>>
    OBVIOUS
  <2>1. CASE UNCHANGED vars
    BY <2>1 DEF vars, Contents, Used, Wrap
  <2>2. CASE \E data \in Chunks : Write(data)
    BY <2>2, WriteIsPut DEF Fifo!Next
  <2>3. CASE \E count \in Counts : Read(count)
    BY <2>3, ReadIsTake DEF Fifo!Next
  <2> QED BY <2>1, <2>2, <2>3 DEF Next
<1> QED BY <1>1, <1>2, TypeCorrect, PTL DEF Spec, ImplementsFifo, Fifo!Spec
=============================================================================
