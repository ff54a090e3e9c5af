--------------------------- MODULE ConsoleProofs ---------------------------
(***************************************************************************)
(* Proofs about Console, for every set of keys, prompts and buffer sizes.  *)
(* The screen and the buffer are kept together by two counts: the row is   *)
(* at least as long as the prompt and the line together, and exactly as    *)
(* long while only printable characters are typed.  So an erase, which     *)
(* asks only whether the buffer is empty, never reaches the prompt.  What  *)
(* sys_read returns is tied to the keys by a third count: of the keys since*)
(* a byte that is kept, the bytes less the erases.                         *)
(***************************************************************************)
EXTENDS Console, FiniteSetTheorems, SequenceTheorems, TLAPS

\* A leaf that names no prover is tried with Zenon, then with SMT.
USE ZenonT(10), SMTT(60)

Row == [left : Seq(Cells), right : Seq(Cells)]

AllBlank(s) == \A i \in 1..Len(s) : s[i] = Blank

\* Row q shows what row r shows up to the cursor.
Begins(r, q) ==
    /\ Len(r.left) <= Len(q.left)
    /\ \A i \in 1..Len(r.left) : q.left[i] = r.left[i]

-----------------------------------------------------------------------------
(* Sequences.                                                              *)

LEMMA Cut ==
    ASSUME NEW S, NEW s \in Seq(S), NEW d \in Nat, d <= Len(s)
    PROVE  /\ SubSeq(s, 1, d) \in Seq(S)
           /\ Len(SubSeq(s, 1, d)) = d
           /\ \A i \in 1..d : SubSeq(s, 1, d)[i] = s[i]
<1>1. \A i \in 1..d : s[i] \in S
  BY ElementOfSeq, LenProperties, SMTT(30)
<1> QED BY <1>1, SubSeqProperties, SMTT(30)

LEMMA Skip ==
    ASSUME NEW S, NEW s \in Seq(S), NEW d \in Nat
    PROVE  /\ SubSeq(s, d + 1, Len(s)) \in Seq(S)
           /\ Len(SubSeq(s, d + 1, Len(s))) = IF d <= Len(s) THEN Len(s) - d ELSE 0
           /\ \A i \in 1..(Len(s) - d) : SubSeq(s, d + 1, Len(s))[i] = s[d + i]
<1>1. Len(s) \in Nat /\ \A i \in (d + 1)..Len(s) : s[i] \in S
  BY ElementOfSeq, LenProperties, SMTT(30)
<1>2. d + 1 \in Int /\ Len(s) \in Int
  BY <1>1
<1>3. /\ SubSeq(s, d + 1, Len(s)) \in Seq(S)
      /\ Len(SubSeq(s, d + 1, Len(s))) =
            IF d + 1 <= Len(s) THEN Len(s) - (d + 1) + 1 ELSE 0
      /\ \A i \in 1..(Len(s) - (d + 1) + 1) :
            SubSeq(s, d + 1, Len(s))[i] = s[(d + 1) + i - 1]
  BY <1>1, <1>2, SubSeqProperties, SMTT(30)
<1> QED BY <1>1, <1>3

LEMMA Joined ==
    ASSUME NEW S, NEW s \in Seq(S), NEW t \in Seq(S)
    PROVE  /\ s \o t \in Seq(S)
           /\ Len(s \o t) = Len(s) + Len(t)
           /\ \A i \in 1..(Len(s) + Len(t)) :
                 (s \o t)[i] = IF i <= Len(s) THEN s[i] ELSE t[i - Len(s)]
BY ConcatProperties

LEMMA SkipBlank ==
    ASSUME NEW s \in Seq(Cells), NEW d \in Nat, AllBlank(s)
    PROVE  AllBlank(SubSeq(s, d + 1, Len(s)))
<1>1. Len(s) \in Nat
  BY LenProperties
<1> QED BY <1>1, Skip, SMTT(30) DEF AllBlank

-----------------------------------------------------------------------------
(* The terminal.                                                           *)

LEMMA DrawFacts ==
    ASSUME NEW r \in Row, NEW cell \in Cells
    PROVE  /\ Draw(r, cell) \in Row
           /\ Len(Draw(r, cell).left) = Len(r.left) + 1
           /\ Begins(r, Draw(r, cell))
           /\ Draw(r, cell).left[Len(r.left) + 1] = cell
           /\ Draw(r, cell).right = SubSeq(r.right, 1 + 1, Len(r.right))
<1>1. /\ r.left \in Seq(Cells) /\ r.right \in Seq(Cells)
      /\ Len(r.left) \in Nat /\ Len(r.right) \in Nat
  BY LenProperties DEF Row
<1>2. /\ Draw(r, cell).left = Append(r.left, cell)
      /\ Draw(r, cell).right = SubSeq(r.right, 1 + 1, Len(r.right))
      /\ Draw(r, cell) = [left |-> Append(r.left, cell),
                          right |-> SubSeq(r.right, 1 + 1, Len(r.right))]
  BY DEF Draw
<1>3. SubSeq(r.right, 1 + 1, Len(r.right)) \in Seq(Cells)
  BY <1>1, Skip
<1>4. /\ Append(r.left, cell) \in Seq(Cells)
      /\ Len(Append(r.left, cell)) = Len(r.left) + 1
      /\ \A i \in 1..Len(r.left) : Append(r.left, cell)[i] = r.left[i]
      /\ Append(r.left, cell)[Len(r.left) + 1] = cell
  BY <1>1, AppendProperties, SMTT(30)
<1>5. Draw(r, cell) \in Row
  BY <1>2, <1>3, <1>4 DEF Row
<1> QED BY <1>1, <1>2, <1>4, <1>5 DEF Begins

LEMMA BackFacts ==
    ASSUME NEW r \in Row, r.left # <<>>
    PROVE  /\ Back(r) \in Row
           /\ Len(Back(r).left) = Len(r.left) - 1
           /\ \A i \in 1..(Len(r.left) - 1) : Back(r).left[i] = r.left[i]
           /\ Len(Back(r).right) = Len(r.right) + 1
           /\ Back(r).right[1] = r.left[Len(r.left)]
           /\ \A i \in 1..Len(r.right) : Back(r).right[i + 1] = r.right[i]
<1> DEFINE n == Len(r.left)
           one == <<r.left[n]>>
<1>1. /\ r.left \in Seq(Cells) /\ r.right \in Seq(Cells)
      /\ n \in Nat \ {0} /\ Len(r.right) \in Nat
  BY LenProperties, EmptySeq DEF Row
<1>2. r.left[n] \in Cells
  BY <1>1, ElementOfSeq, SMTT(30)
<1>3. one \in Seq(Cells) /\ Len(one) = 1 /\ one[1] = r.left[n]
  BY <1>2
<1> HIDE DEF one
<1>4. Back(r) = [left |-> SubSeq(r.left, 1, n - 1), right |-> one \o r.right]
  BY <1>1 DEF Back, one
<1>5. /\ SubSeq(r.left, 1, n - 1) \in Seq(Cells)
      /\ Len(SubSeq(r.left, 1, n - 1)) = n - 1
      /\ \A i \in 1..(n - 1) : SubSeq(r.left, 1, n - 1)[i] = r.left[i]
  BY <1>1, Cut, SMTT(30)
<1>6. /\ one \o r.right \in Seq(Cells)
      /\ Len(one \o r.right) = 1 + Len(r.right)
      /\ \A i \in 1..(1 + Len(r.right)) :
            (one \o r.right)[i] = IF i <= 1 THEN one[i] ELSE r.right[i - 1]
  <2>1. /\ one \o r.right \in Seq(Cells)
        /\ Len(one \o r.right) = Len(one) + Len(r.right)
        /\ \A i \in 1..(Len(one) + Len(r.right)) :
              (one \o r.right)[i] = IF i <= Len(one) THEN one[i]
                                    ELSE r.right[i - Len(one)]
    BY <1>1, <1>3, Joined
  <2>2. Len(one) = 1
    BY <1>3
  <2> QED BY <2>1, <2>2
<1>7. Back(r) \in Row
  BY <1>4, <1>5, <1>6, SMTT(30) DEF Row
<1>8. /\ Back(r).left = SubSeq(r.left, 1, n - 1)
      /\ Back(r).right = one \o r.right
  BY <1>4
<1> QED BY <1>1, <1>3, <1>5, <1>6, <1>7, <1>8, SMTT(30)

\* Backspace, space, backspace takes one cell off the end of what is shown.
LEMMA ErasedFacts ==
    ASSUME NEW r \in Row, r.left # <<>>, AllBlank(r.right)
    PROVE  /\ Erased(r) \in Row
           /\ Len(Erased(r).left) = Len(r.left) - 1
           /\ \A i \in 1..(Len(r.left) - 1) : Erased(r).left[i] = r.left[i]
           /\ AllBlank(Erased(r).right)
<1> DEFINE b == Back(r)
           d == Draw(b, Blank)
<1>1. /\ Len(r.left) \in Nat \ {0} /\ Len(r.right) \in Nat
      /\ Blank \in Cells /\ Erased(r) = Back(d)
  BY LenProperties, EmptySeq DEF Row, Cells, Erased
<1>2. /\ b \in Row
      /\ Len(b.left) = Len(r.left) - 1
      /\ \A i \in 1..(Len(r.left) - 1) : b.left[i] = r.left[i]
      /\ Len(b.right) = Len(r.right) + 1
      /\ \A i \in 1..Len(r.right) : b.right[i + 1] = r.right[i]
  BY BackFacts
<1> HIDE DEF b
<1>3. /\ d \in Row
      /\ Len(d.left) = Len(b.left) + 1
      /\ \A i \in 1..Len(b.left) : d.left[i] = b.left[i]
      /\ d.left[Len(b.left) + 1] = Blank
      /\ d.right = SubSeq(b.right, 1 + 1, Len(b.right))
  BY <1>1, <1>2, DrawFacts DEF Begins
<1>4. b.right \in Seq(Cells) /\ Len(b.right) \in Nat /\ 1 <= Len(b.right)
  BY <1>1, <1>2, SMTT(30) DEF Row
<1>5. /\ Len(SubSeq(b.right, 1 + 1, Len(b.right))) = Len(b.right) - 1
      /\ \A i \in 1..(Len(b.right) - 1) :
            SubSeq(b.right, 1 + 1, Len(b.right))[i] = b.right[1 + i]
  BY <1>4, Skip
<1> HIDE DEF d
<1>6. Len(d.right) = Len(r.right) /\ AllBlank(d.right)
  <2> DEFINE e == d.right
             rr == r.right
             br == b.right
  <2>1. /\ Len(rr) \in Nat /\ Len(br) = Len(rr) + 1
        /\ \A i \in 1..Len(rr) : rr[i] = Blank
        /\ \A i \in 1..Len(rr) : br[i + 1] = rr[i]
    BY <1>1, <1>2 DEF AllBlank
  <2>2. /\ Len(e) = Len(br) - 1
        /\ \A i \in 1..(Len(br) - 1) : e[i] = br[1 + i]
    BY <1>3, <1>5
  <2> HIDE DEF e, rr, br
  <2>3. Len(e) = Len(rr)
    BY <2>1, <2>2, SMTT(30)
  <2>4. \A i \in 1..Len(e) : e[i] = Blank
    BY <2>1, <2>2, SMTT(30)
  <2> QED BY <2>3, <2>4 DEF AllBlank, e, rr
<1>7. d.left # <<>> /\ Len(d.left) = Len(r.left)
  BY <1>1, <1>2, <1>3, SMTT(30)
<1>8. /\ Back(d) \in Row
      /\ Len(Back(d).left) = Len(d.left) - 1
      /\ \A i \in 1..(Len(d.left) - 1) : Back(d).left[i] = d.left[i]
      /\ Len(Back(d).right) = Len(d.right) + 1
      /\ Back(d).right[1] = d.left[Len(d.left)]
      /\ \A i \in 1..Len(d.right) : Back(d).right[i + 1] = d.right[i]
  BY <1>3, <1>7, BackFacts
<1>9. AllBlank(Back(d).right)
  <2> SUFFICES ASSUME NEW i \in 1..Len(Back(d).right)
               PROVE  Back(d).right[i] = Blank
    BY DEF AllBlank
  <2>1. CASE i = 1
    BY <1>1, <1>2, <1>3, <1>8, <2>1
  <2>2. CASE i # 1
    <3>1. i - 1 \in 1..Len(d.right) /\ i = (i - 1) + 1
      BY <1>1, <1>6, <1>8, <2>2, SMTT(30)
    <3> QED BY <1>6, <1>8, <3>1 DEF AllBlank
  <2> QED BY <2>1, <2>2
<1> QED BY <1>1, <1>2, <1>3, <1>7, <1>8, <1>9

\* At the left end it leaves a blank under the cursor.
LEMMA ErasedNothing ==
    ASSUME NEW r \in Row, r.left = <<>>, AllBlank(r.right)
    PROVE  Erased(r) \in Row /\ AllBlank(Erased(r).right)
<1> DEFINE d == Draw(r, Blank)
<1>1. /\ Len(r.left) = 0 /\ r.right \in Seq(Cells) /\ Blank \in Cells
  BY DEF Row, Cells
<1>2. Erased(r) = Back(d)
  BY <1>1 DEF Erased, Back
<1>3. /\ d \in Row /\ Len(d.left) = Len(r.left) + 1
      /\ d.left[Len(r.left) + 1] = Blank
      /\ d.right = SubSeq(r.right, 1 + 1, Len(r.right))
  BY <1>1, DrawFacts
<1>4. AllBlank(d.right) /\ Len(d.left) = 1 /\ d.left[1] = Blank
  BY <1>1, <1>3, SkipBlank
<1> HIDE DEF d
<1>5. d.left # <<>> /\ Len(d.right) \in Nat
  BY <1>3, <1>4, LenProperties DEF Row
<1>6. /\ Back(d) \in Row
      /\ Len(Back(d).right) = Len(d.right) + 1
      /\ Back(d).right[1] = d.left[Len(d.left)]
      /\ \A i \in 1..Len(d.right) : Back(d).right[i + 1] = d.right[i]
  BY <1>3, <1>5, BackFacts
<1>7. AllBlank(Back(d).right)
  <2> SUFFICES ASSUME NEW i \in 1..Len(Back(d).right)
               PROVE  Back(d).right[i] = Blank
    BY DEF AllBlank
  <2>1. CASE i = 1
    BY <1>4, <1>6, <2>1
  <2>2. CASE i # 1
    <3>1. i - 1 \in 1..Len(d.right) /\ i = (i - 1) + 1
      BY <1>5, <1>6, <2>2, SMTT(30)
    <3> QED BY <1>4, <1>6, <3>1 DEF AllBlank
  <2> QED BY <2>1, <2>2
<1> QED BY <1>2, <1>6, <1>7

LEMMA Modulo ==
    ASSUME NEW a \in Nat, NEW k \in Nat, k > 0
    PROVE  a % k \in 0..(k - 1)
OBVIOUS

LEMMA SameInterval ==
    ASSUME NEW a \in Nat, NEW b \in Nat, 1..a = 1..b
    PROVE  a = b
<1>1. a > b => a \in 1..a /\ a \notin 1..b
  OBVIOUS
<1>2. b > a => b \in 1..b /\ b \notin 1..a
  OBVIOUS
<1> QED BY <1>1, <1>2

LEMMA Beyond ==
    ASSUME NEW n \in Nat, NEW d \in Nat, NEW k \in Nat
    PROVE  /\ \A i \in 1..n : i <= n /\ i \in 1..(n + d)
           /\ \A i \in 1..(n + d) : i <= n => i \in 1..n
           /\ \A i \in 1..(n + d) : ~(i <= n) /\ i - n <= k => i - n \in 1..k
OBVIOUS

LEMMA TabFacts ==
    ASSUME NEW r \in Row, AllBlank(r.right)
    PROVE  /\ Tab(r) \in Row
           /\ Len(Tab(r).left) >= Len(r.left) + 1
           /\ Begins(r, Tab(r))
           /\ AllBlank(Tab(r).right)
<1>1. /\ r.left \in Seq(Cells) /\ r.right \in Seq(Cells)
      /\ Len(r.left) \in Nat /\ Len(r.right) \in Nat
  BY LenProperties DEF Row
<1>2. PICK d \in Nat : d = TabStop - (Len(r.left) % TabStop) /\ d >= 1
  <2> DEFINE w == Len(r.left) % TabStop
  <2>1. TabStop \in Nat /\ TabStop > 0
    BY ConsoleAssumption, SMTT(30)
  <2>2. w \in 0..(TabStop - 1)
    BY <1>1, <2>1, Modulo
  <2> HIDE DEF w
  <2>3. TabStop - w \in Nat /\ TabStop - w >= 1
    BY <2>1, <2>2
  <2> QED BY <2>3 DEF w
<1>0. d \in Nat /\ d >= 1
  BY <1>2
<1> DEFINE cell(i) == IF i <= Len(r.left) THEN r.left[i]
                      ELSE IF i - Len(r.left) <= Len(r.right)
                           THEN r.right[i - Len(r.left)]
                      ELSE Blank
           s == [i \in 1..(Len(r.left) + d) |-> cell(i)]
           t == SubSeq(r.right, d + 1, Len(r.right))
<1>3. Tab(r) = [left |-> s, right |-> t]
  BY <1>2 DEF Tab, MoveOver
<1>4. /\ \A i \in 1..Len(r.left) : r.left[i] \in Cells
      /\ \A i \in 1..Len(r.right) : r.right[i] \in Cells
      /\ Blank \in Cells
  BY <1>1, ElementOfSeq DEF Cells
<1>5. /\ \A i \in 1..(Len(r.left) + d) : cell(i) \in Cells
      /\ \A i \in 1..Len(r.left) : cell(i) = r.left[i] /\ i \in 1..(Len(r.left) + d)
  <2>1. ASSUME NEW i \in 1..(Len(r.left) + d) PROVE cell(i) \in Cells
    <3>1. CASE i <= Len(r.left)
      BY <1>0, <1>1, <1>4, <3>1, Beyond
    <3>2. CASE ~(i <= Len(r.left))
      <4>1. i - Len(r.left) <= Len(r.right) =>
              i - Len(r.left) \in 1..Len(r.right)
        BY <1>0, <1>1, <3>2, Beyond
      <4> QED BY <1>4, <3>2, <4>1
    <3> QED BY <3>1, <3>2
  <2>2. ASSUME NEW i \in 1..Len(r.left)
        PROVE  cell(i) = r.left[i] /\ i \in 1..(Len(r.left) + d)
    BY <1>0, <1>1, Beyond
  <2> QED BY <2>1, <2>2
<1> HIDE DEF cell
<1>6. /\ s \in [1..(Len(r.left) + d) -> Cells]
      /\ \A i \in 1..Len(r.left) : s[i] = r.left[i]
  BY <1>5
<1> HIDE DEF s
<1>7. s \in Seq(Cells) /\ Len(s) = Len(r.left) + d
  <2>1. Len(r.left) + d \in Nat
    BY <1>0, <1>1
  <2>2. s \in Seq(Cells)
    BY <1>6, <2>1, SeqDef
  <2>3. DOMAIN s = 1..Len(s) /\ Len(s) \in Nat
    BY <2>2, LenProperties
  <2>4. 1..Len(s) = 1..(Len(r.left) + d)
    BY <1>6, <2>3
  <2> QED BY <2>1, <2>2, <2>3, <2>4, SameInterval
<1>8. t \in Seq(Cells) /\ AllBlank(t)
  BY <1>0, <1>1, Skip, SkipBlank
<1> HIDE DEF t
<1>9. Tab(r).left = s /\ Tab(r).right = t /\ Tab(r) \in Row
  BY <1>3, <1>7, <1>8, SMTT(30) DEF Row
<1> QED BY <1>0, <1>1, <1>6, <1>7, <1>8, <1>9 DEF Begins

\* A stored byte leaves the row as it was up to the cursor, and adds to it
\* unless it is a control character, or ends the line.
LEMMA EchoedFacts ==
    ASSUME NEW r \in Row, AllBlank(r.right), NEW c \in Bytes
    PROVE  /\ Echoed(r, c) \in Row
           /\ AllBlank(Echoed(r, c).right)
           /\ c # "lf" => Begins(r, Echoed(r, c))
           /\ c # "lf" /\ c \notin Control =>
                 Len(Echoed(r, c).left) >= Len(r.left) + 1
           /\ c \in Printable =>
                 /\ Len(Echoed(r, c).left) = Len(r.left) + 1
                 /\ Echoed(r, c).left[Len(r.left) + 1] = c
<1>1. /\ r.right \in Seq(Cells) /\ Len(r.left) \in Nat
      /\ Printable \cap {"lf", "tab"} = {} /\ Control \cap {"lf", "tab"} = {}
      /\ Printable \cap Control = {}
  BY LenProperties, ConsoleAssumption DEF Row, Enders
<1>2. CASE c = "lf"
  <2>1. Echoed(r, c) = [left |-> <<>>, right |-> <<>>]
    BY <1>1, <1>2 DEF Echoed, NewRow
  <2>2. [left |-> <<>>, right |-> <<>>] \in Row
    BY EmptySeq DEF Row
  <2>3. AllBlank(<<>>)
    BY DEF AllBlank
  <2> QED BY <1>1, <1>2, <2>1, <2>2, <2>3
<1>3. CASE c \in Printable
  <2>1. Echoed(r, c) = Draw(r, c) /\ c \in Cells
    BY <1>1, <1>3 DEF Echoed, Cells
  <2>2. AllBlank(SubSeq(r.right, 1 + 1, Len(r.right)))
    BY <1>1, SkipBlank
  <2>3. AllBlank(Draw(r, c).right)
    BY <2>1, <2>2, DrawFacts
  <2> QED BY <1>1, <1>3, <2>1, <2>3, DrawFacts, SMTT(30)
<1>4. CASE c = "tab"
  <2>1. Echoed(r, c) = Tab(r)
    BY <1>1, <1>4 DEF Echoed
  <2> QED BY <1>1, <1>4, <2>1, TabFacts
<1>5. CASE c \in Control
  <2>1. Echoed(r, c) = r
    BY <1>1, <1>5 DEF Echoed
  <2> QED BY <1>1, <1>5, <2>1, SMTT(30) DEF Begins
<1> QED BY <1>2, <1>3, <1>4, <1>5 DEF Bytes

-----------------------------------------------------------------------------
(* The invariant.                                                          *)

NoControl == \A i \in DOMAIN keys : keys[i] \notin Control

OnlyPrinted == \A i \in DOMAIN keys : keys[i] \in Printable \cup Erasers

\* The prompt, and room for the line after it.
Room ==
    req # None /\ NoControl =>
        /\ Len(base) + Len(buf) <= Len(row.left)
        /\ \A i \in 1..Len(base) : row.left[i] = base[i]

\* The line itself.
Aligned ==
    req # None /\ OnlyPrinted =>
        /\ Len(row.left) = Len(base) + Len(buf)
        /\ \A i \in 1..Len(buf) : row.left[Len(base) + i] = buf[i]

IInv == TypeOK /\ AllBlank(row.right) /\ Room /\ Aligned

\* What a key adds to the keys taken.
LEMMA KeyTaken ==
    ASSUME keys \in Seq(Keys), NEW key \in Keys, keys' = Append(keys, key)
    PROVE  /\ keys' \in Seq(Keys)
           /\ NoControl' => NoControl /\ key \notin Control
           /\ OnlyPrinted' => OnlyPrinted /\ key \in Printable \cup Erasers
<1>1. /\ keys' \in Seq(Keys) /\ Len(keys) \in Nat
      /\ Len(keys') = Len(keys) + 1
      /\ \A i \in 1..Len(keys) : keys'[i] = keys[i]
      /\ keys'[Len(keys) + 1] = key
  BY AppendProperties, LenProperties, SMTT(30)
<1>2. DOMAIN keys = 1..Len(keys) /\ DOMAIN keys' = 1..Len(keys')
  BY <1>1, LenProperties
<1>3. \A i \in DOMAIN keys : i \in DOMAIN keys' /\ keys'[i] = keys[i]
  BY <1>1, <1>2
<1>4. Len(keys) + 1 \in DOMAIN keys'
  BY <1>1, <1>2
<1> QED BY <1>1, <1>3, <1>4 DEF NoControl, OnlyPrinted

LEMMA EraseKeeps ==
    ASSUME IInv, ReadTurn, Erase
    PROVE  IInv'
<1>1. /\ rx \in Erasers /\ rx \in Keys /\ req # None /\ rx' = None /\ req' = req
      /\ keys' = Append(keys, rx) /\ UNCHANGED <<pressed, base>>
  BY DEF ReadTurn, Erase, Keys
<1>2. /\ buf \in Seq(Bytes) /\ keys \in Seq(Keys) /\ base \in Seq(Cells)
      /\ row \in Row /\ req \in Counts \cup {None} /\ pressed \in 0..MaxKeys
      /\ Len(buf) < req /\ AllBlank(row.right)
      /\ Room /\ Aligned
  BY <1>1 DEF IInv, TypeOK, Row
<1>3. req \in Nat /\ Len(buf) \in Nat /\ Len(base) \in Nat /\ Len(row.left) \in Nat
  BY <1>1, <1>2, ConsoleAssumption, LenProperties DEF Row
<1>4. /\ keys' \in Seq(Keys)
      /\ NoControl' => NoControl /\ rx \notin Control
      /\ OnlyPrinted' => OnlyPrinted /\ rx \in Printable \cup Erasers
  BY <1>1, <1>2, KeyTaken
<1>5. CASE buf = <<>>
  <2>1. UNCHANGED <<buf, row>>
    BY <1>5 DEF Erase
  <2>2. TypeOK'
    BY <1>1, <1>2, <1>4, <2>1 DEF TypeOK, Row
  <2>3. Room' /\ Aligned' /\ AllBlank(row.right)'
    BY <1>1, <1>2, <1>4, <2>1 DEF Room, Aligned
  <2> QED BY <2>2, <2>3 DEF IInv
<1>6. CASE buf # <<>>
  <2>1. buf' = SubSeq(buf, 1, Len(buf) - 1) /\ row' = Erased(row)
    BY <1>6 DEF Erase, Shorter
  <2>2. Len(buf) > 0 /\ Len(buf) - 1 \in Nat /\ Len(buf) - 1 <= Len(buf)
    BY <1>2, <1>3, <1>6, EmptySeq
  <2>3. /\ buf' \in Seq(Bytes)
        /\ Len(buf') = Len(buf) - 1
        /\ \A i \in 1..(Len(buf) - 1) : buf'[i] = buf[i]
    BY <1>2, <2>1, <2>2, Cut
  <2>4. row' \in Row /\ AllBlank(row'.right)
    BY <1>2, <2>1, ErasedFacts, ErasedNothing
  <2>5. TypeOK'
    <3>1. Len(buf') < req'
      BY <1>1, <1>2, <1>3, <2>3
    <3> QED BY <1>1, <1>2, <1>4, <2>3, <2>4, <3>1 DEF TypeOK, Row
  <2>6. ASSUME Len(row.left) > 0
        PROVE  /\ Len(row'.left) = Len(row.left) - 1
               /\ \A i \in 1..(Len(row.left) - 1) : row'.left[i] = row.left[i]
    <3>1. row.left # <<>>
      BY <2>6
    <3> QED BY <1>2, <2>1, <3>1, ErasedFacts
  <2>7. Room'
    <3> SUFFICES ASSUME NoControl'
                 PROVE  /\ Len(base) + Len(buf') <= Len(row'.left)
                        /\ \A i \in 1..Len(base) : row'.left[i] = base[i]
      BY <1>1 DEF Room
    <3>1. /\ Len(base) + Len(buf) <= Len(row.left)
          /\ \A i \in 1..Len(base) : row.left[i] = base[i]
      BY <1>1, <1>2, <1>4 DEF Room
    <3>2. \A i \in 1..Len(base) : i \in 1..(Len(row.left) - 1)
      BY <1>3, <2>2, <3>1
    <3> QED BY <1>3, <2>2, <2>3, <2>6, <3>1, <3>2
  <2>8. Aligned'
    <3> SUFFICES ASSUME OnlyPrinted'
                 PROVE  /\ Len(row'.left) = Len(base) + Len(buf')
                        /\ \A i \in 1..Len(buf') : row'.left[Len(base) + i] = buf'[i]
      BY <1>1 DEF Aligned
    <3>1. /\ Len(row.left) = Len(base) + Len(buf)
          /\ \A i \in 1..Len(buf) : row.left[Len(base) + i] = buf[i]
      BY <1>1, <1>2, <1>4 DEF Aligned
    <3>2. ASSUME NEW i \in 1..Len(buf')
          PROVE  /\ i \in 1..(Len(buf) - 1) /\ i \in 1..Len(buf)
                 /\ Len(base) + i \in 1..(Len(row.left) - 1)
      BY <1>3, <2>2, <2>3, <3>1
    <3>3. Len(row.left) > 0 /\ Len(row.left) - 1 = Len(base) + Len(buf')
      BY <1>3, <2>2, <2>3, <3>1
    <3>4. Len(row'.left) = Len(base) + Len(buf')
      BY <2>6, <3>3
    <3>5. \A i \in 1..Len(buf') : row'.left[Len(base) + i] = buf'[i]
      BY <2>3, <2>6, <3>1, <3>2, <3>3
    <3> QED BY <3>4, <3>5
  <2> QED BY <2>4, <2>5, <2>7, <2>8 DEF IInv
<1> QED BY <1>5, <1>6

LEMMA StoreKeeps ==
    ASSUME IInv, ReadTurn, Store
    PROVE  IInv'
<1> DEFINE c == IF rx \in Enders THEN "lf" ELSE rx
<1>1. /\ rx \notin Erasers /\ rx # None /\ req # None /\ rx' = None
      /\ keys' = Append(keys, rx) /\ UNCHANGED <<pressed, base>>
      /\ row' = Echoed(row, c) /\ buf' = Append(buf, c)
      /\ req' = IF c = "lf" \/ Len(buf) + 1 >= req THEN None ELSE req
  BY DEF ReadTurn, Store
<1>2. /\ buf \in Seq(Bytes) /\ keys \in Seq(Keys) /\ base \in Seq(Cells)
      /\ row \in Row /\ req \in Counts \cup {None} /\ pressed \in 0..MaxKeys
      /\ rx \in Keys /\ Len(buf) < req /\ AllBlank(row.right)
      /\ Room /\ Aligned
  BY <1>1 DEF IInv, TypeOK, Row
<1>3. req \in Nat /\ Len(buf) \in Nat /\ Len(base) \in Nat /\ Len(row.left) \in Nat
  BY <1>1, <1>2, ConsoleAssumption, LenProperties DEF Row
<1>4. /\ keys' \in Seq(Keys)
      /\ NoControl' => NoControl /\ rx \notin Control
      /\ OnlyPrinted' => OnlyPrinted /\ rx \in Printable \cup Erasers
  BY <1>1, <1>2, KeyTaken
<1>5. c \in Bytes /\ (c # "lf" => c = rx)
  BY <1>1, <1>2 DEF Bytes, Keys, Enders
<1> HIDE DEF c
<1>6. /\ row' \in Row /\ AllBlank(row'.right)
      /\ c # "lf" => Begins(row, row')
      /\ c # "lf" /\ c \notin Control => Len(row'.left) >= Len(row.left) + 1
      /\ c \in Printable => /\ Len(row'.left) = Len(row.left) + 1
                            /\ row'.left[Len(row.left) + 1] = c
  BY <1>1, <1>2, <1>5, EchoedFacts
<1>7. /\ buf' \in Seq(Bytes) /\ Len(buf') = Len(buf) + 1
      /\ \A i \in 1..Len(buf) : buf'[i] = buf[i]
      /\ buf'[Len(buf) + 1] = c
  BY <1>1, <1>2, <1>5, AppendProperties, SMTT(30)
<1>8. /\ req' \in Counts \cup {None}
      /\ req' # None => c # "lf" /\ c = rx /\ Len(buf') < req'
  BY <1>1, <1>2, <1>3, <1>5, <1>7
<1>9. Len(row'.left) \in Nat
  BY <1>6, LenProperties DEF Row
<1>a. TypeOK'
  BY <1>1, <1>2, <1>4, <1>6, <1>7, <1>8 DEF TypeOK, Row
<1>b. Room'
  <2> SUFFICES ASSUME req' # None, NoControl'
               PROVE  /\ Len(base) + Len(buf') <= Len(row'.left)
                      /\ \A i \in 1..Len(base) : row'.left[i] = base[i]
    BY <1>1 DEF Room
  <2>1. /\ Len(base) + Len(buf) <= Len(row.left)
        /\ \A i \in 1..Len(base) : row.left[i] = base[i]
    BY <1>1, <1>2, <1>4 DEF Room
  <2>2. /\ Len(row'.left) >= Len(row.left) + 1
        /\ \A i \in 1..Len(row.left) : row'.left[i] = row.left[i]
    BY <1>4, <1>6, <1>8 DEF Begins
  <2>3. \A i \in 1..Len(base) : i \in 1..Len(row.left)
    BY <1>3, <2>1
  <2>4. Len(base) + Len(buf') <= Len(row'.left)
    BY <1>3, <1>7, <1>9, <2>1, <2>2
  <2> QED BY <2>1, <2>2, <2>3, <2>4
<1>c. Aligned'
  <2> SUFFICES ASSUME req' # None, OnlyPrinted'
               PROVE  /\ Len(row'.left) = Len(base) + Len(buf')
                      /\ \A i \in 1..Len(buf') : row'.left[Len(base) + i] = buf'[i]
    BY <1>1 DEF Aligned
  <2>1. /\ Len(row.left) = Len(base) + Len(buf)
        /\ \A i \in 1..Len(buf) : row.left[Len(base) + i] = buf[i]
    BY <1>1, <1>2, <1>4 DEF Aligned
  <2>2. c \in Printable
    BY <1>1, <1>4, <1>8
  <2>3. /\ Len(row'.left) = Len(row.left) + 1
        /\ row'.left[Len(row.left) + 1] = c
        /\ \A i \in 1..Len(row.left) : row'.left[i] = row.left[i]
    BY <1>6, <1>8, <2>2 DEF Begins
  <2>4. Len(row'.left) = Len(base) + Len(buf')
    BY <1>3, <1>7, <2>1, <2>3, SMTT(30)
  <2>5. ASSUME NEW i \in 1..Len(buf')
        PROVE  row'.left[Len(base) + i] = buf'[i]
    <3>1. CASE i = Len(buf) + 1
      <4>1. Len(base) + i = Len(row.left) + 1
        BY <1>3, <2>1, <3>1
      <4> QED BY <1>7, <2>3, <3>1, <4>1
    <3>2. CASE i # Len(buf) + 1
      <4>1. i \in 1..Len(buf) /\ Len(base) + i \in 1..Len(row.left)
        BY <1>3, <1>7, <2>1, <3>2, SMTT(30)
      <4> QED BY <1>7, <2>1, <2>3, <4>1
    <3> QED BY <3>1, <3>2
  <2> QED BY <2>4, <2>5
<1> QED BY <1>6, <1>a, <1>b, <1>c DEF IInv

LEMMA SysReadKeeps ==
    ASSUME IInv, NEW count \in Counts, SysRead(count)
    PROVE  IInv'
<1>1. /\ req' = IF count = 0 THEN None ELSE count
      /\ buf' = <<>> /\ keys' = <<>> /\ base' = row.left
      /\ UNCHANGED <<rx, row, pressed>>
  BY DEF SysRead
<1>2. /\ row \in Row /\ row.left \in Seq(Cells) /\ AllBlank(row.right)
      /\ rx \in Keys \cup {None} /\ pressed \in 0..MaxKeys
      /\ count \in Nat
  BY ConsoleAssumption DEF IInv, TypeOK, Row
<1>3. Len(buf') = 0 /\ buf' \in Seq(Bytes) /\ keys' \in Seq(Keys)
  BY <1>1, EmptySeq
<1>4. Len(base') \in Nat /\ Len(row.left) = Len(base')
  BY <1>1, <1>2, LenProperties
<1>5. TypeOK'
  <2>1. req' # None => Len(buf') < req'
    BY <1>1, <1>2, <1>3
  <2> QED BY <1>1, <1>2, <1>3, <2>1 DEF TypeOK, Row
<1>6. Room' /\ Aligned'
  BY <1>1, <1>3, <1>4 DEF Room, Aligned
<1> QED BY <1>1, <1>2, <1>5, <1>6 DEF IInv

LEMMA SysWriteKeeps ==
    ASSUME IInv, NEW text \in Texts, SysWrite(text)
    PROVE  IInv'
<1> DEFINE t == SubSeq(row.right, Len(text) + 1, Len(row.right))
<1>1. /\ req = None /\ UNCHANGED <<rx, req, buf, pressed, keys, base>>
      /\ row' = [left |-> row.left \o text, right |-> t]
  BY DEF SysWrite
<1>2. TypeOK /\ AllBlank(row.right)
  BY DEF IInv
<1>3. row.left \in Seq(Cells) /\ row.right \in Seq(Cells)
  BY <1>2 DEF TypeOK
<1>4. text \in Seq(Printable) /\ Printable \subseteq Cells
  BY ConsoleAssumption DEF Cells
<1>5. text \in Seq(Cells) /\ Len(text) \in Nat
  BY <1>4, SeqMonotonic, LenProperties
<1>6. t \in Seq(Cells) /\ AllBlank(t)
  BY <1>2, <1>3, <1>5, Skip, SkipBlank
<1>7. row.left \o text \in Seq(Cells)
  BY <1>3, <1>5, ConcatProperties
<1> HIDE DEF t
<1>8. row' \in Row /\ row'.right = t
  BY <1>1, <1>6, <1>7 DEF Row
<1>9. TypeOK'
  BY <1>1, <1>2, <1>8 DEF TypeOK, Row
<1>a. Room' /\ Aligned'
  BY <1>1 DEF Room, Aligned
<1> QED BY <1>6, <1>8, <1>9, <1>a DEF IInv

LEMMA KeyKeeps ==
    ASSUME IInv, NEW key \in Keys, KeyPressed(key)
    PROVE  IInv'
<1>1. /\ rx' = key /\ pressed < MaxKeys /\ pressed' = pressed + 1
      /\ UNCHANGED <<req, buf, row, keys, base>>
  BY DEF KeyPressed
<1>2. TypeOK /\ AllBlank(row.right) /\ Room /\ Aligned
  BY DEF IInv
<1>3. pressed' \in 0..MaxKeys
  BY <1>1, <1>2, ConsoleAssumption, SMTT(30) DEF TypeOK
<1>4. TypeOK'
  BY <1>1, <1>2, <1>3 DEF TypeOK
<1>5. AllBlank(row.right)' /\ Room' /\ Aligned'
  BY <1>1, <1>2 DEF Room, Aligned, NoControl, OnlyPrinted
<1> QED BY <1>4, <1>5 DEF IInv

LEMMA StutterKeeps == IInv /\ UNCHANGED vars => IInv'
<1> SUFFICES ASSUME IInv, UNCHANGED vars PROVE IInv'
  OBVIOUS
<1>1. UNCHANGED <<rx, req, buf, row, pressed, keys, base>>
  BY DEF vars
<1>2. TypeOK'
  BY <1>1 DEF IInv, TypeOK
<1>3. AllBlank(row.right)' /\ Room' /\ Aligned'
  BY <1>1 DEF IInv, Room, Aligned, NoControl, OnlyPrinted
<1> QED BY <1>2, <1>3 DEF IInv

LEMMA InitEstablishes == Init => IInv
<1> SUFFICES ASSUME Init PROVE IInv
  OBVIOUS
<1>1. /\ rx = None /\ req = None /\ buf = <<>> /\ pressed = 0 /\ keys = <<>>
      /\ base = <<>> /\ row = [left |-> <<>>, right |-> <<>>]
  BY DEF Init
<1>2. row \in Row /\ Len(row.right) = 0
  BY <1>1, EmptySeq DEF Row
<1>3. /\ buf \in Seq(Bytes) /\ keys \in Seq(Keys) /\ base \in Seq(Cells)
  BY <1>1, EmptySeq
<1>4. TypeOK
  BY <1>1, <1>2, <1>3, ConsoleAssumption, SMTT(30) DEF TypeOK, Row
<1> QED BY <1>1, <1>2, <1>4 DEF IInv, AllBlank, Room, Aligned

LEMMA NextKeeps == IInv /\ [Next]_vars => IInv'
<1> SUFFICES ASSUME IInv, [Next]_vars PROVE IInv'
  OBVIOUS
<1>1. CASE ReadTurn
  BY <1>1, EraseKeeps, StoreKeeps DEF ReadTurn
<1>2. CASE ReadSpins
  BY <1>2, StutterKeeps DEF ReadSpins
<1>3. CASE \E count \in Counts : SysRead(count)
  BY <1>3, SysReadKeeps
<1>4. CASE \E text \in Texts : SysWrite(text)
  BY <1>4, SysWriteKeeps
<1>5. CASE \E key \in Keys : KeyPressed(key)
  BY <1>5, KeyKeeps
<1>6. CASE UNCHANGED vars
  BY <1>6, StutterKeeps
<1> QED BY <1>1, <1>2, <1>3, <1>4, <1>5, <1>6 DEF Next

-----------------------------------------------------------------------------
(* Theorems.                                                               *)

\* The invariant holds in every reachable state.
LEMMA Invariance == Spec => []IInv
<1> QED BY InitEstablishes, NextKeeps, PTL DEF Spec

\* A read never puts more into the buffer than the count it was called with:
\* the check at the end of sys_read's loop.
THEOREM TypeCorrect == Spec => []TypeOK
<1>1. IInv => TypeOK
  BY DEF IInv
<1> QED BY <1>1, Invariance, PTL

\* Whatever is typed and erased, control characters apart, what was left of
\* the cursor when sys_read began stays on the screen.
THEOREM PromptAlwaysKept == Spec => []PromptKept
<1>1. IInv => PromptKept
  <2> SUFFICES ASSUME IInv, req # None,
                      \A i \in DOMAIN keys : keys[i] \notin Control
               PROVE  /\ Len(base) <= Len(row.left)
                      /\ \A i \in DOMAIN base : row.left[i] = base[i]
    BY DEF PromptKept
  <2>1. /\ Len(base) + Len(buf) <= Len(row.left)
        /\ \A i \in 1..Len(base) : row.left[i] = base[i]
    BY DEF IInv, Room, NoControl
  <2>2. base \in Seq(Cells) /\ buf \in Seq(Bytes) /\ row.left \in Seq(Cells)
    BY DEF IInv, TypeOK
  <2>3. /\ Len(base) \in Nat /\ Len(buf) \in Nat /\ Len(row.left) \in Nat
        /\ DOMAIN base = 1..Len(base)
    BY <2>2, LenProperties
  <2> QED BY <2>1, <2>3
<1> QED BY <1>1, Invariance, PTL

\* While printable characters are typed and erased, the screen shows the
\* prompt, the bytes sys_read has stored, and nothing after them.
THEOREM ScreenAlwaysShowsLine == Spec => []ScreenShowsLine
<1>1. IInv => ScreenShowsLine
  <2> SUFFICES ASSUME IInv, req # None,
                      \A i \in DOMAIN keys : keys[i] \in Printable \cup Erasers
               PROVE  /\ row.left = base \o buf
                      /\ \A i \in DOMAIN row.right : row.right[i] = Blank
    BY DEF ScreenShowsLine
  <2>1. NoControl /\ OnlyPrinted
    <3>1. (Printable \cup Erasers) \cap Control = {}
      BY ConsoleAssumption
    <3> QED BY <3>1 DEF NoControl, OnlyPrinted
  <2>2. /\ Len(row.left) = Len(base) + Len(buf)
        /\ \A i \in 1..Len(base) : row.left[i] = base[i]
        /\ \A i \in 1..Len(buf) : row.left[Len(base) + i] = buf[i]
    BY <2>1 DEF IInv, Room, Aligned
  <2> DEFINE All == Cells \cup Bytes
  <2>3. base \in Seq(Cells) /\ buf \in Seq(Bytes)
        /\ row.left \in Seq(Cells) /\ row.right \in Seq(Cells)
        /\ Cells \subseteq All /\ Bytes \subseteq All
    BY DEF IInv, TypeOK
  <2> HIDE DEF All
  <2>4. base \in Seq(All) /\ buf \in Seq(All) /\ row.left \in Seq(All)
    BY <2>3, SeqMonotonic
  <2>5. Len(base) \in Nat /\ Len(buf) \in Nat
    BY <2>3, LenProperties
  <2>6. /\ base \o buf \in Seq(All)
        /\ Len(base \o buf) = Len(base) + Len(buf)
        /\ \A i \in 1..(Len(base) + Len(buf)) : (base \o buf)[i] =
              IF i <= Len(base) THEN base[i] ELSE buf[i - Len(base)]
    BY <2>4, ConcatProperties
  <2>7. ASSUME NEW i \in 1..Len(row.left)
        PROVE  row.left[i] = (base \o buf)[i]
    <3>1. CASE i <= Len(base)
      <4>1. i \in 1..Len(base) /\ i \in 1..(Len(base) + Len(buf))
        BY <2>2, <2>5, <3>1, SMTT(30)
      <4> QED BY <2>2, <2>6, <3>1, <4>1
    <3>2. CASE ~(i <= Len(base))
      <4> DEFINE j == i - Len(base)
      <4>1. /\ j \in 1..Len(buf) /\ Len(base) + j = i
            /\ i \in 1..(Len(base) + Len(buf))
        BY <2>2, <2>5, <3>2
      <4>2. (base \o buf)[i] = buf[j]
        BY <2>6, <3>2, <4>1
      <4> HIDE DEF j
      <4> QED BY <2>2, <4>1, <4>2
    <3> QED BY <3>1, <3>2
  <2>8. row.left = base \o buf
    BY <2>2, <2>4, <2>6, <2>7, SeqEqual, SMTT(30)
  <2>9. DOMAIN row.right = 1..Len(row.right) /\ AllBlank(row.right)
    BY <2>3, LenProperties DEF IInv
  <2> QED BY <2>8, <2>9 DEF AllBlank
<1> QED BY <1>1, Invariance, PTL

-----------------------------------------------------------------------------
(* The line: which keys are kept, as functions of the keys taken.          *)

Stored(key) == IF key \in Enders THEN "lf" ELSE key

ErasesIn(ks, i, j) == Cardinality({n \in i..j : ks[n] \in Erasers})

KeptIn(ks, i) ==
    /\ ks[i] \notin Erasers
    /\ \A j \in i..Len(ks) : 2 * ErasesIn(ks, i + 1, j) <= j - i

KeptTo(ks, i) == {j \in 1..i : KeptIn(ks, j)}

Place(ks, i) == Cardinality(KeptTo(ks, i))

\* b is what is kept of ks.  The second half makes it inductive: after key i
\* there are as many bytes more than erases as bytes are kept behind it, so
\* one more erase takes the last byte and no other; and every byte of b has
\* its key.
Edited(ks, b) ==
    /\ Len(b) = Place(ks, Len(ks))
    /\ \A i \in 1..Len(ks) : KeptIn(ks, i) => b[Place(ks, i)] = Stored(ks[i])
    /\ \A i \in 1..Len(ks) : KeptIn(ks, i) =>
          Len(ks) - i - 2 * ErasesIn(ks, i + 1, Len(ks)) = Len(b) - Place(ks, i)
    /\ \A n \in 1..Len(b) : \E i \in 1..Len(ks) : KeptIn(ks, i) /\ Place(ks, i) = n

\* Counting is finite, and the empty stretch has no erases.
LEMMA ErasesType ==
    ASSUME NEW ks, NEW i \in Int, NEW j \in Int
    PROVE  ErasesIn(ks, i, j) \in Nat /\ (i > j => ErasesIn(ks, i, j) = 0)
<1> DEFINE E == {n \in i..j : ks[n] \in Erasers}
<1>1. IsFiniteSet(i..j) /\ E \subseteq i..j
  BY FS_Interval
<1>2. IsFiniteSet(E)
  BY <1>1, FS_Subset
<1>3. Cardinality(E) \in Nat
  BY <1>2, FS_CardinalityType
<1>4. ASSUME i > j PROVE Cardinality(E) = 0
  <2>1. i..j = {}
    BY <1>4
  <2>2. E = {}
    BY <1>1, <2>1
  <2> QED BY <2>2, FS_EmptySet
<1> QED BY <1>3, <1>4 DEF ErasesIn

\* One more key.
LEMMA ErasesAppend ==
    ASSUME NEW ks \in Seq(Keys), NEW key \in Keys, NEW i \in Nat \ {0}
    PROVE  /\ \A j \in 0..Len(ks) : ErasesIn(Append(ks, key), i, j) = ErasesIn(ks, i, j)
           /\ i <= Len(ks) + 1 =>
                ErasesIn(Append(ks, key), i, Len(ks) + 1) =
                    ErasesIn(ks, i, Len(ks)) + IF key \in Erasers THEN 1 ELSE 0
<1> DEFINE L == Len(ks)
           new == Append(ks, key)
           E(s, j) == {n \in i..j : s[n] \in Erasers}
<1>1. /\ L \in Nat /\ new[L + 1] = key
      /\ \A n \in 1..L : new[n] = ks[n]
  BY AppendProperties, LenProperties, SMTT(30)
<1> HIDE DEF L, new
<1>2. ASSUME NEW j \in 0..L PROVE E(new, j) = E(ks, j)
  <2>1. \A n \in i..j : n \in 1..L
    BY <1>1
  <2> QED BY <1>1, <2>1
<1>3. ASSUME i <= L + 1
      PROVE  Cardinality(E(new, L + 1)) =
                Cardinality(E(ks, L)) + IF key \in Erasers THEN 1 ELSE 0
  <2>1. /\ \A n : n \in i..(L + 1) <=> n \in i..L \/ n = L + 1
        /\ L + 1 \notin i..L /\ L \in 0..L
    BY <1>1, <1>3
  <2>2. IsFiniteSet(E(ks, L)) /\ L + 1 \notin E(ks, L)
    <3>1. IsFiniteSet(i..L)
      BY <1>1, FS_Interval, SMTT(30)
    <3>2. E(ks, L) \subseteq i..L
      OBVIOUS
    <3> QED BY <2>1, <3>1, <3>2, FS_Subset
  <2>3. E(new, L) = E(ks, L)
    BY <1>2, <2>1
  <2>4. CASE key \in Erasers
    <3>1. E(new, L + 1) = E(new, L) \cup {L + 1}
      BY <1>1, <2>1, <2>4
    <3> QED BY <2>2, <2>3, <2>4, <3>1, FS_AddElement
  <2>5. CASE key \notin Erasers
    <3>1. E(new, L + 1) = E(new, L)
      BY <1>1, <2>1, <2>5
    <3>2. Cardinality(E(ks, L)) \in Nat
      BY <2>2, FS_CardinalityType
    <3>3. Cardinality(E(ks, L)) + 0 = Cardinality(E(ks, L))
      <4> HIDE DEF E
      <4> QED BY <3>2, SMTT(30)
    <3> QED BY <2>3, <2>5, <3>1, <3>3
  <2> QED BY <2>4, <2>5
<1> QED BY <1>2, <1>3 DEF ErasesIn, L, new

\* Which keys one more key keeps.
LEMMA KeptAppend ==
    ASSUME NEW ks \in Seq(Keys), NEW key \in Keys
    PROVE  /\ KeptIn(Append(ks, key), Len(ks) + 1) <=> key \notin Erasers
           /\ \A i \in 1..Len(ks) :
                 KeptIn(Append(ks, key), i) <=>
                    /\ KeptIn(ks, i)
                    /\ key \in Erasers => Len(ks) - i - 2 * ErasesIn(ks, i + 1, Len(ks)) > 0
<1> DEFINE L == Len(ks)
           new == Append(ks, key)
<1>1. /\ L \in Nat /\ Len(new) = L + 1 /\ new[L + 1] = key
      /\ \A n \in 1..L : new[n] = ks[n]
  BY AppendProperties, LenProperties, SMTT(30)
<1>2. ASSUME NEW i \in 1..L
      PROVE  /\ \A j \in i..L : ErasesIn(new, i + 1, j) = ErasesIn(ks, i + 1, j)
             /\ ErasesIn(new, i + 1, L + 1) =
                   ErasesIn(ks, i + 1, L) + IF key \in Erasers THEN 1 ELSE 0
             /\ ErasesIn(ks, i + 1, L) \in Nat
  <2>1. i + 1 \in Nat \ {0} /\ i + 1 <= L + 1 /\ L \in Int /\ \A j \in i..L : j \in 0..L
    BY <1>1
  <2>2. ErasesIn(ks, i + 1, L) \in Nat
    BY <2>1, ErasesType, SMTT(30)
  <2> QED BY <2>1, <2>2, ErasesAppend
<1>3. ErasesIn(new, L + 2, L + 1) = 0
  BY <1>1, ErasesType, SMTT(30)
<1> HIDE DEF L, new
<1>4. KeptIn(new, L + 1) <=> key \notin Erasers
  <2>1. \A j : j \in (L + 1)..Len(new) <=> j = L + 1
    BY <1>1
  <2>2. (L + 1) + 1 = L + 2 /\ 2 * 0 <= (L + 1) - (L + 1)
    BY <1>1
  <2> QED BY <1>1, <1>3, <2>1, <2>2 DEF KeptIn
<1>5. ASSUME NEW i \in 1..L
      PROVE  KeptIn(new, i) <=>
                /\ KeptIn(ks, i)
                /\ key \in Erasers => L - i - 2 * ErasesIn(ks, i + 1, L) > 0
  <2>1. /\ \A j : j \in i..Len(new) <=> j \in i..L \/ j = L + 1
        /\ new[i] = ks[i] /\ L \in i..L
    BY <1>1
  <2>2. KeptIn(new, i) <=>
           /\ ks[i] \notin Erasers
           /\ \A j \in i..L : 2 * ErasesIn(ks, i + 1, j) <= j - i
           /\ 2 * ErasesIn(new, i + 1, L + 1) <= (L + 1) - i
    BY <1>2, <2>1 DEF KeptIn
  <2>3. KeptIn(ks, i) <=>
           /\ ks[i] \notin Erasers
           /\ \A j \in i..L : 2 * ErasesIn(ks, i + 1, j) <= j - i
    BY DEF KeptIn, L
  <2>4. KeptIn(ks, i) => 2 * ErasesIn(ks, i + 1, L) <= L - i
    BY <2>1, <2>3
  <2>5. ASSUME 2 * ErasesIn(ks, i + 1, L) <= L - i
        PROVE  2 * ErasesIn(new, i + 1, L + 1) <= (L + 1) - i <=>
                  (key \in Erasers => L - i - 2 * ErasesIn(ks, i + 1, L) > 0)
    <3> DEFINE e == ErasesIn(ks, i + 1, L)
    <3>1. e \in Nat /\ ErasesIn(new, i + 1, L + 1) = e + IF key \in Erasers THEN 1 ELSE 0
      BY <1>2
    <3> HIDE DEF e
    <3>2. 2 * e <= L - i => /\ 2 * (e + 1) <= (L + 1) - i <=> L - i - 2 * e > 0
                            /\ 2 * (e + 0) <= (L + 1) - i
      BY <1>1, <3>1
    <3> QED BY <2>5, <3>1, <3>2 DEF e
  <2> QED BY <2>2, <2>3, <2>4, <2>5
<1> QED BY <1>4, <1>5 DEF L, new

\* Places go up from one kept key to the next.
LEMMA PlaceFacts ==
    ASSUME NEW ks, NEW i \in Nat
    PROVE  /\ IsFiniteSet(KeptTo(ks, i)) /\ Place(ks, i) \in Nat
           /\ \A j \in Nat : i <= j => Place(ks, i) <= Place(ks, j)
           /\ \A j \in Nat : i < j /\ KeptIn(ks, j) => Place(ks, i) < Place(ks, j)
<1>1. \A j \in Nat : IsFiniteSet(KeptTo(ks, j)) /\ Place(ks, j) \in Nat
  <2> TAKE j \in Nat
  <2>1. IsFiniteSet(1..j) /\ KeptTo(ks, j) \subseteq 1..j
    BY FS_Interval DEF KeptTo
  <2>2. IsFiniteSet(KeptTo(ks, j))
    BY <2>1, FS_Subset
  <2> QED BY <2>2, FS_CardinalityType DEF Place
<1>2. ASSUME NEW j \in Nat, i <= j PROVE Place(ks, i) <= Place(ks, j)
  <2>1. \A n \in 1..i : n \in 1..j
    BY <1>2
  <2>2. KeptTo(ks, i) \subseteq KeptTo(ks, j)
    BY <2>1 DEF KeptTo
  <2> QED BY <1>1, <2>2, FS_Subset DEF Place
<1>3. ASSUME NEW j \in Nat, i < j, KeptIn(ks, j) PROVE Place(ks, i) < Place(ks, j)
  <2> DEFINE S == KeptTo(ks, i) \cup {j}
  <2>1. /\ \A n \in 1..i : n \in 1..j
        /\ j \in 1..j /\ j \notin 1..i
    BY <1>3
  <2>2. S \subseteq KeptTo(ks, j) /\ j \notin KeptTo(ks, i)
    BY <1>3, <2>1 DEF KeptTo
  <2>3. Cardinality(S) = Place(ks, i) + 1
    BY <1>1, <2>2, FS_AddElement DEF Place
  <2> HIDE DEF S
  <2>4. Cardinality(S) <= Place(ks, j)
    BY <1>1, <2>2, FS_Subset DEF Place
  <2> QED BY <1>1, <2>3, <2>4, SMTT(30)
<1> QED BY <1>1, <1>2, <1>3

\* A kept key has its place in the line.
LEMMA PlaceRange ==
    ASSUME NEW ks \in Seq(Keys), NEW i \in 1..Len(ks), KeptIn(ks, i)
    PROVE  Place(ks, i) \in 1..Place(ks, Len(ks))
<1>1. /\ Len(ks) \in Nat /\ i \in Nat /\ 0 \in Nat /\ 0 < i /\ i <= Len(ks)
  BY LenProperties
<1>2. Place(ks, 0) \in Nat /\ Place(ks, i) \in Nat /\ Place(ks, Len(ks)) \in Nat
  BY <1>1, PlaceFacts
<1>3. Place(ks, 0) < Place(ks, i) /\ Place(ks, i) <= Place(ks, Len(ks))
  BY <1>1, PlaceFacts
<1> QED BY <1>2, <1>3

LEMMA EmptyEdited == Edited(<<>>, <<>>)
<1>1. Len(<<>>) = 0 /\ 1..0 = {}
  OBVIOUS
<1>2. KeptTo(<<>>, 0) = {}
  BY <1>1 DEF KeptTo
<1> QED BY <1>1, <1>2, FS_EmptySet DEF Edited, Place

\* A key that stores a byte is kept, in the place after the last.
LEMMA StoreEdited ==
    ASSUME NEW ks \in Seq(Keys), NEW b \in Seq(Bytes), NEW key \in Keys \ Erasers,
           Stored(key) \in Bytes, Edited(ks, b)
    PROVE  Edited(Append(ks, key), Append(b, Stored(key)))
<1> DEFINE L == Len(ks)
           M == Len(b)
           new == Append(ks, key)
           nb == Append(b, Stored(key))
<1>1. /\ L \in Nat /\ Len(new) = L + 1 /\ new[L + 1] = key
      /\ \A n \in 1..L : new[n] = ks[n]
  BY AppendProperties, LenProperties, SMTT(30)
<1>2. /\ M \in Nat /\ Len(nb) = M + 1 /\ nb[M + 1] = Stored(key)
      /\ \A n \in 1..M : nb[n] = b[n]
  BY AppendProperties, LenProperties, SMTT(30)
<1>3. KeptIn(new, L + 1) /\ \A i \in 1..L : KeptIn(new, i) <=> KeptIn(ks, i)
  BY KeptAppend
<1>4. ASSUME NEW i \in 1..L
      PROVE  ErasesIn(new, i + 1, L + 1) = ErasesIn(ks, i + 1, L)
  <2>1. i + 1 \in Nat \ {0} /\ i + 1 <= L + 1 /\ L \in Int /\ i + 1 \in Int
    BY <1>1
  <2>2. ErasesIn(ks, i + 1, L) \in Nat
    BY <2>1, ErasesType
  <2>3. ErasesIn(new, i + 1, L + 1) = ErasesIn(ks, i + 1, L) + 0
    BY <2>1, ErasesAppend
  <2> QED BY <2>2, <2>3
<1>5. ErasesIn(new, (L + 1) + 1, L + 1) = 0
  <2>1. (L + 1) + 1 \in Int /\ L + 1 \in Int /\ (L + 1) + 1 > L + 1
    BY <1>1
  <2> QED BY <2>1, ErasesType
<1>a. /\ M = Place(ks, L)
      /\ \A i \in 1..L : KeptIn(ks, i) => b[Place(ks, i)] = Stored(ks[i])
      /\ \A i \in 1..L : KeptIn(ks, i) =>
           L - i - 2 * ErasesIn(ks, i + 1, L) = M - Place(ks, i)
      /\ \A n \in 1..M : \E i \in 1..L : KeptIn(ks, i) /\ Place(ks, i) = n
  BY DEF Edited
<1>6. /\ \A i \in 1..L : Place(new, i) = Place(ks, i)
      /\ Place(new, L + 1) = M + 1
  <2>1. \A i \in 0..L : KeptTo(new, i) = KeptTo(ks, i)
    <3> TAKE i \in 0..L
    <3>1. \A n \in 1..i : n \in 1..L
      BY <1>1
    <3> QED BY <1>3, <3>1 DEF KeptTo
  <2>2. /\ \A n : n \in 1..(L + 1) <=> n \in 1..L \/ n = L + 1
        /\ L + 1 \notin 1..L /\ L \in 0..L /\ \A i \in 1..L : i \in 0..L
    BY <1>1, SMTT(30)
  <2>3. KeptTo(new, L + 1) = KeptTo(ks, L) \cup {L + 1}
    BY <1>3, <2>2 DEF KeptTo
  <2>4. L + 1 \notin KeptTo(ks, L) /\ IsFiniteSet(KeptTo(ks, L))
    BY <1>1, <2>2, PlaceFacts DEF KeptTo
  <2>5. Place(new, L + 1) = Place(ks, L) + 1
    BY <2>3, <2>4, FS_AddElement DEF Place
  <2> QED BY <1>a, <2>1, <2>2, <2>5 DEF Place
<1>7. \A i \in 1..L : KeptIn(ks, i) => Place(ks, i) \in 1..M
  BY <1>a, PlaceRange
<1>8. \A i \in 1..(L + 1) : i \in 1..L \/ i = L + 1
  BY <1>1
<1> HIDE DEF L, M, new, nb
<1>b. ASSUME NEW i \in 1..(L + 1), KeptIn(new, i)
      PROVE  nb[Place(new, i)] = Stored(new[i])
  <2>1. CASE i \in 1..L
    BY <1>1, <1>2, <1>3, <1>6, <1>7, <1>a, <1>b, <2>1
  <2>2. CASE i = L + 1
    BY <1>1, <1>2, <1>6, <2>2
  <2> QED BY <1>8, <2>1, <2>2
<1>c. ASSUME NEW i \in 1..(L + 1), KeptIn(new, i)
      PROVE  (L + 1) - i - 2 * ErasesIn(new, i + 1, L + 1) = (M + 1) - Place(new, i)
  <2>1. CASE i \in 1..L
    <3> DEFINE e == ErasesIn(ks, i + 1, L)
               q == Place(ks, i)
    <3>1. L - i - 2 * e = M - q /\ q \in 1..M
      BY <1>3, <1>7, <1>a, <1>c, <2>1
    <3>2. e \in Nat
      <4>1. i + 1 \in Int /\ L \in Int
        BY <1>1
      <4> QED BY <4>1, ErasesType
    <3>3. ErasesIn(new, i + 1, L + 1) = e /\ Place(new, i) = q
      BY <1>4, <1>6, <2>1
    <3> HIDE DEF e, q
    <3>4. (L + 1) - i - 2 * e = (M + 1) - q
      BY <1>1, <1>2, <3>1, <3>2
    <3> QED BY <3>3, <3>4
  <2>2. CASE i = L + 1
    BY <1>1, <1>2, <1>5, <1>6, <2>2, SMTT(30)
  <2> QED BY <1>8, <2>1, <2>2
<1>d. ASSUME NEW n \in 1..(M + 1)
      PROVE  \E i \in 1..(L + 1) : KeptIn(new, i) /\ Place(new, i) = n
  <2>1. CASE n = M + 1
    <3>1. L + 1 \in 1..(L + 1)
      BY <1>1
    <3> QED BY <1>3, <1>6, <2>1, <3>1
  <2>2. CASE n # M + 1
    <3>1. n \in 1..M /\ \A i \in 1..L : i \in 1..(L + 1)
      BY <1>1, <1>2, <2>2
    <3> QED BY <1>3, <1>6, <1>a, <3>1
  <2> QED BY <2>1, <2>2
<1>e. Edited(new, nb)
  BY <1>1, <1>2, <1>6, <1>b, <1>c, <1>d DEF Edited
<1> QED BY <1>e DEF new, nb

\* An erase takes the last byte kept, and nothing from an empty line.
LEMMA EraseEdited ==
    ASSUME NEW ks \in Seq(Keys), NEW b \in Seq(Bytes), NEW key \in Keys \cap Erasers,
           Edited(ks, b)
    PROVE  Edited(Append(ks, key), IF b = <<>> THEN b ELSE SubSeq(b, 1, Len(b) - 1))
<1> DEFINE L == Len(ks)
           M == Len(b)
           new == Append(ks, key)
           nb == IF b = <<>> THEN b ELSE SubSeq(b, 1, Len(b) - 1)
<1>1. /\ L \in Nat /\ Len(new) = L + 1 /\ new[L + 1] = key
      /\ \A n \in 1..L : new[n] = ks[n]
  BY AppendProperties, LenProperties, SMTT(30)
<1>2. /\ M \in Nat
      /\ M = 0 => Len(nb) = 0
      /\ M > 0 => Len(nb) = M - 1 /\ \A n \in 1..(M - 1) : nb[n] = b[n]
  <2>1. M \in Nat /\ (b = <<>> <=> M = 0)
    BY LenProperties, EmptySeq
  <2>2. ASSUME M > 0
        PROVE  /\ nb = SubSeq(b, 1, M - 1) /\ M - 1 \in Nat /\ M - 1 <= M
    BY <2>1, <2>2
  <2>3. ASSUME M > 0
        PROVE  /\ Len(SubSeq(b, 1, M - 1)) = M - 1
               /\ \A n \in 1..(M - 1) : SubSeq(b, 1, M - 1)[n] = b[n]
    BY <2>2, <2>3, Cut
  <2> QED BY <2>1, <2>2, <2>3
<1>a. /\ M = Place(ks, L)
      /\ \A i \in 1..L : KeptIn(ks, i) => b[Place(ks, i)] = Stored(ks[i])
      /\ \A i \in 1..L : KeptIn(ks, i) =>
           L - i - 2 * ErasesIn(ks, i + 1, L) = M - Place(ks, i)
      /\ \A n \in 1..M : \E i \in 1..L : KeptIn(ks, i) /\ Place(ks, i) = n
  BY DEF Edited
<1>3. \A i \in 1..L : KeptIn(ks, i) => Place(ks, i) \in 1..M
  BY <1>a, PlaceRange
<1>4. /\ ~KeptIn(new, L + 1)
      /\ \A i \in 1..L : KeptIn(new, i) <=> KeptIn(ks, i) /\ Place(ks, i) < M
  <2>1. /\ ~KeptIn(new, L + 1)
        /\ \A i \in 1..L : KeptIn(new, i) <=>
              KeptIn(ks, i) /\ L - i - 2 * ErasesIn(ks, i + 1, L) > 0
    BY KeptAppend
  <2>2. ASSUME NEW i \in 1..L, KeptIn(ks, i)
        PROVE  L - i - 2 * ErasesIn(ks, i + 1, L) > 0 <=> Place(ks, i) < M
    <3>1. L - i - 2 * ErasesIn(ks, i + 1, L) = M - Place(ks, i) /\ Place(ks, i) \in 1..M
      BY <1>3, <1>a, <2>2
    <3>2. M - Place(ks, i) > 0 <=> Place(ks, i) < M
      BY <1>2, <3>1
    <3> QED BY <3>1, <3>2
  <2> QED BY <2>1, <2>2
<1>5. \A i \in 1..(L + 1) : i \in 1..L \/ i = L + 1
  BY <1>1
<1>6. ASSUME NEW i \in 1..L
      PROVE  /\ ErasesIn(new, i + 1, L + 1) = ErasesIn(ks, i + 1, L) + 1
             /\ ErasesIn(ks, i + 1, L) \in Nat
  <2>1. i + 1 \in Nat \ {0} /\ i + 1 <= L + 1 /\ L \in Int /\ i + 1 \in Int
    BY <1>1
  <2> QED BY <2>1, ErasesType, ErasesAppend
<1> HIDE DEF L, new, nb
<1>7. CASE M = 0
  <2>1. \A i \in 1..(L + 1) : ~KeptIn(new, i)
    <3>1. \A i \in 1..L : ~(Place(ks, i) \in 1..M)
      BY <1>7
    <3> QED BY <1>3, <1>4, <1>5, <3>1
  <2>2. Place(new, L + 1) = 0
    <3>1. KeptTo(new, L + 1) = {}
      BY <2>1 DEF KeptTo
    <3> QED BY <3>1, FS_EmptySet DEF Place
  <2>3. Len(nb) = 0 /\ 1..0 = {}
    BY <1>2, <1>7
  <2> QED BY <1>1, <2>1, <2>2, <2>3 DEF Edited, new, nb
<1>8. CASE M > 0
  <2>1. PICK m \in 1..L : KeptIn(ks, m) /\ Place(ks, m) = M
    BY <1>2, <1>8, <1>a, SMTT(30)
  <2>2. \A i \in 1..L : KeptIn(ks, i) /\ i # m <=> KeptIn(ks, i) /\ Place(ks, i) < M
    <3>1. ASSUME NEW i \in 1..L, KeptIn(ks, i), i # m PROVE Place(ks, i) < M
      <4>1. i \in Nat /\ m \in Nat /\ (i < m \/ m < i)
        BY <1>1, <3>1
      <4>2. CASE i < m
        BY <2>1, <4>1, <4>2, PlaceFacts
      <4>3. CASE m < i
        <5>1. Place(ks, m) < Place(ks, i) /\ Place(ks, i) \in 1..M
          BY <1>3, <3>1, <4>1, <4>3, PlaceFacts
        <5> QED BY <1>2, <2>1, <5>1
      <4> QED BY <4>1, <4>2, <4>3
    <3>2. ~(M < M)
      BY <1>2
    <3> QED BY <2>1, <3>1, <3>2
  <2>3. \A i \in 1..(L + 1) : KeptIn(new, i) <=> i \in 1..L /\ KeptIn(ks, i) /\ i # m
    <3>1. L + 1 \notin 1..L
      BY <1>1
    <3> QED BY <1>4, <1>5, <2>2, <3>1
  <2>4. Place(new, L + 1) = M - 1
    <3>1. \A i : i \in 1..(L + 1) <=> i \in 1..L \/ i = L + 1
      BY <1>1
    <3>2. KeptTo(new, L + 1) = KeptTo(ks, L) \ {m}
      BY <1>4, <2>3, <3>1 DEF KeptTo
    <3>3. m \in KeptTo(ks, L) /\ IsFiniteSet(KeptTo(ks, L))
      BY <1>1, <2>1, PlaceFacts DEF KeptTo
    <3>4. Cardinality(KeptTo(ks, L) \ {m}) = Cardinality(KeptTo(ks, L)) - 1
      BY <3>3, FS_RemoveElement
    <3> QED BY <1>a, <3>2, <3>4 DEF Place
  <2>5. ASSUME NEW i \in 1..(L + 1), KeptIn(new, i)
        PROVE  i \in 1..L /\ KeptIn(ks, i) /\ Place(new, i) = Place(ks, i)
    <3>1. i \in 1..L /\ KeptIn(ks, i) /\ i # m /\ Place(ks, i) < M
      BY <2>2, <2>3, <2>5
    <3>2. i < m
      <4>1. i \in Nat /\ m \in Nat
        BY <1>1
      <4>2. CASE m < i
        <5>1. Place(ks, m) < Place(ks, i) /\ Place(ks, i) \in 1..M
          BY <1>3, <3>1, <4>1, <4>2, PlaceFacts
        <5> QED BY <1>2, <2>1, <5>1
      <4> QED BY <3>1, <4>1, <4>2
    <3>3. \A n \in 1..i : n \in 1..L /\ n # m /\ n \in 1..(L + 1)
      BY <1>1, <3>1, <3>2
    <3>4. KeptTo(new, i) = KeptTo(ks, i)
      BY <2>3, <3>3 DEF KeptTo
    <3> QED BY <3>1, <3>4 DEF Place
  <2>6. Len(nb) = M - 1 /\ \A n \in 1..(M - 1) : nb[n] = b[n]
    BY <1>2, <1>8
  <2>7. ASSUME NEW i \in 1..(L + 1), KeptIn(new, i)
        PROVE  /\ nb[Place(new, i)] = Stored(new[i])
               /\ (L + 1) - i - 2 * ErasesIn(new, i + 1, L + 1) = (M - 1) - Place(new, i)
    <3> DEFINE e == ErasesIn(ks, i + 1, L)
               q == Place(ks, i)
    <3>1. i \in 1..L /\ KeptIn(ks, i) /\ Place(new, i) = q
      BY <2>5, <2>7
    <3>2. q \in 1..M /\ q < M /\ b[q] = Stored(ks[i]) /\ L - i - 2 * e = M - q
      BY <1>3, <1>4, <1>a, <2>7, <3>1
    <3>3. e \in Nat /\ ErasesIn(new, i + 1, L + 1) = e + 1 /\ new[i] = ks[i]
      BY <1>1, <1>6, <3>1
    <3> HIDE DEF e, q
    <3>4. q \in 1..(M - 1) /\ (L + 1) - i - 2 * (e + 1) = (M - 1) - q
      <4>1. /\ L \in Int /\ M \in Int /\ i \in Int /\ e \in Int
            /\ q \in 1..M /\ q < M /\ L - i - 2 * e = M - q
        BY <1>1, <1>2, <3>1, <3>2, <3>3
      <4> HIDE DEF M
      <4> QED BY <4>1
    <3> QED BY <2>6, <3>1, <3>2, <3>3, <3>4
  <2>8. ASSUME NEW n \in 1..(M - 1)
        PROVE  \E i \in 1..(L + 1) : KeptIn(new, i) /\ Place(new, i) = n
    <3>1. n \in 1..M /\ n < M
      BY <1>2
    <3>2. PICK i \in 1..L : KeptIn(ks, i) /\ Place(ks, i) = n
      BY <1>a, <3>1
    <3>3. i \in 1..(L + 1) /\ KeptIn(new, i)
      BY <1>1, <1>4, <3>1, <3>2
    <3> QED BY <2>5, <3>2, <3>3
  <2>9. Edited(new, nb)
    BY <1>1, <2>4, <2>6, <2>7, <2>8 DEF Edited
  <2> QED BY <2>9 DEF new, nb
<1> QED BY <1>2, <1>7, <1>8

-----------------------------------------------------------------------------
(* The loop.                                                               *)

\* A read goes on only while no end of line is stored, and stores no more
\* after one.
OneLine ==
    /\ req # None => \A i \in 1..Len(buf) : buf[i] # "lf"
    /\ \A i \in 1..(Len(buf) - 1) : buf[i] # "lf"

EInv == Edited(keys, buf) /\ OneLine

LEMMA EraseKeepsEInv ==
    ASSUME IInv, EInv, ReadTurn, Erase
    PROVE  EInv'
<1> DEFINE nb == IF buf = <<>> THEN buf ELSE SubSeq(buf, 1, Len(buf) - 1)
<1>1. /\ rx \in Keys \cap Erasers /\ req # None /\ req' = req
      /\ keys' = Append(keys, rx) /\ buf' = nb
  BY DEF ReadTurn, Erase, Keys, Shorter
<1>2. buf \in Seq(Bytes) /\ keys \in Seq(Keys) /\ Len(buf) \in Nat
  BY LenProperties DEF IInv, TypeOK
<1>3. Edited(keys, buf)'
  BY <1>1, <1>2, EraseEdited DEF EInv
<1>4. OneLine'
  <2>1. \A i \in 1..Len(buf) : buf[i] # "lf"
    BY <1>1 DEF EInv, OneLine
  <2>2. CASE buf = <<>>
    BY <1>1, <2>2 DEF OneLine
  <2>3. CASE buf # <<>>
    <3>1. Len(buf) > 0 /\ buf' = SubSeq(buf, 1, Len(buf) - 1)
      BY <1>1, <1>2, <2>3, EmptySeq
    <3>2. Len(buf) - 1 \in Nat /\ Len(buf) - 1 <= Len(buf)
      BY <1>2, <3>1
    <3>3. Len(buf') = Len(buf) - 1 /\ \A i \in 1..(Len(buf) - 1) : buf'[i] = buf[i]
      BY <1>2, <3>1, <3>2, Cut
    <3>4. \A i \in 1..Len(buf') : i \in 1..Len(buf) /\ i \in 1..(Len(buf) - 1)
      BY <1>2, <3>3
    <3>5. \A i \in 1..(Len(buf') - 1) : i \in 1..Len(buf')
      BY <1>2, <3>3
    <3> QED BY <2>1, <3>3, <3>4, <3>5 DEF OneLine
  <2> QED BY <2>2, <2>3
<1> QED BY <1>3, <1>4 DEF EInv

LEMMA StoreKeepsEInv ==
    ASSUME IInv, EInv, ReadTurn, Store
    PROVE  EInv'
<1>1. /\ rx \in Keys \cup {None} /\ rx # None /\ rx \notin Erasers /\ req # None
      /\ keys' = Append(keys, rx) /\ buf' = Append(buf, Stored(rx))
      /\ Stored(rx) = "lf" => req' = None
  BY DEF ReadTurn, Store, Stored, IInv, TypeOK
<1>2. rx \in Keys \ Erasers /\ Stored(rx) \in Bytes
  BY <1>1 DEF Stored, Keys, Bytes
<1>3. buf \in Seq(Bytes) /\ keys \in Seq(Keys) /\ Len(buf) \in Nat
  BY LenProperties DEF IInv, TypeOK
<1>4. Edited(keys, buf)'
  BY <1>1, <1>2, <1>3, StoreEdited DEF EInv
<1>5. OneLine'
  <2>1. \A i \in 1..Len(buf) : buf[i] # "lf"
    BY <1>1 DEF EInv, OneLine
  <2>2. /\ Len(buf') = Len(buf) + 1 /\ buf'[Len(buf) + 1] = Stored(rx)
        /\ \A i \in 1..Len(buf) : buf'[i] = buf[i]
    BY <1>1, <1>2, <1>3, AppendProperties, SMTT(30)
  <2>3. /\ \A i \in 1..(Len(buf') - 1) : i \in 1..Len(buf)
        /\ \A i \in 1..Len(buf') : i \in 1..Len(buf) \/ i = Len(buf) + 1
    BY <1>3, <2>2
  <2> QED BY <1>1, <2>1, <2>2, <2>3 DEF OneLine
<1> QED BY <1>4, <1>5 DEF EInv

LEMMA InitEstablishesEInv == Init => EInv
<1> SUFFICES ASSUME Init PROVE EInv
  OBVIOUS
<1>1. keys = <<>> /\ buf = <<>> /\ Len(<<>>) = 0
  BY DEF Init
<1> QED BY <1>1, EmptyEdited DEF EInv, OneLine

LEMMA NextKeepsEInv == IInv /\ EInv /\ [Next]_vars => EInv'
<1> SUFFICES ASSUME IInv, EInv, [Next]_vars PROVE EInv'
  OBVIOUS
<1>1. CASE ReadTurn
  BY <1>1, EraseKeepsEInv, StoreKeepsEInv DEF ReadTurn
<1>2. CASE \E count \in Counts : SysRead(count)
  <2>1. keys' = <<>> /\ buf' = <<>> /\ Len(<<>>) = 0
    BY <1>2 DEF SysRead
  <2> QED BY <2>1, EmptyEdited DEF EInv, OneLine
<1>3. CASE UNCHANGED <<keys, buf, req>>
  BY <1>3 DEF EInv, OneLine
<1>4. ReadSpins \/ (\E text \in Texts : SysWrite(text))
        \/ (\E key \in Keys : KeyPressed(key)) \/ UNCHANGED vars
      => UNCHANGED <<keys, buf, req>>
  BY DEF ReadSpins, SysWrite, KeyPressed, vars
<1> QED BY <1>1, <1>2, <1>3, <1>4 DEF Next

\* What sys_read returns, or has so far, are the bytes typed that no erase
\* took back, in order, however many bytes, erases and ends of line came, and
\* never more than one line.
THEOREM LineAlwaysEdited == Spec => []LineIsEdited
<1>1. IInv /\ EInv => LineIsEdited
  <2> SUFFICES ASSUME IInv, EInv PROVE LineIsEdited
    OBVIOUS
  <2>1. DOMAIN keys = 1..Len(keys)
    BY LenProperties DEF IInv, TypeOK
  <2>2. /\ \A i : Kept(i) <=> KeptIn(keys, i)
        /\ \A i : KeptUpTo(i) = Place(keys, i)
    BY DEF Kept, KeptIn, KeptUpTo, Place, KeptTo, Erases, ErasesIn
  <2> QED BY <2>1, <2>2 DEF LineIsEdited, EInv, Edited, OneLine, Stored
<1>2. Spec => []EInv
  BY InitEstablishesEInv, NextKeepsEInv, Invariance, PTL DEF Spec
<1> QED BY <1>1, <1>2, Invariance, PTL
=============================================================================
