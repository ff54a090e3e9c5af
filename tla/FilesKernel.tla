---------------------------- MODULE FilesKernel -----------------------------
(***************************************************************************)
(* What the operators of Files return and what they preserve, for all      *)
(* sizes: the entries of a directory while others are added to it, reading *)
(* and writing through a descriptor, and the inductive invariant.  The     *)
(* invariant is said of the kernel as a value, which a call with several   *)
(* parts passes from one to the next.                                      *)
(***************************************************************************)
EXTENDS Files, FiniteSetTheorems, SequenceTheorems, TLAPS

\* A leaf that names no prover is tried with Zenon, then with SMT.
USE ZenonT(30), SMTT(30)

-----------------------------------------------------------------------------
(* Listings.  The entries of a directory as a function of the paths there  *)
(* are; an entry's number is the rank of the position it is first seen at. *)

FirstsIn(D, dir) ==
    {i \in DOMAIN Order :
        /\ Order[i] \in D
        /\ Under(dir, Order[i])
        /\ NameIn(dir, Order[i]) \notin {".", ".."}
        /\ \A j \in 1..(i - 1) :
              Order[j] \in D /\ Under(dir, Order[j])
                  => NameIn(dir, Order[j]) # NameIn(dir, Order[i])}

Rank(S, i) == Cardinality({j \in S : j < i})

Nth(S, n) == CHOOSE i \in S : Cardinality({j \in S : j < i}) = n - 3

EntriesIn(D, dir) ==
    [n \in 1..(Cardinality(FirstsIn(D, dir)) + 2) |->
        CASE n = 1 -> "."
          [] n = 2 -> ".."
          [] OTHER -> NameIn(dir, Order[Nth(FirstsIn(D, dir), n)])]

LEMMA EntriesOfData ==
    ASSUME NEW dir
    PROVE  Entries(dir) = EntriesIn(DOMAIN data, dir)
BY DEF Entries, EntriesIn, Nth, Firsts, FirstsIn

LEMMA RankFacts ==
    ASSUME NEW S \in SUBSET Nat, IsFiniteSet(S)
    PROVE  /\ Cardinality(S) \in Nat
           /\ \A i \in S : Rank(S, i) \in 0..(Cardinality(S) - 1)
           /\ \A i, j \in S : i < j => Rank(S, i) < Rank(S, j)
<1> DEFINE Below(i) == {j \in S : j < i}
<1>1. Cardinality(S) \in Nat
  BY FS_CardinalityType
<1>2. \A i \in S : IsFiniteSet(Below(i)) /\ Cardinality(Below(i)) \in Nat
  <2> TAKE i \in S
  <2>1. Below(i) \subseteq S
    OBVIOUS
  <2> HIDE DEF Below
  <2>2. IsFiniteSet(Below(i))
    BY <2>1, FS_Subset
  <2> QED BY <2>2, FS_CardinalityType
<1>3. ASSUME NEW i \in S PROVE Cardinality(Below(i)) \in 0..(Cardinality(S) - 1)
  <2>1. i \in Nat /\ ~(i < i)
    BY SMTT(30)
  <2>2. Below(i) \subseteq S \ {i}
    BY <2>1
  <2> HIDE DEF Below
  <2>3. IsFiniteSet(S \ {i}) /\ Cardinality(S \ {i}) = Cardinality(S) - 1
    BY FS_RemoveElement
  <2>4. Cardinality(Below(i)) <= Cardinality(S \ {i})
    BY <2>2, <2>3, FS_Subset
  <2> QED BY <1>1, <1>2, <2>3, <2>4
<1>4. ASSUME NEW i \in S, NEW j \in S, i < j
      PROVE  Cardinality(Below(i)) < Cardinality(Below(j))
  <2>1. i \in Nat /\ j \in Nat /\ ~(i < i)
    BY SMTT(30)
  <2>2. \A m \in S : m < i => m < j
    BY <1>4, <2>1, SMTT(30)
  <2>3. Below(i) \cup {i} \subseteq Below(j) /\ i \notin Below(i)
    BY <1>4, <2>1, <2>2
  <2> HIDE DEF Below
  <2>4. Cardinality(Below(i) \cup {i}) = Cardinality(Below(i)) + 1
    BY <1>2, <2>3, FS_AddElement
  <2>5. Cardinality(Below(i) \cup {i}) <= Cardinality(Below(j))
    BY <1>2, <2>3, FS_Subset
  <2> QED BY <1>2, <2>4, <2>5
<1> QED BY <1>1, <1>3, <1>4 DEF Rank

\* The ranks of a set are all the numbers below its size.
LEMMA RankOnto ==
    ASSUME NEW S \in SUBSET Nat, IsFiniteSet(S), NEW n \in 0..(Cardinality(S) - 1)
    PROVE  \E i \in S : Rank(S, i) = n
<1> DEFINE T == 0..(Cardinality(S) - 1)
           f == [i \in S |-> Rank(S, i)]
<1>1. /\ Cardinality(S) \in Nat
      /\ \A i \in S : Rank(S, i) \in T
      /\ \A i, j \in S : i < j => Rank(S, i) < Rank(S, j)
  BY RankFacts
<1>2. IsFiniteSet(T) /\ Cardinality(T) = Cardinality(S)
  <2>1. 0 \in Int /\ Cardinality(S) - 1 \in Int
    BY <1>1
  <2>2. /\ IsFiniteSet(T)
        /\ Cardinality(T) = IF 0 > Cardinality(S) - 1 THEN 0
                            ELSE (Cardinality(S) - 1) - 0 + 1
    BY <2>1, FS_Interval
  <2> QED BY <1>1, <2>2
<1> HIDE DEF T
<1>3. f \in [S -> T] /\ \A i \in S : f[i] = Rank(S, i)
  BY <1>1
<1>4. \A i, j \in S : f[i] = f[j] => i = j
  <2> TAKE i, j \in S
  <2>1. i \in Nat /\ j \in Nat /\ f[i] \in Nat /\ f[j] \in Nat
    BY <1>1, <1>3 DEF T
  <2>2. i < j => f[i] < f[j]
    BY <1>1, <1>3
  <2>3. j < i => f[j] < f[i]
    BY <1>1, <1>3
  <2> HIDE DEF f
  <2> QED BY <2>1, <2>2, <2>3, SMTT(30)
<1> HIDE DEF f
<1>5. f \in Injection(S, T)
  BY <1>3, <1>4 DEF Injection, IsInjective
<1>6. f \in Surjection(S, T)
  BY <1>2, <1>5, FS_Injection
<1>7. n \in T
  BY DEF T
<1> QED BY <1>3, <1>6, <1>7 DEF Surjection

Ahead(D, dir, name, off) ==
    \E n \in (off + 1)..Len(EntriesIn(D, dir)) : EntriesIn(D, dir)[n] = name

LEMMA OrderFacts ==
    /\ Len(Order) \in Nat /\ DOMAIN Order = 1..Len(Order)
    /\ Paths \subseteq Seq(STRING)
    /\ \A i \in 1..Len(Order) : i \in Nat /\ i - 1 < i
<1>1. Order \in Seq(Seq(STRING))
  BY FilesAssumption
<1>2. Len(Order) \in Nat /\ DOMAIN Order = 1..Len(Order)
  BY <1>1, LenProperties
<1>3. \A i \in 1..Len(Order) : Order[i] \in Seq(STRING)
  BY <1>1, ElementOfSeq
<1>4. \A i \in 1..Len(Order) : i \in Nat /\ i - 1 < i
  BY <1>2
<1> QED BY <1>2, <1>3, <1>4 DEF Paths

LEMMA FirstsFacts ==
    ASSUME NEW D, NEW dir
    PROVE  /\ FirstsIn(D, dir) \in SUBSET Nat
           /\ FirstsIn(D, dir) \subseteq 1..Len(Order)
           /\ IsFiniteSet(FirstsIn(D, dir))
           /\ Cardinality(FirstsIn(D, dir)) \in 0..Len(Order)
<1> DEFINE at == FirstsIn(D, dir)
<1>1. at \subseteq 1..Len(Order)
  BY OrderFacts DEF FirstsIn
<1>2. Len(Order) \in Nat /\ 1 \in Int /\ Len(Order) \in Int
  BY OrderFacts
<1> HIDE DEF at
<1>3. IsFiniteSet(1..Len(Order)) /\ Cardinality(1..Len(Order)) = Len(Order)
  <2>1. /\ IsFiniteSet(1..Len(Order))
        /\ Cardinality(1..Len(Order)) =
              IF 1 > Len(Order) THEN 0 ELSE Len(Order) - 1 + 1
    BY <1>2, FS_Interval
  <2> QED BY <1>2, <2>1, SMTT(30)
<1>4. IsFiniteSet(at) /\ Cardinality(at) <= Len(Order)
  BY <1>1, <1>3, FS_Subset
<1>5. Cardinality(at) \in Nat
  BY <1>4, FS_CardinalityType
<1>6. Cardinality(at) \in 0..Len(Order)
  BY <1>2, <1>4, <1>5, SMTT(30)
<1>7. at \in SUBSET Nat
  BY <1>1, <1>2, SMTT(30)
<1> QED BY <1>1, <1>4, <1>6, <1>7 DEF at

LEMMA SegmentOf ==
    ASSUME NEW path \in Paths, NEW j \in DOMAIN path
    PROVE  path[j] \in Segments
<1>1. path[j] \in {path[i] : i \in DOMAIN path}
  OBVIOUS
<1>2. {path[i] : i \in DOMAIN path} \in {{q[i] : i \in DOMAIN q} : q \in Paths}
  OBVIOUS
<1> QED BY <1>1, <1>2, SMTT(30) DEF Segments

\* The entries that read_dir builds: ".", "..", and each name at the rank
\* of its first position.
LEMMA EntriesFacts ==
    ASSUME NEW D, NEW dir \in Paths
    PROVE  LET at == FirstsIn(D, dir)
               e  == EntriesIn(D, dir)
               N  == Cardinality(at) + 2
           IN  /\ e \in Seq(Segments) /\ Len(e) = N /\ DOMAIN e = 1..N
               /\ e[1] = "." /\ e[2] = ".."
               /\ \A i \in at : /\ Rank(at, i) + 3 \in 3..N
                                /\ e[Rank(at, i) + 3] = NameIn(dir, Order[i])
               /\ \A n \in 3..N : \E i \in at : n = Rank(at, i) + 3
<1> DEFINE at == FirstsIn(D, dir)
           e  == EntriesIn(D, dir)
           N  == Cardinality(at) + 2
<1>1. /\ at \in SUBSET Nat /\ IsFiniteSet(at) /\ Cardinality(at) \in Nat
  <2>1. Cardinality(at) \in 0..Len(Order) /\ Len(Order) \in Nat
    BY FirstsFacts, OrderFacts
  <2>2. Cardinality(at) \in Nat
    BY <2>1, SMTT(30)
  <2> QED BY <2>2, FirstsFacts
<1>2. /\ \A i \in at : Rank(at, i) \in 0..(Cardinality(at) - 1)
      /\ \A i, j \in at : i < j => Rank(at, i) < Rank(at, j)
  BY <1>1, RankFacts
<1>3. \A n \in 0..(Cardinality(at) - 1) : \E i \in at : Rank(at, i) = n
  BY <1>1, RankOnto
<1>4. /\ e = [n \in 1..N |-> CASE n = 1 -> "." [] n = 2 -> ".."
                               [] OTHER -> NameIn(dir, Order[Nth(at, n)])]
      /\ \A i \in at : NameIn(dir, Order[i]) \in Segments
  <2>1. ASSUME NEW i \in at PROVE NameIn(dir, Order[i]) \in Segments
    <3>1. /\ i \in DOMAIN Order /\ Order[i] \in Paths
          /\ Len(Order[i]) > Len(dir)
      BY DEF FirstsIn, Under, Paths
    <3>2. Order[i] \in Seq(STRING) /\ dir \in Seq(STRING)
      BY <3>1, OrderFacts
    <3>3. Len(dir) \in Nat /\ Len(Order[i]) \in Nat
      BY <3>2, LenProperties
    <3>4. Len(dir) + 1 \in 1..Len(Order[i])
      BY <3>1, <3>3, SMTT(30)
    <3>5. DOMAIN Order[i] = 1..Len(Order[i])
      BY <3>2, LenProperties
    <3> QED BY <3>1, <3>4, <3>5, SegmentOf DEF NameIn
  <2> QED BY <2>1 DEF EntriesIn
<1>5. \A n \in 3..N : \E i \in at : n = Rank(at, i) + 3
  <2> TAKE n \in 3..N
  <2>1. n - 3 \in 0..(Cardinality(at) - 1) /\ (n - 3) + 3 = n
    BY <1>1, SMTT(30)
  <2>2. PICK i \in at : Rank(at, i) = n - 3
    BY <1>3, <2>1
  <2> QED BY <2>1, <2>2
<1>6. \A i \in at : Rank(at, i) + 3 \in 3..N /\ Nth(at, Rank(at, i) + 3) = i
  <2> TAKE i \in at
  <2>1. /\ Rank(at, i) + 3 \in 3..N
        /\ (Rank(at, i) + 3) - 3 = Rank(at, i)
    <3>1. Rank(at, i) \in 0..(Cardinality(at) - 1)
      BY <1>2
    <3> QED BY <1>1, <3>1, SMTT(30)
  <2>2. ASSUME NEW j \in at, Rank(at, j) = Rank(at, i) PROVE j = i
    <3>1. i \in Nat /\ j \in Nat /\ Rank(at, i) \in Int
      <4>1. Rank(at, i) \in 0..(Cardinality(at) - 1)
        BY <1>2
      <4> QED BY <1>1, <4>1, SMTT(30)
    <3>2. (i < j => Rank(at, i) < Rank(at, j)) /\ (j < i => Rank(at, j) < Rank(at, i))
      BY <1>2
    <3>3. ~(Rank(at, i) < Rank(at, i))
      BY <3>1, SMTT(30)
    <3>4. i < j \/ j < i \/ i = j
      BY <3>1, SMTT(30)
    <3> QED BY <2>2, <3>2, <3>3, <3>4
  <2>3. Nth(at, Rank(at, i) + 3) = CHOOSE j \in at : Rank(at, j) = Rank(at, i)
    BY <2>1 DEF Nth, Rank
  <2> HIDE DEF at
  <2>4. (CHOOSE j \in at : Rank(at, j) = Rank(at, i)) = i
    BY <2>2
  <2> QED BY <2>1, <2>3, <2>4
<1> HIDE DEF at, e
<1>7. N \in Nat /\ 1 \in 1..N /\ 2 \in 1..N /\ \A n \in 3..N : n \in 1..N /\ n # 1 /\ n # 2
  BY <1>1, SMTT(30)
<1>8. /\ DOMAIN e = 1..N /\ e[1] = "." /\ e[2] = ".."
      /\ \A n \in 3..N : e[n] = NameIn(dir, Order[Nth(at, n)])
  <2> HIDE DEF N
  <2> QED BY <1>4, <1>7, SMTT(30)
<1>9. \A i \in at : e[Rank(at, i) + 3] = NameIn(dir, Order[i])
  BY <1>6, <1>8
<1>10. e \in Seq(Segments) /\ Len(e) = N
  <2>1. \A n \in 1..N : e[n] \in Segments
    <3> TAKE n \in 1..N
    <3>1. n = 1 \/ n = 2 \/ n \in 3..N
      BY <1>7, SMTT(30)
    <3>2. CASE n \in 3..N
      <4>1. PICK i \in at : n = Rank(at, i) + 3
        BY <1>5, <3>2
      <4>2. NameIn(dir, Order[i]) \in Segments
        BY <1>4
      <4> QED BY <1>9, <4>1, <4>2
    <3>3. "." \in Segments /\ ".." \in Segments
      BY DEF Segments
    <3> QED BY <1>8, <3>1, <3>2, <3>3
  <2>2. e = [n \in 1..N |-> e[n]]
    BY <1>4, <1>8
  <2> HIDE DEF N
  <2>3. e \in [1..N -> Segments]
    BY <2>1, <2>2
  <2>4. e \in Seq(Segments)
    BY <1>7, <2>3, SeqDef
  <2> QED BY <1>7, <1>8, <2>4, LenProperties, SMTT(30)
<1> QED BY <1>5, <1>6, <1>8, <1>9, <1>10 DEF at, e

\* mkdirat adds a path: the name at first position i is now first at some
\* position of no smaller rank.
LEMMA FirstsGrow ==
    ASSUME NamesTogether, NEW D \in SUBSET Paths, NEW dir \in Paths,
           NEW p \in Paths \ D, NEW i \in FirstsIn(D, dir)
    PROVE  \E m \in FirstsIn(D \cup {p}, dir) :
              /\ NameIn(dir, Order[m]) = NameIn(dir, Order[i])
              /\ Rank(FirstsIn(D, dir), i) <= Rank(FirstsIn(D \cup {p}, dir), m)
<1> DEFINE E  == D \cup {p}
           at == FirstsIn(D, dir)
           to == FirstsIn(E, dir)
           L == Len(Order)
           Nm(j) == NameIn(dir, Order[j])
           In(j) == Order[j] \in D /\ Under(dir, Order[j])
<1>0. PICK q \in 1..L : Order[q] = p
  BY OrderFacts DEF Paths
<1>1. /\ L \in Nat /\ i \in 1..L /\ i \in Nat /\ q \in Nat
      /\ at \subseteq 1..L /\ to \subseteq 1..L
      /\ at \in SUBSET Nat /\ to \in SUBSET Nat
  <2>1. at \subseteq 1..L /\ to \subseteq 1..L /\ at \in SUBSET Nat /\ to \in SUBSET Nat
    BY FirstsFacts
  <2> QED BY <2>1, OrderFacts
<1>2. /\ \A j : j \in at <=> /\ j \in 1..L /\ In(j) /\ Nm(j) \notin {".", ".."}
                             /\ \A m \in 1..(j - 1) : In(m) => Nm(m) # Nm(j)
      /\ \A j : j \in to <=> /\ j \in 1..L /\ (In(j) \/ (j = q /\ Under(dir, p)))
                             /\ Nm(j) \notin {".", ".."}
                             /\ \A m \in 1..(j - 1) :
                                   In(m) \/ (m = q /\ Under(dir, p)) => Nm(m) # Nm(j)
  <2>1. \A j \in 1..L : Order[j] \in E <=> Order[j] \in D \/ j = q
    BY <1>0, FilesAssumption, OrderFacts
  <2>2. \A j \in 1..L : \A m \in 1..(j - 1) : m \in 1..L
    BY <1>1, SMTT(30)
  <2>3. \A j \in 1..L : Order[j] \in E /\ Under(dir, Order[j])
                          <=> In(j) \/ (j = q /\ Under(dir, p))
    BY <1>0, <2>1
  <2>4. /\ \A j : j \in at <=> /\ j \in 1..L /\ In(j) /\ Nm(j) \notin {".", ".."}
                               /\ \A m \in 1..(j - 1) : In(m) => Nm(m) # Nm(j)
    BY OrderFacts DEF FirstsIn
  <2>5. \A j : j \in to <=> /\ j \in 1..L /\ Order[j] \in E /\ Under(dir, Order[j])
                            /\ Nm(j) \notin {".", ".."}
                            /\ \A m \in 1..(j - 1) :
                                  Order[m] \in E /\ Under(dir, Order[m]) => Nm(m) # Nm(j)
    BY OrderFacts DEF FirstsIn
  <2> HIDE DEF E, Nm, In, at, to
  <2> QED BY <2>2, <2>3, <2>4, <2>5
<1>3. ~In(q)
  BY <1>0
<1>4. \A j, m \in at : j # m => Nm(j) # Nm(m)
  <2> TAKE j, m \in at
  <2>1. j \in 1..(m - 1) \/ m \in 1..(j - 1) \/ j = m
    <3>1. j \in 1..L /\ m \in 1..L
      BY <1>1
    <3> QED BY <1>1, <3>1, SMTT(30)
  <2> HIDE DEF Nm, In, at, to
  <2> QED BY <1>2, <2>1
<1>t. ASSUME In(q) \/ Under(dir, p), NEW j \in 1..L, NEW m \in 1..L, q < j, j < m,
             In(j), In(m), Nm(q) = Nm(m)
      PROVE  Nm(j) = Nm(q)
  <2>1. Under(dir, Order[q]) /\ Under(dir, Order[j]) /\ Under(dir, Order[m])
    BY <1>0, <1>3, <1>t
  <2> QED BY <1>t, <2>1, OrderFacts DEF NamesTogether
<1>5. IsFiniteSet(at) /\ IsFiniteSet(to)
  BY FirstsFacts
<1> HIDE DEF E, Nm, In, at, to
<1> DEFINE A == {j \in at : j < i}
<1>6. IsFiniteSet(A) /\ Cardinality(A) \in Nat /\ i \in at
  <2>1. A \subseteq at
    OBVIOUS
  <2>2. IsFiniteSet(A)
    BY <1>5, <2>1, FS_Subset
  <2> QED BY <2>2, FS_CardinalityType DEF at
<1>7. CASE i \in to
  <2> DEFINE B == {j \in to : j < i}
  <2>1. IsFiniteSet(B) /\ Cardinality(B) \in Nat
    <3>1. B \subseteq to
      OBVIOUS
    <3>2. IsFiniteSet(B)
      BY <1>5, <3>1, FS_Subset
    <3> QED BY <3>2, FS_CardinalityType
  <2>2. CASE A \subseteq B
    <3> HIDE DEF A, B
    <3>1. Cardinality(A) <= Cardinality(B)
      BY <2>1, <2>2, FS_Subset
    <3> QED BY <1>7, <3>1 DEF Rank, Nm, A, B, at, to, E
  <2>3. CASE ~(A \subseteq B)
    <3>1. PICK x \in A : x \notin to
      BY <2>3
    <3>2. x \in at /\ x < i /\ x \in 1..L
      BY <1>1, <3>1
    <3>3. q \in 1..(x - 1) /\ Under(dir, p) /\ Nm(q) = Nm(x)
      BY <1>2, <3>1, <3>2
    <3>4. q < x /\ q < i /\ q \in 1..L /\ 1..(q - 1) \subseteq 1..(x - 1)
      BY <1>1, <3>2, <3>3, SMTT(30)
    <3>5. q \in to
      <4>1. \A m \in 1..(q - 1) : In(m) => Nm(m) # Nm(q)
        BY <1>2, <3>2, <3>3, <3>4
      <4>2. Nm(q) \notin {".", ".."}
        BY <1>2, <3>2, <3>3
      <4>3. \A m \in 1..(q - 1) : m # q
        BY <1>1, SMTT(30)
      <4> QED BY <1>2, <3>3, <3>4, <4>1, <4>2, <4>3
    <3>6. q \in B /\ q \notin A
      BY <1>2, <1>3, <3>4, <3>5
    <3>7. A \ {x} \subseteq B \ {q}
      <4> SUFFICES ASSUME NEW j \in A, j # x PROVE j \in to
        BY <3>6
      <4>1. j \in at /\ j \in 1..L /\ Nm(j) # Nm(x)
        BY <1>1, <1>4, <3>2
      <4> QED BY <1>2, <3>3, <4>1
    <3> HIDE DEF A, B
    <3>8. /\ IsFiniteSet(B \ {q}) /\ Cardinality(B \ {q}) = Cardinality(B) - 1
          /\ Cardinality(A \ {x}) = Cardinality(A) - 1
      BY <1>6, <2>1, <3>1, <3>6, FS_RemoveElement
    <3>9. Cardinality(A \ {x}) <= Cardinality(B \ {q})
      BY <3>7, <3>8, FS_Subset
    <3>10. Cardinality(A) <= Cardinality(B)
      BY <1>6, <2>1, <3>8, <3>9, SMTT(30)
    <3> QED BY <1>7, <3>10 DEF Rank, Nm, A, B, at, to, E
  <2> QED BY <2>2, <2>3
<1>8. CASE i \notin to
  <2> DEFINE B == {j \in to : j < q}
  <2>1. q \in 1..(i - 1) /\ Under(dir, p) /\ Nm(q) = Nm(i)
    BY <1>2, <1>6, <1>8
  <2>2. q < i /\ 1..(q - 1) \subseteq 1..(i - 1) /\ \A m \in 1..(q - 1) : m # q
    BY <1>1, <2>1, SMTT(30)
  <2>3. q \in to
    <3>1. \A m \in 1..(q - 1) : In(m) => Nm(m) # Nm(q)
      BY <1>2, <1>6, <2>1, <2>2
    <3>2. Nm(q) \notin {".", ".."}
      BY <1>2, <1>6, <2>1
    <3> QED BY <1>0, <1>2, <2>1, <2>2, <3>1, <3>2
  <2>4. ASSUME NEW j \in A PROVE j \in B
    <3>1. /\ j \in at /\ j < i /\ j \in 1..L /\ In(j) /\ In(i)
          /\ Nm(j) \notin {".", ".."}
          /\ \A m \in 1..(j - 1) : In(m) => Nm(m) # Nm(j)
      BY <1>1, <1>2, <1>6
    <3>2. j # q /\ j # i
      <4>1. ~(i < i)
        BY <1>1, SMTT(30)
      <4> QED BY <1>3, <3>1, <4>1
    <3>3. ~(q < j)
      <4> SUFFICES ASSUME q < j PROVE FALSE
        OBVIOUS
      <4>1. Nm(j) = Nm(q)
        BY <1>1, <1>t, <2>1, <3>1
      <4> QED BY <1>4, <1>6, <2>1, <3>1, <3>2, <4>1
    <3>4. j < q /\ q \notin 1..(j - 1)
      BY <1>1, <3>1, <3>2, <3>3, SMTT(30)
    <3>5. j \in to
      BY <1>2, <3>1, <3>4
    <3> QED BY <3>4, <3>5
  <2>5. IsFiniteSet(B) /\ A \subseteq B
    <3>1. B \subseteq to /\ A \subseteq B
      BY <2>4
    <3> HIDE DEF B
    <3> QED BY <1>5, <3>1, FS_Subset
  <2> HIDE DEF A, B
  <2>6. Cardinality(A) <= Cardinality(B)
    BY <2>5, FS_Subset
  <2> QED BY <2>1, <2>3, <2>6 DEF Rank, Nm, A, B, at, to, E
<1> QED BY <1>7, <1>8 DEF E, at, to

\* So a name that is ahead of a listing's offset stays ahead of it.
LEMMA AheadGrows ==
    ASSUME NamesTogether, NEW D \in SUBSET Paths, NEW dir \in Paths,
           NEW p \in Paths \ D, NEW name, NEW off \in Nat, Ahead(D, dir, name, off)
    PROVE  Ahead(D \cup {p}, dir, name, off)
<1> DEFINE E == D \cup {p}
           at == FirstsIn(D, dir)
           to == FirstsIn(E, dir)
           N == Cardinality(at) + 2
           M == Cardinality(to) + 2
<1>1. /\ Cardinality(at) \in Nat /\ Cardinality(to) \in Nat
      /\ at \in SUBSET Nat /\ IsFiniteSet(at)
      /\ to \in SUBSET Nat /\ IsFiniteSet(to)
  BY FirstsFacts, FS_CardinalityType
<1>2. /\ Len(EntriesIn(D, dir)) = N
      /\ EntriesIn(D, dir)[1] = "." /\ EntriesIn(D, dir)[2] = ".."
      /\ \A i \in at : EntriesIn(D, dir)[Rank(at, i) + 3] = NameIn(dir, Order[i])
      /\ \A n \in 3..N : \E i \in at : n = Rank(at, i) + 3
  BY EntriesFacts
<1>3. /\ Len(EntriesIn(E, dir)) = M
      /\ EntriesIn(E, dir)[1] = "." /\ EntriesIn(E, dir)[2] = ".."
      /\ \A i \in to : /\ Rank(to, i) + 3 \in 3..M
                       /\ EntriesIn(E, dir)[Rank(to, i) + 3] = NameIn(dir, Order[i])
  BY EntriesFacts
<1>4. PICK n \in (off + 1)..N : EntriesIn(D, dir)[n] = name
  BY <1>2 DEF Ahead
<1>5. CASE n \in {1, 2}
  <2>1. n \in (off + 1)..M
    BY <1>1, <1>5, SMTT(30)
  <2> QED BY <1>2, <1>3, <1>4, <1>5, <2>1 DEF Ahead
<1>6. CASE n \notin {1, 2}
  <2>1. n \in 3..N /\ n \in Int /\ off < n
    BY <1>1, <1>6, SMTT(30)
  <2>2. PICK i \in at : n = Rank(at, i) + 3
    BY <1>2, <2>1
  <2>3. PICK m \in to : /\ NameIn(dir, Order[m]) = NameIn(dir, Order[i])
                        /\ Rank(at, i) <= Rank(to, m)
    BY FirstsGrow
  <2>4. Rank(at, i) \in Int /\ Rank(to, m) \in Int
    <3>1. /\ Rank(at, i) \in 0..(Cardinality(at) - 1)
          /\ Rank(to, m) \in 0..(Cardinality(to) - 1)
      BY <1>1, RankFacts
    <3> QED BY <1>1, <3>1, SMTT(30)
  <2>5. Rank(to, m) + 3 \in (off + 1)..M
    <3>1. Rank(to, m) + 3 \in 3..M
      BY <1>3
    <3> HIDE DEF at, to
    <3> QED BY <1>1, <2>1, <2>2, <2>3, <2>4, <3>1, SMTT(30)
  <2>6. EntriesIn(E, dir)[Rank(to, m) + 3] = name
    BY <1>2, <1>3, <1>4, <2>2, <2>3
  <2> QED BY <1>3, <2>5, <2>6 DEF Ahead
<1> QED BY <1>5, <1>6

-----------------------------------------------------------------------------
(* Sequences.                                                              *)

LEMMA AsSeq ==
    ASSUME NEW S, NEW n \in Nat, NEW f \in [1..n -> S]
    PROVE  f \in Seq(S) /\ Len(f) = n
<1>1. f \in Seq(S)
  BY SeqDef
<1>2. DOMAIN f = 1..n /\ DOMAIN f = 1..Len(f) /\ Len(f) \in Nat
  BY <1>1, LenProperties
<1> QED BY <1>1, <1>2, SMTT(30)

LEMMA Slice ==
    ASSUME NEW S, NEW s \in Seq(S), NEW a \in Nat, NEW n \in Nat, a + n <= Len(s)
    PROVE  /\ SubSeq(s, a + 1, a + n) \in Seq(S)
           /\ Len(SubSeq(s, a + 1, a + n)) = n
           /\ \A i \in 1..n : SubSeq(s, a + 1, a + n)[i] = s[a + i]
<1>1. Len(s) \in Nat /\ a + 1 \in Int /\ a + n \in Int
  BY LenProperties
<1>2. \A i \in (a + 1)..(a + n) : i \in 1..Len(s)
  BY <1>1, SMTT(30)
<1>3. \A i \in (a + 1)..(a + n) : s[i] \in S
  BY <1>2, ElementOfSeq
<1>4. /\ SubSeq(s, a + 1, a + n) \in Seq(S)
      /\ Len(SubSeq(s, a + 1, a + n)) =
            IF a + 1 <= a + n THEN (a + n) - (a + 1) + 1 ELSE 0
      /\ \A i \in 1..((a + n) - (a + 1) + 1) :
            SubSeq(s, a + 1, a + n)[i] = s[(a + 1) + i - 1]
  BY <1>1, <1>3, SubSeqProperties
<1>5. (a + n) - (a + 1) + 1 = n /\ (a + 1 <= a + n \/ n = 0)
  BY SMTT(30)
<1>6. \A i \in 1..n : (a + 1) + i - 1 = a + i
  BY SMTT(30)
<1> QED BY <1>4, <1>5, <1>6

LEMMA Joined ==
    ASSUME NEW S, NEW s \in Seq(S), NEW t \in Seq(S)
    PROVE  /\ s \o t \in Seq(S) /\ Len(s \o t) = Len(s) + Len(t)
           /\ \A i \in 1..Len(s) : (s \o t)[i] = s[i]
           /\ \A i \in 1..Len(t) : (s \o t)[Len(s) + i] = t[i]
<1>1. Len(s) \in Nat /\ Len(t) \in Nat
  BY LenProperties
<1>2. /\ s \o t \in Seq(S) /\ Len(s \o t) = Len(s) + Len(t)
      /\ \A i \in 1..(Len(s) + Len(t)) :
            (s \o t)[i] = IF i <= Len(s) THEN s[i] ELSE t[i - Len(s)]
  BY ConcatProperties
<1>3. \A i \in 1..Len(s) : i \in 1..(Len(s) + Len(t)) /\ i <= Len(s)
  BY <1>1, SMTT(30)
<1>4. \A i \in 1..Len(t) : /\ Len(s) + i \in 1..(Len(s) + Len(t))
                           /\ ~(Len(s) + i <= Len(s)) /\ (Len(s) + i) - Len(s) = i
  BY <1>1, SMTT(30)
<1> QED BY <1>2, <1>3, <1>4

LEMMA LeastFacts ==
    ASSUME NEW a \in Int, NEW b \in Int
    PROVE  /\ Least(a, b) \in Int /\ Least(a, b) <= a /\ Least(a, b) <= b
           /\ Least(a, b) \in {a, b}
BY SMTT(30) DEF Least

LEMMA ModFacts ==
    ASSUME NEW a \in Int, NEW k \in Nat, k > 0
    PROVE  a % k \in 0..(k - 1)
BY SMTT(30)

-----------------------------------------------------------------------------
(* The kernel as a value.                                                  *)

K(fs, dt, ps, fk, m, r, g) ==
    [files |-> fs, data |-> dt, pipes |-> ps, fakes |-> fk,
     machine |-> m, ret |-> r, got |-> g]

IsKernel(k) ==
    k = K(k.files, k.data, k.pipes, k.fakes, k.machine, k.ret, k.got)

LEMMA KFields ==
    ASSUME NEW fs, NEW dt, NEW ps, NEW fk, NEW m, NEW r, NEW g
    PROVE  LET k == K(fs, dt, ps, fk, m, r, g)
           IN  /\ IsKernel(k)
               /\ k.files = fs /\ k.data = dt /\ k.pipes = ps /\ k.fakes = fk
               /\ k.machine = m /\ k.ret = r /\ k.got = g
BY SMTT(30) DEF K, IsKernel

SetAt(f, i, x) == [f EXCEPT ![i] = x]

\* What the calls do to a kernel value, one lemma for each form.
LEMMA KReturns ==
    ASSUME NEW k, IsKernel(k), NEW n
    PROVE  Returns(k, n) =
              K(k.files, k.data, k.pipes, k.fakes, k.machine, n, k.got)
BY SMTT(30) DEF IsKernel, K, Returns

LEMMA KPanics ==
    ASSUME NEW k, IsKernel(k)
    PROVE  Panics(k) =
              K(k.files, k.data, k.pipes, k.fakes, "panic", k.ret, k.got)
BY SMTT(30) DEF IsKernel, K, Panics

Got(k, n, h) == [k EXCEPT !.ret = n, !.got = h]

LEMMA KGot ==
    ASSUME NEW k, IsKernel(k), NEW n, NEW h
    PROVE  Got(k, n, h) =
              K(k.files, k.data, k.pipes, k.fakes, k.machine, n, h)
<1> DEFINE k1 == K(k.files, k.data, k.pipes, k.fakes, k.machine, n, k.got)
<1>1. [k EXCEPT !.ret = n] = k1
  BY SMTT(30) DEF IsKernel, K
<1>2. [k1 EXCEPT !.got = h] =
        K(k.files, k.data, k.pipes, k.fakes, k.machine, n, h)
  BY SMTT(30) DEF K
<1> HIDE DEF k1
<1>3. [k EXCEPT !.ret = n, !.got = h] =
        [[k EXCEPT !.ret = n] EXCEPT !.got = h]
  OBVIOUS
<1> QED BY <1>1, <1>2, <1>3 DEF Got

GotFile(k, n, h, i, x) == [k EXCEPT !.ret = n, !.got = h, !.files[i] = x]

LEMMA KGotFile ==
    ASSUME NEW k, IsKernel(k), NEW n, NEW h, NEW i, NEW x
    PROVE  GotFile(k, n, h, i, x) =
              K([k.files EXCEPT ![i] = x], k.data, k.pipes, k.fakes, k.machine, n, h)
<1> DEFINE k1 == K(k.files, k.data, k.pipes, k.fakes, k.machine, n, k.got)
           k2 == K(k.files, k.data, k.pipes, k.fakes, k.machine, n, h)
<1>1. [k EXCEPT !.ret = n] = k1
  BY SMTT(30) DEF IsKernel, K
<1>2. [k1 EXCEPT !.got = h] = k2
  BY SMTT(30) DEF IsKernel, K
<1>3. [k2 EXCEPT !.files[i] = x] =
        K([k.files EXCEPT ![i] = x], k.data, k.pipes, k.fakes, k.machine, n, h)
  BY SMTT(30) DEF K
<1> HIDE DEF k1, k2
<1>4. [k EXCEPT !.ret = n, !.got = h, !.files[i] = x] =
        [[[k EXCEPT !.ret = n] EXCEPT !.got = h] EXCEPT !.files[i] = x]
  OBVIOUS
<1> QED BY <1>1, <1>2, <1>3, <1>4 DEF GotFile

GotFake(k, n, h, i, x) == [k EXCEPT !.ret = n, !.got = h, !.fakes[i] = x]

LEMMA KGotFake ==
    ASSUME NEW k, IsKernel(k), NEW n, NEW h, NEW i, NEW x
    PROVE  GotFake(k, n, h, i, x) =
              K(k.files, k.data, k.pipes, [k.fakes EXCEPT ![i] = x], k.machine, n, h)
<1> DEFINE k1 == K(k.files, k.data, k.pipes, k.fakes, k.machine, n, k.got)
           k2 == K(k.files, k.data, k.pipes, k.fakes, k.machine, n, h)
<1>1. [k EXCEPT !.ret = n] = k1
  BY SMTT(30) DEF IsKernel, K
<1>2. [k1 EXCEPT !.got = h] = k2
  BY SMTT(30) DEF IsKernel, K
<1>3. [k2 EXCEPT !.fakes[i] = x] =
        K(k.files, k.data, k.pipes, [k.fakes EXCEPT ![i] = x], k.machine, n, h)
  BY SMTT(30) DEF K
<1> HIDE DEF k1, k2
<1>4. [k EXCEPT !.ret = n, !.got = h, !.fakes[i] = x] =
        [[[k EXCEPT !.ret = n] EXCEPT !.got = h] EXCEPT !.fakes[i] = x]
  OBVIOUS
<1> QED BY <1>1, <1>2, <1>3, <1>4 DEF GotFake

GotPipe(k, n, h, i, x) == [k EXCEPT !.ret = n, !.got = h, !.pipes[i] = x]

LEMMA KGotPipe ==
    ASSUME NEW k, IsKernel(k), NEW n, NEW h, NEW i, NEW x
    PROVE  GotPipe(k, n, h, i, x) =
              K(k.files, k.data, [k.pipes EXCEPT ![i] = x], k.fakes, k.machine, n, h)
<1> DEFINE k1 == K(k.files, k.data, k.pipes, k.fakes, k.machine, n, k.got)
           k2 == K(k.files, k.data, k.pipes, k.fakes, k.machine, n, h)
<1>1. [k EXCEPT !.ret = n] = k1
  BY SMTT(30) DEF IsKernel, K
<1>2. [k1 EXCEPT !.got = h] = k2
  BY SMTT(30) DEF IsKernel, K
<1>3. [k2 EXCEPT !.pipes[i] = x] =
        K(k.files, k.data, [k.pipes EXCEPT ![i] = x], k.fakes, k.machine, n, h)
  BY SMTT(30) DEF K
<1> HIDE DEF k1, k2
<1>4. [k EXCEPT !.ret = n, !.got = h, !.pipes[i] = x] =
        [[[k EXCEPT !.ret = n] EXCEPT !.got = h] EXCEPT !.pipes[i] = x]
  OBVIOUS
<1> QED BY <1>1, <1>2, <1>3, <1>4 DEF GotPipe

SetPipe(k, n, i, x) == [k EXCEPT !.ret = n, !.pipes[i] = x]

LEMMA KPipe ==
    ASSUME NEW k, IsKernel(k), NEW n, NEW i, NEW x
    PROVE  SetPipe(k, n, i, x) =
              K(k.files, k.data, SetAt(k.pipes, i, x), k.fakes, k.machine, n, k.got)
<1> DEFINE k1 == K(k.files, k.data, k.pipes, k.fakes, k.machine, n, k.got)
<1>1. [k EXCEPT !.ret = n] = k1
  BY SMTT(30) DEF IsKernel, K
<1>2. [k1 EXCEPT !.pipes[i] = x] =
        K(k.files, k.data, [k.pipes EXCEPT ![i] = x], k.fakes, k.machine, n, k.got)
  BY SMTT(30) DEF K
<1> HIDE DEF k1
<1>3. [k EXCEPT !.ret = n, !.pipes[i] = x] =
        [[k EXCEPT !.ret = n] EXCEPT !.pipes[i] = x]
  OBVIOUS
<1> QED BY <1>1, <1>2, <1>3 DEF SetPipe, SetAt

SetData(k, n, i, x) == [k EXCEPT !.ret = n, !.data[i] = x]

LEMMA KData ==
    ASSUME NEW k, IsKernel(k), NEW n, NEW i, NEW x
    PROVE  SetData(k, n, i, x) =
              K(k.files, SetAt(k.data, i, x), k.pipes, k.fakes, k.machine, n, k.got)
<1> DEFINE k1 == K(k.files, k.data, k.pipes, k.fakes, k.machine, n, k.got)
<1>1. [k EXCEPT !.ret = n] = k1
  BY SMTT(30) DEF IsKernel, K
<1>2. [k1 EXCEPT !.data[i] = x] =
        K(k.files, [k.data EXCEPT ![i] = x], k.pipes, k.fakes, k.machine, n, k.got)
  BY SMTT(30) DEF K
<1> HIDE DEF k1
<1>3. [k EXCEPT !.ret = n, !.data[i] = x] =
        [[k EXCEPT !.ret = n] EXCEPT !.data[i] = x]
  OBVIOUS
<1> QED BY <1>1, <1>2, <1>3 DEF SetData, SetAt

SetOpen(k, i, x) == [k EXCEPT !.files[i] = x]

LEMMA KFile ==
    ASSUME NEW k, IsKernel(k), NEW i, NEW x
    PROVE  SetOpen(k, i, x) =
              K([k.files EXCEPT ![i] = x], k.data, k.pipes, k.fakes, k.machine, k.ret, k.got)
BY SMTT(30) DEF IsKernel, K, SetOpen


-----------------------------------------------------------------------------
(* The inductive invariant, as a predicate of the tables so that it can be *)
(* said of a kernel value in the middle of a call.                         *)

Cursor(of, dt) ==
    of.inode # None /\ dt[of.inode].static =>
        /\ Len(of.seen) = of.offset - of.since
        /\ \A i \in DOMAIN of.seen : of.seen[i] = dt[of.inode].bytes[of.since + i]

\* A listing is under way in directories only: no read can move its offset.
Listed(of, dt) ==
    of.due # {} =>
        /\ of.inode # None
        /\ dt[of.inode].static =>
              /\ Len(dt[of.inode].bytes) = 0
              /\ \A name \in of.due \ of.out :
                    Ahead(DOMAIN dt, of.inode, name, of.offset)

FileOK(of, dt, ps) ==
    /\ of \in OpenFiles
    /\ of.inode \in DOMAIN dt \cup {None}
    /\ of.pipe \in DOMAIN ps \cup {None}
    /\ of.inode = None \/ of.pipe = None
    /\ Cursor(of, dt)
    /\ NamesTogether => Listed(of, dt)

FilesOK(fs, dt, ps) ==
    /\ fs \in [Fds -> OpenFiles \cup {None}]
    /\ \A fd \in Stdio : fs[fd] # None
    /\ \A fd \in Fds : fs[fd] # None => FileOK(fs[fd], dt, ps)

\* What is not static was made by fs::init.
DataOK(dt) ==
    /\ dt \in [DOMAIN dt -> File]
    /\ DOMAIN dt \subseteq Paths
    /\ \A path \in DOMAIN dt :
          /\ Len(dt[path].bytes) <= MaxSize
          /\ ~dt[path].static => path \in DOMAIN Boot /\ ~Boot[path].static

PipesOK(ps) ==
    /\ ps \in Seq(Seq(Byte))
    /\ \A i \in DOMAIN ps : Len(ps[i]) <= PipeSize

FakesOK(fk, next) ==
    /\ fk \in [DOMAIN fk -> Nat \cup {-1}]
    /\ DOMAIN fk \subseteq FakeBase..(next - 1)

IInv ==
    /\ FilesOK(files, data, pipes)
    /\ DataOK(data)
    /\ PipesOK(pipes)
    /\ FakesOK(fakes, fakeNext) /\ fakeNext \in Nat /\ FakeBase <= fakeNext
    /\ machine \in {"up", "panic"}

KernelOK(k) ==
    /\ IsKernel(k)
    /\ FilesOK(k.files, k.data, k.pipes)
    /\ DataOK(k.data)
    /\ PipesOK(k.pipes)
    /\ FakesOK(k.fakes, fakeNext)
    /\ k.machine \in {"up", "panic"}
    /\ k.got \in Seq(Byte) /\ Len(k.got) < Width

LEMMA Numbers ==
    /\ MaxFd \in Nat /\ MaxFd > 2 /\ FakeBase \in Nat /\ FakeBase > 2
    /\ Width \in Nat /\ Width > 1 /\ MaxSize \in Nat /\ MaxSize < Width
    /\ PipeSize \in Nat /\ NscdSize \in Nat /\ MaxPipes \in Nat /\ MaxFake \in Nat
    /\ Stdio \subseteq Fds
<1>1. /\ MaxFd \in Nat /\ MaxFd > 2 /\ FakeBase \in Nat /\ FakeBase > 2
      /\ Width \in Nat /\ MaxSize \in 1..(Width - 1)
      /\ PipeSize \in Nat /\ NscdSize \in Nat /\ MaxPipes \in Nat /\ MaxFake \in Nat
  BY FilesAssumption
<1>2. Stdio \subseteq Fds
  BY <1>1, SMTT(30) DEF Stdio, Fds
<1> QED BY <1>1, <1>2, SMTT(30)

LEMMA KernelOf ==
    ASSUME NEW fs, NEW dt, NEW ps, NEW fk, NEW m, NEW r, NEW g,
           FilesOK(fs, dt, ps), DataOK(dt), PipesOK(ps), FakesOK(fk, fakeNext),
           m \in {"up", "panic"}, g \in Seq(Byte), Len(g) < Width
    PROVE  KernelOK(K(fs, dt, ps, fk, m, r, g))
<1> DEFINE k == K(fs, dt, ps, fk, m, r, g)
<1>1. /\ IsKernel(k)
      /\ k.files = fs /\ k.data = dt /\ k.pipes = ps /\ k.fakes = fk
      /\ k.machine = m /\ k.ret = r /\ k.got = g
  BY SMTT(30) DEF K, IsKernel
<1> HIDE DEF k
<1>2. KernelOK(k)
  BY <1>1 DEF KernelOK
<1> QED BY <1>2 DEF k

LEMMA KernelNow ==
    ASSUME IInv
    PROVE  KernelOK(Kernel)
<1>1. Kernel = K(files, data, pipes, fakes, machine, 0, <<>>)
  BY DEF Kernel, K
<1>2. <<>> \in Seq(Byte) /\ Len(<<>>) < Width
  BY Numbers, SMTT(30)
<1> QED BY <1>1, <1>2, KernelOf DEF IInv

LEMMA CallKeeps ==
    ASSUME IInv, NEW k, KernelOK(k), Call(k), UNCHANGED fakeNext
    PROVE  IInv'
<1>1. FilesOK(files, data, pipes)' /\ DataOK(data)' /\ PipesOK(pipes)'
  BY DEF KernelOK, Call
<1>2. FakesOK(fakes, fakeNext)' /\ fakeNext' \in Nat /\ FakeBase <= fakeNext'
  BY DEF IInv, KernelOK, Call
<1>3. machine' \in {"up", "panic"}
  BY DEF IInv, KernelOK, Call
<1> QED BY <1>1, <1>2, <1>3 DEF IInv

-----------------------------------------------------------------------------
(* Open files.                                                             *)

LEMMA NoneFacts ==
    /\ None \notin Paths /\ None \notin OpenFiles /\ None \notin Nat
    /\ \A of \in OpenFiles : of # None
BY FilesAssumption

LEMMA OpenFields ==
    ASSUME NEW of \in OpenFiles
    PROVE  /\ of.inode \in Paths \cup {None} /\ of.pipe \in Nat \cup {None}
           /\ of.offset \in Nat /\ of.offset < Width
           /\ of.since \in Nat /\ of.since < Width
           /\ of.writable \in BOOLEAN /\ of.seen \in Seq(Byte)
           /\ of.due \subseteq Segments /\ of.out \subseteq Segments
<1>1. of.offset \in 0..(Width - 1) /\ of.since \in 0..(Width - 1)
  BY DEF OpenFiles
<1>2. /\ of.offset \in Nat /\ of.offset < Width
      /\ of.since \in Nat /\ of.since < Width
  BY <1>1, Numbers, SMTT(30)
<1>3. /\ of.inode \in Paths \cup {None} /\ of.pipe \in Nat \cup {None}
      /\ of.writable \in BOOLEAN /\ of.seen \in Seq(Byte)
      /\ of.due \subseteq Segments /\ of.out \subseteq Segments
  BY DEF OpenFiles
<1> QED BY <1>2, <1>3

LEMMA PlacedFields ==
    ASSUME NEW of \in OpenFiles, NEW off \in 0..(Width - 1),
           Names(of.inode) \subseteq Segments
    PROVE  LET p == Placed(of, off)
           IN  /\ p \in OpenFiles
               /\ p.inode = of.inode /\ p.pipe = of.pipe
               /\ p.offset = off /\ p.since = off /\ p.seen = <<>> /\ p.out = {}
               /\ p.due = IF off = 0 THEN Names(of.inode) ELSE {}
<1> DEFINE p == Placed(of, off)
           d == IF off = 0 THEN Names(of.inode) ELSE {}
<1>1. d \subseteq Segments /\ <<>> \in Seq(Byte)
  BY SMTT(30)
<1>2. p = [of EXCEPT !.offset = off, !.since = off, !.seen = <<>>, !.due = d, !.out = {}]
  BY DEF Placed
<1> HIDE DEF d, p
<1>3. p \in OpenFiles
  BY <1>1, <1>2 DEF OpenFiles
<1>4. /\ p.inode = of.inode /\ p.pipe = of.pipe
      /\ p.offset = off /\ p.since = off /\ p.seen = <<>> /\ p.out = {} /\ p.due = d
  BY <1>2 DEF OpenFiles
<1> QED BY <1>3, <1>4 DEF p, d

LEMMA NamesFacts ==
    ASSUME DataOK(data), NEW path \in Paths \cup {None}
    PROVE  /\ Names(path) \subseteq Segments
           /\ Names(path) # {} => path \in DOMAIN data /\ Len(data[path].bytes) = 0
           /\ \A name \in Names(path) : Ahead(DOMAIN data, path, name, 0)
<1>1. CASE ~IsDir(path)
  BY <1>1 DEF Names
<1>2. CASE IsDir(path)
  <2>1. path \in DOMAIN data /\ Len(data[path].bytes) = 0 /\ path \in Paths
    BY <1>2 DEF IsDir, Size, DataOK
  <2> DEFINE e == EntriesIn(DOMAIN data, path)
  <2>2. Names(path) = {e[n] : n \in DOMAIN e}
    BY <1>2, EntriesOfData DEF Names
  <2>3. e \in Seq(Segments)
    BY <2>1, EntriesFacts
  <2> HIDE DEF e
  <2>4. Len(e) \in Nat /\ DOMAIN e = 1..Len(e) /\ \A n \in 1..Len(e) : e[n] \in Segments
    BY <2>3, LenProperties, ElementOfSeq
  <2>5. (0 + 1)..Len(e) = 1..Len(e)
    BY <2>4, SMTT(30)
  <2>6. \A name \in Names(path) : \E n \in (0 + 1)..Len(e) : e[n] = name
    BY <2>2, <2>4, <2>5
  <2>7. Names(path) \subseteq Segments
    BY <2>2, <2>4
  <2> QED BY <2>1, <2>6, <2>7 DEF Ahead, e
<1> QED BY <1>1, <1>2

\* A descriptor that was just placed has nothing to account for.
LEMMA FreshOK ==
    ASSUME NEW of \in OpenFiles, NEW dt, NEW ps, DataOK(dt),
           of.inode \in DOMAIN dt \cup {None}, of.pipe \in DOMAIN ps \cup {None},
           of.inode = None \/ of.pipe = None,
           of.seen = <<>>, of.since = of.offset, of.out = {},
           of.due = {} \/ (dt = data /\ of.offset = 0 /\ of.due = Names(of.inode))
    PROVE  FileOK(of, dt, ps)
<1>1. Cursor(of, dt)
  <2>1. Len(<<>>) = 0 /\ DOMAIN <<>> = {} /\ of.offset - of.offset = 0
    BY OpenFields, SMTT(30)
  <2> QED BY <2>1 DEF Cursor
<1>2. Listed(of, dt)
  <2>1. CASE of.due = {}
    BY <2>1 DEF Listed
  <2>2. CASE dt = data /\ of.offset = 0 /\ of.due = Names(of.inode)
    <3>1. of.inode \in Paths \cup {None} /\ DataOK(data)
      BY <2>2, OpenFields
    <3>2. /\ Names(of.inode) # {} => of.inode \in DOMAIN data /\ Len(data[of.inode].bytes) = 0
          /\ \A name \in Names(of.inode) : Ahead(DOMAIN data, of.inode, name, 0)
      BY <3>1, NamesFacts
    <3>3. None \notin DOMAIN data
      BY <3>1, NoneFacts DEF DataOK
    <3> QED BY <2>2, <3>2, <3>3 DEF Listed
  <2> QED BY <2>1, <2>2
<1> QED BY <1>1, <1>2 DEF FileOK

LEMMA PlacedOK ==
    ASSUME NEW of, NEW dt, NEW ps, NEW off \in 0..(Width - 1),
           DataOK(dt), DataOK(data), FileOK(of, dt, ps), off # 0 \/ dt = data
    PROVE  FileOK(Placed(of, off), dt, ps)
<1> DEFINE p == Placed(of, off)
<1>1. /\ of \in OpenFiles /\ of.inode \in DOMAIN dt \cup {None}
      /\ of.pipe \in DOMAIN ps \cup {None} /\ (of.inode = None \/ of.pipe = None)
  BY DEF FileOK
<1>2. Names(of.inode) \subseteq Segments
  BY <1>1, OpenFields, NamesFacts
<1>3. /\ p \in OpenFiles
      /\ p.inode = of.inode /\ p.pipe = of.pipe
      /\ p.offset = off /\ p.since = off /\ p.seen = <<>> /\ p.out = {}
      /\ p.due = IF off = 0 THEN Names(of.inode) ELSE {}
  BY <1>1, <1>2, PlacedFields
<1> HIDE DEF p
<1>4. p.due = {} \/ (dt = data /\ p.offset = 0 /\ p.due = Names(p.inode))
  BY <1>3
<1>5. FileOK(p, dt, ps)
  BY <1>1, <1>3, <1>4, FreshOK
<1> QED BY <1>5 DEF p

-----------------------------------------------------------------------------
(* The table of open files.                                                *)

LEMMA FileAt ==
    ASSUME NEW fs, NEW dt, NEW ps, FilesOK(fs, dt, ps), NEW fd \in Fds, fs[fd] # None
    PROVE  FileOK(fs[fd], dt, ps)
BY DEF FilesOK

LEMMA SetFile ==
    ASSUME NEW fs, NEW dt, NEW ps, FilesOK(fs, dt, ps), NEW i, NEW of,
           FileOK(of, dt, ps)
    PROVE  FilesOK([fs EXCEPT ![i] = of], dt, ps)
<1> DEFINE gs == [fs EXCEPT ![i] = of]
<1>1. fs \in [Fds -> OpenFiles \cup {None}] /\ of \in OpenFiles /\ of # None
  BY NoneFacts DEF FilesOK, FileOK
<1>2. \A fd \in Fds : gs[fd] = IF fd = i THEN of ELSE fs[fd]
  BY <1>1
<1>3. gs \in [Fds -> OpenFiles \cup {None}]
  BY <1>1
<1> HIDE DEF gs
<1>4. FilesOK(gs, dt, ps)
  BY <1>1, <1>2, <1>3, Numbers DEF FilesOK
<1> QED BY <1>4 DEF gs

\* A write changes no static file.
LEMMA DataChanges ==
    ASSUME NEW fs, NEW dt, NEW ps, FilesOK(fs, dt, ps), NEW du,
           DOMAIN du = DOMAIN dt,
           \A path \in DOMAIN dt : /\ du[path].static = dt[path].static
                                   /\ dt[path].static => du[path] = dt[path]
    PROVE  FilesOK(fs, du, ps)
<1>1. ASSUME NEW of, FileOK(of, dt, ps) PROVE FileOK(of, du, ps)
  <2>1. of.inode \in DOMAIN dt \cup {None}
    BY <1>1 DEF FileOK
  <2>2. Cursor(of, du)
    BY <1>1, <2>1 DEF FileOK, Cursor
  <2>3. NamesTogether => Listed(of, du)
    BY <1>1, <2>1 DEF FileOK, Listed
  <2> QED BY <1>1, <2>2, <2>3 DEF FileOK
<1> QED BY <1>1 DEF FilesOK

\* A new directory.
LEMMA DataGrows ==
    ASSUME NEW fs, NEW dt, NEW ps, FilesOK(fs, dt, ps), DataOK(dt), NEW du,
           NEW path \in Paths \ DOMAIN dt,
           DOMAIN du = DOMAIN dt \cup {path},
           \A q \in DOMAIN dt : du[q] = dt[q]
    PROVE  FilesOK(fs, du, ps)
<1>1. ASSUME NEW of, FileOK(of, dt, ps) PROVE FileOK(of, du, ps)
  <2>1. of \in OpenFiles /\ of.inode \in DOMAIN dt \cup {None}
    BY <1>1 DEF FileOK
  <2>2. Cursor(of, du)
    BY <1>1, <2>1 DEF FileOK, Cursor
  <2>3. ASSUME NamesTogether, of.due # {} PROVE Listed(of, du)
    <3>1. /\ of.inode # None /\ of.inode \in DOMAIN dt
          /\ dt[of.inode].static =>
              /\ Len(dt[of.inode].bytes) = 0
              /\ \A name \in of.due \ of.out :
                    Ahead(DOMAIN dt, of.inode, name, of.offset)
      BY <1>1, <2>1, <2>3 DEF FileOK, Listed
    <3>2. of.inode \in Paths /\ DOMAIN dt \in SUBSET Paths /\ of.offset \in Nat
      BY <2>1, <3>1, OpenFields DEF DataOK
    <3>3. ASSUME NEW name, Ahead(DOMAIN dt, of.inode, name, of.offset)
          PROVE  Ahead(DOMAIN du, of.inode, name, of.offset)
      <4> DEFINE D == DOMAIN dt
                 dir == of.inode
                 off == of.offset
      <4>1. D \in SUBSET Paths /\ dir \in Paths /\ off \in Nat /\ path \in Paths \ D
        BY <3>2
      <4>2. Ahead(D, dir, name, off)
        BY <3>3
      <4> HIDE DEF D, dir, off
      <4>3. Ahead(D \cup {path}, dir, name, off)
        BY <2>3, <4>1, <4>2, AheadGrows
      <4> QED BY <4>3 DEF D, dir, off
    <3> QED BY <3>1, <3>3 DEF Listed
  <2>4. NamesTogether => Listed(of, du)
    BY <2>3 DEF Listed
  <2> QED BY <1>1, <2>1, <2>2, <2>4 DEF FileOK
<1> QED BY <1>1 DEF FilesOK

LEMMA PipesChange ==
    ASSUME NEW fs, NEW dt, NEW ps, FilesOK(fs, dt, ps), NEW qs,
           DOMAIN ps \subseteq DOMAIN qs
    PROVE  FilesOK(fs, dt, qs)
BY DEF FilesOK, FileOK

-----------------------------------------------------------------------------
(* Reading and writing keep a kernel value as it should be.                *)

LEMMA ModSmall ==
    ASSUME NEW a \in Nat, NEW k \in Nat, a < k
    PROVE  a % k = a
BY SMTT(30)

LEMMA ModWraps ==
    ASSUME NEW a \in Nat, NEW k \in Nat, k <= a, a < 2 * k
    PROVE  a % k = a - k
BY SMTT(30)

LEMMA BytesOf ==
    ASSUME NEW dt, DataOK(dt), NEW path \in DOMAIN dt
    PROVE  /\ path \in Paths /\ path # None
           /\ dt[path] = [static |-> dt[path].static, bytes |-> dt[path].bytes]
           /\ dt[path].static \in BOOLEAN /\ dt[path].bytes \in Seq(Byte)
           /\ Len(dt[path].bytes) \in Nat /\ Len(dt[path].bytes) <= MaxSize
<1>1. dt[path] \in File /\ path \in Paths /\ Len(dt[path].bytes) <= MaxSize
  BY DEF DataOK
<1>2. /\ dt[path].static \in BOOLEAN /\ dt[path].bytes \in Seq(Byte)
      /\ dt[path] = [static |-> dt[path].static, bytes |-> dt[path].bytes]
  BY <1>1 DEF File
<1>3. Len(dt[path].bytes) \in Nat
  BY <1>2, LenProperties
<1> QED BY <1>1, <1>2, <1>3, NoneFacts

\* A read of a static file delivers the bytes it moves over.
LEMMA ReadStatic ==
    ASSUME NEW of, NEW dt, NEW ps, DataOK(dt), FileOK(of, dt, ps),
           of.inode # None, dt[of.inode].static,
           NEW n \in Nat, n > 0, of.offset + n <= Len(dt[of.inode].bytes)
    PROVE  FileOK([of EXCEPT !.offset = @ + n,
                             !.seen = @ \o SubSeq(dt[of.inode].bytes, of.offset + 1,
                                                  of.offset + n)], dt, ps)
<1> DEFINE bytes == dt[of.inode].bytes
           a     == of.offset
           b     == of.since
           u     == of.seen
           part  == SubSeq(bytes, a + 1, a + n)
           o     == a + n
           s     == u \o part
           x     == [of EXCEPT !.offset = o, !.seen = s]
<1>1. of \in OpenFiles /\ of.inode \in DOMAIN dt
  BY DEF FileOK
<1>2. /\ bytes \in Seq(Byte) /\ Len(bytes) \in Nat /\ Len(bytes) <= MaxSize
  BY <1>1, BytesOf
<1>3. /\ a \in Nat /\ b \in Nat /\ u \in Seq(Byte) /\ a + n <= Len(bytes)
  BY <1>1, OpenFields
<1>4. /\ Len(u) = a - b
      /\ \A i \in DOMAIN u : u[i] = bytes[b + i]
  BY DEF FileOK, Cursor
<1>5. [of EXCEPT !.offset = @ + n, !.seen = @ \o part] = x
  BY <1>1 DEF OpenFiles
<1>6. NamesTogether => of.due = {}
  <2> SUFFICES ASSUME NamesTogether, of.due # {} PROVE FALSE
    OBVIOUS
  <2>1. Len(bytes) = 0
    BY DEF FileOK, Listed
  <2> HIDE DEF a, bytes
  <2> QED BY <1>3, <2>1, SMTT(30)
<1> HIDE DEF bytes, a, b, u
<1>7. /\ part \in Seq(Byte) /\ Len(part) = n
      /\ \A i \in 1..n : part[i] = bytes[a + i]
  BY <1>2, <1>3, Slice, SMTT(30)
<1> HIDE DEF part
<1>8. Len(u) \in Nat /\ DOMAIN u = 1..Len(u)
  BY <1>3, LenProperties
<1>9. /\ s \in Seq(Byte) /\ Len(s) = Len(u) + n
      /\ \A i \in 1..Len(u) : s[i] = u[i]
      /\ \A i \in 1..n : s[Len(u) + i] = part[i]
  <2>1. u \in Seq(Byte) /\ part \in Seq(Byte)
    BY <1>3, <1>7
  <2>2. s \in Seq(Byte) /\ Len(s) = Len(u) + Len(part)
    BY <2>1, Joined
  <2>3. \A i \in 1..Len(u) : s[i] = u[i]
    BY <2>1, Joined, SMTT(30)
  <2>4. \A i \in 1..Len(part) : s[Len(u) + i] = part[i]
    BY <2>1, Joined, SMTT(30)
  <2> HIDE DEF s
  <2> QED BY <1>7, <2>2, <2>3, <2>4
<1> HIDE DEF s
<1>10. DOMAIN s = 1..Len(s)
  BY <1>9, LenProperties
<1>11. o \in 0..(Width - 1) /\ Len(s) = o - b
  BY <1>2, <1>3, <1>4, <1>8, <1>9, Numbers, SMTT(30)
<1>12. \A i \in 1..Len(s) : s[i] = bytes[b + i]
  <2> TAKE i \in 1..Len(s)
  <2>1. CASE i \in 1..Len(u)
    BY <1>4, <1>8, <1>9, <2>1
  <2>2. CASE i \notin 1..Len(u)
    <3> DEFINE j == i - Len(u)
    <3>1. j \in 1..n /\ Len(u) + j = i /\ a + j = b + i
      BY <1>3, <1>4, <1>8, <1>9, <2>2, SMTT(30)
    <3> HIDE DEF j
    <3>2. s[Len(u) + j] = part[j] /\ part[j] = bytes[a + j]
      BY <1>7, <1>9, <3>1
    <3> QED BY <3>1, <3>2
  <2> QED BY <2>1, <2>2
<1> HIDE DEF o
<1>13. x \in OpenFiles
  BY <1>1, <1>9, <1>11 DEF OpenFiles
<1>14. /\ x.inode = of.inode /\ x.pipe = of.pipe /\ x.offset = o /\ x.since = b
       /\ x.seen = s /\ x.due = of.due /\ x.out = of.out
  BY <1>1 DEF OpenFiles, b
<1> HIDE DEF x
<1>15. Cursor(x, dt)
  BY <1>10, <1>11, <1>12, <1>14 DEF Cursor, bytes
<1>16. NamesTogether => Listed(x, dt)
  BY <1>6, <1>14 DEF Listed
<1>17. FileOK(x, dt, ps)
  BY <1>13, <1>14, <1>15, <1>16 DEF FileOK
<1> QED BY <1>5, <1>17 DEF bytes, part, a

LEMMA KernelParts ==
    ASSUME NEW k, KernelOK(k)
    PROVE  /\ IsKernel(k) /\ FilesOK(k.files, k.data, k.pipes)
           /\ DataOK(k.data) /\ PipesOK(k.pipes) /\ FakesOK(k.fakes, fakeNext)
           /\ k.machine \in {"up", "panic"}
           /\ k.got \in Seq(Byte) /\ Len(k.got) < Width
BY DEF KernelOK

LEMMA ReturnsOK ==
    ASSUME NEW k, KernelOK(k), NEW n
    PROVE  KernelOK(Returns(k, n)) /\ Returns(k, n).data = k.data
<1>1. Returns(k, n) = K(k.files, k.data, k.pipes, k.fakes, k.machine, n, k.got)
  BY KernelParts, KReturns
<1>2. Returns(k, n).data = k.data
  BY <1>1, SMTT(30) DEF K
<1> QED BY <1>1, <1>2, KernelParts, KernelOf

LEMMA PanicsOK ==
    ASSUME NEW k, KernelOK(k)
    PROVE  KernelOK(Panics(k)) /\ Panics(k).data = k.data
<1>1. Panics(k) = K(k.files, k.data, k.pipes, k.fakes, "panic", k.ret, k.got)
  BY KernelParts, KPanics
<1>2. Panics(k).data = k.data
  BY <1>1, SMTT(30) DEF K
<1> QED BY <1>1, <1>2, KernelParts, KernelOf

LEMMA ReadInodeOK ==
    ASSUME NEW k, KernelOK(k), DataOK(data), NEW fd \in Fds,
           k.files[fd] # None, k.files[fd].inode # None,
           NEW count \in 0..(Width - 1)
    PROVE  LET r == ReadInode(k, fd, count) IN KernelOK(r) /\ r.data = k.data
<1> DEFINE of    == k.files[fd]
           bytes == k.data[of.inode].bytes
           n     == Least(Len(bytes) - of.offset, count)
           part  == SubSeq(bytes, of.offset + 1, of.offset + n)
           y     == [of EXCEPT !.offset = @ + n, !.seen = @ \o part]
           x     == IF k.data[of.inode].static THEN y ELSE Placed(of, of.offset + n)
           r     == ReadInode(k, fd, count)
<1>1. FileOK(of, k.data, k.pipes)
  BY KernelParts, FileAt
<1>2. of \in OpenFiles /\ of.inode \in DOMAIN k.data
  BY <1>1 DEF FileOK
<1>3. bytes \in Seq(Byte) /\ Len(bytes) \in Nat /\ Len(bytes) <= MaxSize
  BY <1>2, KernelParts, BytesOf
<1>4. of.offset \in Nat /\ count \in Nat /\ count < Width
  BY <1>2, OpenFields, Numbers, SMTT(30)
<1>5. CASE of.offset > Len(bytes)
  <2>1. r = Panics(k)
    BY <1>5 DEF ReadInode
  <2> HIDE DEF r
  <2> QED BY <2>1, PanicsOK DEF r
<1>6. CASE ~(of.offset > Len(bytes)) /\ n = 0
  <2>1. r = Returns(k, 0)
    BY <1>6 DEF ReadInode
  <2> HIDE DEF r
  <2> QED BY <2>1, ReturnsOK DEF r
<1>7. CASE ~(of.offset > Len(bytes)) /\ n # 0
  <2>1. n \in Nat /\ n > 0 /\ n < Width /\ of.offset + n <= Len(bytes)
        /\ of.offset + n \in 0..(Width - 1) /\ of.offset + n # 0
    <3> HIDE DEF bytes, of
    <3> QED BY <1>3, <1>4, <1>7, Numbers, SMTT(30) DEF Least
  <2>2. r = GotFile(k, n, part, fd, x)
    BY <1>7 DEF ReadInode, GotFile
  <2>3. part \in Seq(Byte) /\ Len(part) = n
    <3> HIDE DEF bytes, of, n
    <3> QED BY <1>3, <1>4, <2>1, Slice
  <2>4. FileOK(x, k.data, k.pipes)
    <3>1. CASE k.data[of.inode].static
      <4> HIDE DEF of, n
      <4>1. FileOK(y, k.data, k.pipes)
        BY <1>1, <2>1, <3>1, KernelParts, ReadStatic DEF of
      <4> QED BY <3>1, <4>1
    <3>2. CASE ~k.data[of.inode].static
      <4> DEFINE o == of.offset + n
      <4>1. o \in 0..(Width - 1) /\ o # 0
        BY <2>1
      <4> HIDE DEF o
      <4>2. FileOK(Placed(of, o), k.data, k.pipes)
        BY <1>1, <4>1, KernelParts, PlacedOK
      <4> QED BY <3>2, <4>2 DEF o
    <3> QED BY <3>1, <3>2
  <2> HIDE DEF of, x, r, n, part
  <2>k. IsKernel(k)
    BY KernelParts
  <2>5. r = K([k.files EXCEPT ![fd] = x], k.data, k.pipes, k.fakes, k.machine, n, part)
    BY <2>2, <2>k, KGotFile
  <2>6. r.data = k.data
    BY <2>5, SMTT(30) DEF K
  <2>7. FilesOK([k.files EXCEPT ![fd] = x], k.data, k.pipes)
    BY <2>4, KernelParts, SetFile
  <2>8. Len(part) < Width
    BY <2>1, <2>3
  <2>9. KernelOK(r)
    BY <2>3, <2>5, <2>7, <2>8, KernelParts, KernelOf
  <2> QED BY <2>6, <2>9 DEF r
<1> QED BY <1>5, <1>6, <1>7

-----------------------------------------------------------------------------
(* What write_inode does, without the arithmetic of usize.                 *)

Patched(bytes, off, chunk) ==
    LET end == off + Len(chunk)
    IN  [i \in 1..(IF end > Len(bytes) THEN end ELSE Len(bytes)) |->
            IF off < i /\ i <= end THEN chunk[i - off]
            ELSE IF i <= Len(bytes) THEN bytes[i] ELSE 0]

WithData(k, path, bytes) ==
    [k.data EXCEPT ![path] = [static |-> FALSE, bytes |-> bytes]]

LEMMA PatchedFacts ==
    ASSUME NEW bytes \in Seq(Byte), NEW chunk \in Seq(Byte), NEW off \in Nat
    PROVE  /\ Patched(bytes, off, chunk) \in Seq(Byte)
           /\ Len(Patched(bytes, off, chunk)) =
                 IF off + Len(chunk) > Len(bytes) THEN off + Len(chunk) ELSE Len(bytes)
<1> DEFINE end  == off + Len(chunk)
           long == IF end > Len(bytes) THEN end ELSE Len(bytes)
           f    == Patched(bytes, off, chunk)
<1>1. /\ Len(bytes) \in Nat /\ \A i \in 1..Len(bytes) : bytes[i] \in Byte
      /\ Len(chunk) \in Nat /\ \A i \in 1..Len(chunk) : chunk[i] \in Byte
  BY LenProperties, ElementOfSeq
<1>2. long \in Nat /\ 0 \in Byte
  BY <1>1, SMTT(30) DEF Byte
<1>3. ASSUME NEW i \in 1..long
      PROVE  (IF off < i /\ i <= end THEN chunk[i - off]
              ELSE IF i <= Len(bytes) THEN bytes[i] ELSE 0) \in Byte
  <2>1. /\ off < i /\ i <= end => i - off \in 1..Len(chunk)
        /\ i <= Len(bytes) => i \in 1..Len(bytes)
    BY <1>1, SMTT(30)
  <2> QED BY <1>1, <1>2, <2>1
<1>4. f \in [1..long -> Byte]
  BY <1>3 DEF Patched
<1> HIDE DEF long, f
<1>5. f \in Seq(Byte) /\ Len(f) = long
  BY <1>2, <1>4, AsSeq
<1> QED BY <1>5 DEF f, long

\* An end that wraps around is before the offset: only a write that fits is
\* made.
LEMMA WriteForm ==
    ASSUME NEW k, KernelOK(k), NEW path \in DOMAIN k.data,
           NEW off \in 0..(Width - 1), NEW chunk \in Seq(Byte), Len(chunk) < Width
    PROVE  LET w == WriteInode(k, path, off, chunk)
           IN  /\ k.data[path].static =>
                     w = K(k.files, k.data, k.pipes, k.fakes, k.machine, 0, k.got)
               /\ ~k.data[path].static /\ off + Len(chunk) > MaxSize =>
                     w = K(k.files, k.data, k.pipes, k.fakes, "panic", k.ret, k.got)
               /\ ~k.data[path].static /\ off + Len(chunk) <= MaxSize =>
                     w = K(k.files, WithData(k, path, Patched(k.data[path].bytes, off, chunk)),
                           k.pipes, k.fakes, k.machine, Len(chunk), k.got)
<1> DEFINE bytes == k.data[path].bytes
           sum   == off + Len(chunk)
           end   == sum % Width
           long  == IF end > Len(bytes) THEN end ELSE Len(bytes)
           w     == WriteInode(k, path, off, chunk)
           b     == [i \in 1..long |-> IF off < i /\ i <= end THEN chunk[i - off]
                                       ELSE IF i <= Len(bytes) THEN bytes[i] ELSE 0]
           x     == [static |-> FALSE, bytes |-> b]
<1>1. IsKernel(k) /\ DataOK(k.data)
  BY KernelParts
<1>2. Len(bytes) \in Nat /\ Len(bytes) <= MaxSize /\ Len(chunk) \in Nat
  BY <1>1, BytesOf, LenProperties
<1>3. w = IF k.data[path].static THEN Returns(k, 0)
          ELSE IF long > MaxSize \/ off > end THEN Panics(k)
          ELSE SetData(k, Len(chunk), path, x)
  BY DEF WriteInode, SetData
<1>4. CASE k.data[path].static
  BY <1>1, <1>3, <1>4, KReturns
<1>5. CASE ~k.data[path].static /\ sum > MaxSize
  <2>1. long > MaxSize \/ off > end
    <3>1. off \in Nat /\ off < Width /\ sum \in Nat /\ sum < 2 * Width
      BY <1>2, Numbers, SMTT(30)
    <3>2. CASE sum < Width
      <4>1. end = sum
        <5> HIDE DEF sum
        <5> QED BY <3>1, <3>2, Numbers, ModSmall
      <4> HIDE DEF end
      <4> QED BY <1>2, <1>5, <3>1, <4>1, Numbers, SMTT(30)
    <3>3. CASE ~(sum < Width)
      <4>1. end = sum - Width
        <5> HIDE DEF sum
        <5>1. Width <= sum /\ Width \in Nat
          BY <3>1, <3>3, Numbers, SMTT(30)
        <5> QED BY <3>1, <5>1, ModWraps
      <4> HIDE DEF end
      <4>2. off > end
        BY <1>2, <3>1, <4>1, Numbers, SMTT(30)
      <4> QED BY <4>2
    <3> QED BY <3>2, <3>3
  <2>2. w = Panics(k)
    BY <1>3, <1>5, <2>1
  <2>3. w = K(k.files, k.data, k.pipes, k.fakes, "panic", k.ret, k.got)
    BY <1>1, <2>2, KPanics
  <2>4. ~(sum <= MaxSize)
    BY <1>2, <1>5, Numbers, SMTT(30)
  <2> QED BY <1>5, <2>3, <2>4
<1>6. CASE ~k.data[path].static /\ ~(sum > MaxSize)
  <2>1. sum \in Nat /\ sum < Width
    BY <1>2, <1>6, Numbers, SMTT(30)
  <2>2. end = sum
    <3> HIDE DEF sum
    <3> QED BY <2>1, Numbers, ModSmall
  <2>3. ~(long > MaxSize \/ off > end)
    <3> HIDE DEF end, bytes
    <3> QED BY <1>2, <1>6, <2>2, Numbers, SMTT(30)
  <2>4. b = Patched(bytes, off, chunk)
    BY <2>2 DEF Patched
  <2> DEFINE n == Len(chunk)
  <2>5. w = SetData(k, n, path, x)
    BY <1>3, <1>6, <2>3
  <2> HIDE DEF w, b, x, n
  <2>6. w = K(k.files, SetAt(k.data, path, x), k.pipes, k.fakes, k.machine, n, k.got)
    BY <1>1, <2>5, KData
  <2>7. w = K(k.files, WithData(k, path, Patched(bytes, off, chunk)),
              k.pipes, k.fakes, k.machine, Len(chunk), k.got)
    BY <2>4, <2>6 DEF WithData, SetAt, x, n
  <2> QED BY <1>6, <2>7 DEF w
<1> QED BY <1>4, <1>5, <1>6

LEMMA WriteDataOK ==
    ASSUME NEW k, KernelOK(k), NEW path \in DOMAIN k.data, ~k.data[path].static,
           NEW off \in Nat, NEW chunk \in Seq(Byte), off + Len(chunk) <= MaxSize
    PROVE  LET du == WithData(k, path, Patched(k.data[path].bytes, off, chunk))
           IN  /\ DataOK(du) /\ FilesOK(k.files, du, k.pipes)
               /\ DOMAIN du = DOMAIN k.data
               /\ \A q \in DOMAIN k.data : q # path => du[q] = k.data[q]
               /\ du[path].bytes = Patched(k.data[path].bytes, off, chunk)
               /\ ~du[path].static
<1> DEFINE bytes == k.data[path].bytes
           b  == Patched(bytes, off, chunk)
           x  == [static |-> FALSE, bytes |-> b]
           du == WithData(k, path, b)
<1>1. DataOK(k.data) /\ FilesOK(k.files, k.data, k.pipes)
  BY KernelParts
<1>2. /\ bytes \in Seq(Byte) /\ Len(bytes) \in Nat /\ Len(bytes) <= MaxSize
      /\ Len(chunk) \in Nat
  BY <1>1, BytesOf, LenProperties
<1>3. b \in Seq(Byte) /\ Len(b) <= MaxSize
  <2> HIDE DEF bytes, b
  <2>1. b \in Seq(Byte) /\ Len(b) = IF off + Len(chunk) > Len(bytes)
                                    THEN off + Len(chunk) ELSE Len(bytes)
    BY <1>2, PatchedFacts DEF b
  <2> QED BY <1>2, <2>1, SMTT(30)
<1> HIDE DEF b
<1>4. x \in File /\ x.bytes = b /\ x.static = FALSE
  BY <1>3 DEF File
<1> HIDE DEF x
<1>5. du = [k.data EXCEPT ![path] = x]
  BY DEF WithData, x
<1>6. k.data \in [DOMAIN k.data -> File]
  BY <1>1 DEF DataOK
<1>7. /\ DOMAIN du = DOMAIN k.data /\ du[path] = x
      /\ \A q \in DOMAIN k.data : q # path => du[q] = k.data[q]
      /\ du \in [DOMAIN k.data -> File]
  BY <1>4, <1>5, <1>6
<1> HIDE DEF du
<1>8. DataOK(du)
  BY <1>1, <1>3, <1>4, <1>7 DEF DataOK
<1>9. FilesOK(k.files, du, k.pipes)
  <2>1. \A q \in DOMAIN k.data : /\ du[q].static = k.data[q].static
                                 /\ k.data[q].static => du[q] = k.data[q]
    <3>1. k.data[path].static = FALSE
      BY <1>1, BytesOf
    <3> QED BY <1>4, <1>7, <3>1
  <2> QED BY <1>1, <1>7, <2>1, DataChanges
<1> QED BY <1>4, <1>7, <1>8, <1>9 DEF du, b

LEMMA PipeAt ==
    ASSUME NEW ps, PipesOK(ps), NEW p \in DOMAIN ps
    PROVE  /\ ps[p] \in Seq(Byte) /\ Len(ps[p]) \in Nat /\ Len(ps[p]) <= PipeSize
           /\ p \in Nat
<1>1. ps \in Seq(Seq(Byte)) /\ Len(ps[p]) <= PipeSize
  BY DEF PipesOK
<1>2. Len(ps) \in Nat /\ DOMAIN ps = 1..Len(ps)
  BY <1>1, LenProperties
<1>3. p \in 1..Len(ps) /\ p \in Nat
  BY <1>2, SMTT(30)
<1>4. ps[p] \in Seq(Byte)
  BY <1>1, <1>3, ElementOfSeq
<1> QED BY <1>1, <1>3, <1>4, LenProperties

LEMMA SetPipeOK ==
    ASSUME NEW ps, PipesOK(ps), NEW p, NEW q \in Seq(Byte), Len(q) <= PipeSize
    PROVE  /\ PipesOK([ps EXCEPT ![p] = q])
           /\ DOMAIN [ps EXCEPT ![p] = q] = DOMAIN ps
<1> DEFINE qs == [ps EXCEPT ![p] = q]
<1>1. ps \in Seq(Seq(Byte)) /\ \A i \in DOMAIN ps : Len(ps[i]) <= PipeSize
  BY DEF PipesOK
<1>2. Len(ps) \in Nat /\ DOMAIN ps = 1..Len(ps) /\ ps \in [1..Len(ps) -> Seq(Byte)]
  BY <1>1, LenProperties
<1>3. /\ qs \in [1..Len(ps) -> Seq(Byte)] /\ DOMAIN qs = DOMAIN ps
      /\ \A i \in DOMAIN ps : qs[i] = IF i = p THEN q ELSE ps[i]
  BY <1>2
<1> HIDE DEF qs
<1>4. qs \in Seq(Seq(Byte))
  BY <1>2, <1>3, AsSeq
<1>5. PipesOK(qs)
  BY <1>1, <1>3, <1>4 DEF PipesOK
<1> QED BY <1>3, <1>5 DEF qs

LEMMA PartOf ==
    ASSUME NEW s \in Seq(Byte), NEW count \in Nat
    PROVE  LET n == Least(Len(s), count)
           IN  /\ n \in Nat /\ n <= Len(s) /\ n <= count
               /\ SubSeq(s, 1, n) \in Seq(Byte) /\ Len(SubSeq(s, 1, n)) = n
               /\ SubSeq(s, n + 1, Len(s)) \in Seq(Byte)
               /\ Len(SubSeq(s, n + 1, Len(s))) = Len(s) - n
<1> DEFINE n == Least(Len(s), count)
<1>1. Len(s) \in Nat
  BY LenProperties
<1>2. n \in Nat /\ n <= Len(s) /\ n <= count
  BY <1>1, SMTT(30) DEF Least
<1> HIDE DEF n
<1>3. /\ 0 + 1 = 1 /\ 0 + n = n /\ n + (Len(s) - n) = Len(s)
      /\ Len(s) - n \in Nat /\ 0 \in Nat /\ 0 + n <= Len(s) /\ n + (Len(s) - n) <= Len(s)
  BY <1>1, <1>2, SMTT(30)
<1>4. SubSeq(s, 0 + 1, 0 + n) \in Seq(Byte) /\ Len(SubSeq(s, 0 + 1, 0 + n)) = n
  BY <1>2, <1>3, Slice
<1>5. /\ SubSeq(s, n + 1, n + (Len(s) - n)) \in Seq(Byte)
      /\ Len(SubSeq(s, n + 1, n + (Len(s) - n))) = Len(s) - n
  <2> DEFINE m == Len(s) - n
  <2>1. m \in Nat /\ n + m <= Len(s)
    BY <1>3
  <2> HIDE DEF m
  <2>2. SubSeq(s, n + 1, n + m) \in Seq(Byte) /\ Len(SubSeq(s, n + 1, n + m)) = m
    BY <1>2, <2>1, Slice
  <2> QED BY <2>2 DEF m
<1> QED BY <1>2, <1>3, <1>4, <1>5 DEF n

LEMMA FakesChange ==
    ASSUME NEW fk, NEW next, FakesOK(fk, next), NEW fd, NEW n \in Nat
    PROVE  FakesOK([fk EXCEPT ![fd] = n], next)
BY DEF FakesOK

LEMMA ReadFromOK ==
    ASSUME NEW k, KernelOK(k), DataOK(data), NEW fd, NEW count \in 0..(Width - 1),
           NEW line \in Seq(Byte)
    PROVE  LET r == ReadFrom(k, fd, count, line) IN KernelOK(r) /\ r.data = k.data
<1> DEFINE of == IF fd \in Fds THEN k.files[fd] ELSE None
           r  == ReadFrom(k, fd, count, line)
<1>0. /\ IsKernel(k) /\ FilesOK(k.files, k.data, k.pipes)
      /\ DataOK(k.data) /\ PipesOK(k.pipes) /\ FakesOK(k.fakes, fakeNext)
      /\ k.machine \in {"up", "panic"}
  BY KernelParts
<1>1. count \in Nat /\ count < Width
  BY Numbers, SMTT(30)
<1>2. of # None => fd \in Fds /\ of = k.files[fd] /\ FileOK(of, k.data, k.pipes)
  BY <1>0, FileAt
<1>3. CASE IsConsole(of)
  <2> DEFINE n == Least(Len(line), count)
             g == SubSeq(line, 1, n)
  <2>1. r = Got(k, n, g)
    BY <1>3 DEF ReadFrom, Got
  <2>2. n \in Nat /\ n <= count /\ g \in Seq(Byte) /\ Len(g) = n
    BY <1>1, PartOf
  <2> HIDE DEF n, g, r, of
  <2>3. Len(g) < Width
    BY <1>1, <2>2, Numbers, SMTT(30)
  <2>4. r = K(k.files, k.data, k.pipes, k.fakes, k.machine, n, g)
    BY <1>0, <2>1, KGot
  <2>5. r.data = k.data
    BY <2>4, SMTT(30) DEF K
  <2>6. KernelOK(r)
    BY <1>0, <2>2, <2>3, <2>4, KernelOf
  <2> QED BY <2>5, <2>6 DEF r
<1>4. CASE ~IsConsole(of) /\ fd \in DOMAIN k.fakes /\ k.fakes[fd] # -1
  <2> DEFINE n == Least(k.fakes[fd], count)
             g == [i \in 1..n |-> 0]
             m == k.fakes[fd] - n
  <2>1. r = GotFake(k, n, g, fd, m)
    BY <1>4 DEF ReadFrom, GotFake
  <2>2. k.fakes[fd] \in Nat
    BY <1>0, <1>4 DEF FakesOK
  <2>3. n \in Nat /\ n <= count /\ m \in Nat /\ 0 \in Byte
    BY <1>1, <2>2, SMTT(30) DEF Least, Byte
  <2> HIDE DEF n, m, r, of
  <2>4. g \in [1..n -> Byte]
    BY <2>3
  <2> HIDE DEF g
  <2>5. g \in Seq(Byte) /\ Len(g) = n
    BY <2>3, <2>4, AsSeq
  <2>6. Len(g) < Width
    BY <1>1, <2>3, <2>5, Numbers, SMTT(30)
  <2>7. r = K(k.files, k.data, k.pipes, [k.fakes EXCEPT ![fd] = m], k.machine, n, g)
    BY <1>0, <2>1, KGotFake
  <2>8. FakesOK([k.fakes EXCEPT ![fd] = m], fakeNext)
    BY <1>0, <2>3, FakesChange
  <2>9. r.data = k.data
    BY <2>7, SMTT(30) DEF K
  <2>10. KernelOK(r)
    BY <1>0, <2>5, <2>6, <2>7, <2>8, KernelOf
  <2> QED BY <2>9, <2>10 DEF r
<1> DEFINE other == ~IsConsole(of) /\ ~(fd \in DOMAIN k.fakes /\ k.fakes[fd] # -1)
<1>5. CASE other /\ of = None
  <2>1. r = Returns(k, -1)
    BY <1>5 DEF ReadFrom
  <2> HIDE DEF r
  <2> QED BY <2>1, ReturnsOK DEF r
<1>6. CASE other /\ of # None /\ of.pipe # None
  <2> DEFINE queue == k.pipes[of.pipe]
             n     == Least(Len(queue), count)
             g     == SubSeq(queue, 1, n)
             q     == SubSeq(queue, n + 1, Len(queue))
             p     == of.pipe
             ps    == [k.pipes EXCEPT ![p] = q]
  <2>1. r = GotPipe(k, n, g, p, q)
    BY <1>6 DEF ReadFrom, GotPipe
  <2>2. p \in DOMAIN k.pipes
    BY <1>2, <1>6 DEF FileOK
  <2>3. queue \in Seq(Byte) /\ Len(queue) \in Nat /\ Len(queue) <= PipeSize
    BY <1>0, <2>2, PipeAt
  <2> HIDE DEF queue, r, of, p
  <2>4. /\ n \in Nat /\ n <= count /\ g \in Seq(Byte) /\ Len(g) = n
        /\ q \in Seq(Byte) /\ Len(q) = Len(queue) - n
    BY <1>1, <2>3, PartOf
  <2> HIDE DEF n, g, q
  <2>5. Len(g) < Width /\ Len(q) <= PipeSize
    BY <1>1, <2>3, <2>4, Numbers, SMTT(30)
  <2>6. PipesOK(ps) /\ DOMAIN ps = DOMAIN k.pipes
    BY <1>0, <2>4, <2>5, SetPipeOK
  <2>7. r = K(k.files, k.data, ps, k.fakes, k.machine, n, g)
    BY <1>0, <2>1, KGotPipe
  <2> HIDE DEF ps
  <2>8. FilesOK(k.files, k.data, ps)
    BY <1>0, <2>6, PipesChange
  <2>9. r.data = k.data
    BY <2>7, SMTT(30) DEF K
  <2>10. KernelOK(r)
    BY <1>0, <2>4, <2>5, <2>6, <2>7, <2>8, KernelOf
  <2> QED BY <2>9, <2>10 DEF r
<1>7. CASE other /\ of # None /\ of.pipe = None
  <2>1. r = ReadInode(k, fd, count)
    BY <1>7 DEF ReadFrom
  <2>2. of.inode # None /\ fd \in Fds /\ of = k.files[fd]
    BY <1>2, <1>7 DEF IsConsole
  <2> HIDE DEF r
  <2>3. KernelOK(r) /\ r.data = k.data
    BY <1>7, <2>1, <2>2, ReadInodeOK
  <2> QED BY <2>3 DEF r
<1> QED BY <1>3, <1>4, <1>5, <1>6, <1>7


LEMMA WriteInodeOK ==
    ASSUME NEW k, KernelOK(k), NEW path \in DOMAIN k.data,
           NEW off \in 0..(Width - 1), NEW chunk \in Seq(Byte), Len(chunk) < Width
    PROVE  KernelOK(WriteInode(k, path, off, chunk))
<1> DEFINE bytes == k.data[path].bytes
           w     == WriteInode(k, path, off, chunk)
           du    == WithData(k, path, Patched(bytes, off, chunk))
<1>0. /\ IsKernel(k) /\ FilesOK(k.files, k.data, k.pipes)
      /\ DataOK(k.data) /\ PipesOK(k.pipes) /\ FakesOK(k.fakes, fakeNext)
      /\ k.machine \in {"up", "panic"} /\ "panic" \in {"up", "panic"}
      /\ k.got \in Seq(Byte) /\ Len(k.got) < Width
  BY KernelParts
<1>1. /\ k.data[path].static =>
            w = K(k.files, k.data, k.pipes, k.fakes, k.machine, 0, k.got)
      /\ ~k.data[path].static /\ off + Len(chunk) > MaxSize =>
            w = K(k.files, k.data, k.pipes, k.fakes, "panic", k.ret, k.got)
      /\ ~k.data[path].static /\ off + Len(chunk) <= MaxSize =>
            w = K(k.files, du, k.pipes, k.fakes, k.machine, Len(chunk), k.got)
  BY WriteForm
<1>2. off \in Nat /\ (off + Len(chunk) > MaxSize \/ off + Len(chunk) <= MaxSize)
  BY LenProperties, Numbers, SMTT(30)
<1>3. ~k.data[path].static /\ off + Len(chunk) <= MaxSize
        => DataOK(du) /\ FilesOK(k.files, du, k.pipes)
  BY <1>2, WriteDataOK
<1> HIDE DEF w, du
<1>4. CASE k.data[path].static
  BY <1>0, <1>1, <1>4, KernelOf DEF w
<1>5. CASE ~k.data[path].static /\ off + Len(chunk) > MaxSize
  BY <1>0, <1>1, <1>5, KernelOf DEF w
<1>6. CASE ~k.data[path].static /\ off + Len(chunk) <= MaxSize
  BY <1>0, <1>1, <1>3, <1>6, KernelOf DEF w
<1> QED BY <1>2, <1>4, <1>5, <1>6

(* The outcomes of sys_write, by what the descriptor names.                *)

LEMMA WriteElsewhere ==
    ASSUME NEW k, KernelOK(k), NEW fd \in Fds, NEW chunk,
           \/ fd \in {1, 2} \/ k.files[fd] = None
           \/ k.files[fd].pipe = None /\ k.files[fd].inode = None
    PROVE  WriteTo(k, fd, chunk) =
              Returns(k, IF fd \in {1, 2} THEN Len(chunk)
                         ELSE IF k.files[fd] = None THEN -1 ELSE 0)
BY DEF WriteTo

LEMMA WritePipe ==
    ASSUME NEW k, KernelOK(k), NEW fd \in Fds, NEW chunk \in Seq(Byte),
           fd \notin {1, 2}, k.files[fd] # None, k.files[fd].pipe # None
    PROVE  LET p == k.files[fd].pipe
               q == k.pipes[p]
               n == Accepts(q, chunk)
               t == q \o SubSeq(chunk, 1, n)
           IN  /\ p \in DOMAIN k.pipes /\ q \in Seq(Byte) /\ Len(q) <= PipeSize
               /\ n \in Nat /\ n <= Len(chunk)
               /\ t \in Seq(Byte) /\ Len(t) = Len(q) + n /\ Len(t) <= PipeSize
               /\ WriteTo(k, fd, chunk) =
                     K(k.files, k.data, [k.pipes EXCEPT ![p] = t], k.fakes,
                       k.machine, n, k.got)
<1> DEFINE p == k.files[fd].pipe
           q == k.pipes[p]
           n == Accepts(q, chunk)
           s == SubSeq(chunk, 1, n)
           t == q \o s
           w == WriteTo(k, fd, chunk)
<1>1. /\ IsKernel(k) /\ PipesOK(k.pipes) /\ FileOK(k.files[fd], k.data, k.pipes)
  BY KernelParts, FileAt
<1>2. p \in DOMAIN k.pipes
  BY <1>1 DEF FileOK
<1>3. q \in Seq(Byte) /\ Len(q) \in Nat /\ Len(q) <= PipeSize
  BY <1>1, <1>2, PipeAt
<1>4. w = SetPipe(k, n, p, t)
  BY DEF WriteTo, SetPipe
<1> HIDE DEF q, p
<1>5. Len(chunk) \in Nat
  BY LenProperties
<1>6. n \in Nat /\ n <= Len(chunk) /\ Len(q) + n <= PipeSize
  BY <1>3, <1>5, Numbers, SMTT(30) DEF Accepts, Least
<1> HIDE DEF n
<1>7. s \in Seq(Byte) /\ Len(s) = n
  <2>1. 0 + 1 = 1 /\ 0 + n = n /\ 0 \in Nat /\ 0 + n <= Len(chunk)
    BY <1>5, <1>6, SMTT(30)
  <2>2. SubSeq(chunk, 0 + 1, 0 + n) \in Seq(Byte) /\ Len(SubSeq(chunk, 0 + 1, 0 + n)) = n
    BY <1>6, <2>1, Slice, SMTT(30)
  <2> QED BY <2>1, <2>2
<1> HIDE DEF s
<1>8. t \in Seq(Byte) /\ Len(t) = Len(q) + n
  BY <1>3, <1>7, Joined
<1> HIDE DEF t, w
<1>9. w = K(k.files, k.data, [k.pipes EXCEPT ![p] = t], k.fakes, k.machine, n, k.got)
  <2>1. IsKernel(k)
    BY <1>1
  <2>2. w = K(k.files, k.data, SetAt(k.pipes, p, t), k.fakes, k.machine, n, k.got)
    BY <1>4, <2>1, KPipe
  <2> QED BY <2>2 DEF SetAt
<1> QED BY <1>2, <1>3, <1>6, <1>8, <1>9 DEF t, s, n, q, p, w

LEMMA WriteFile ==
    ASSUME NEW k, KernelOK(k), k.machine = "up", NEW fd \in Fds,
           NEW chunk \in Seq(Byte), Len(chunk) < Width,
           fd \notin {1, 2}, k.files[fd] # None,
           k.files[fd].pipe = None, k.files[fd].inode # None
    PROVE  LET of == k.files[fd]
               path == of.inode
               off  == of.offset
               w    == WriteTo(k, fd, chunk)
               du   == WithData(k, path, Patched(k.data[path].bytes, off, chunk))
           IN  /\ FileOK(of, k.data, k.pipes)
               /\ path \in DOMAIN k.data /\ off \in Nat /\ off < Width
               /\ k.data[path].static =>
                    w = K(k.files, k.data, k.pipes, k.fakes, "up", 0, k.got)
               /\ ~k.data[path].static /\ off + Len(chunk) > MaxSize =>
                    w = K(k.files, k.data, k.pipes, k.fakes, "panic", k.ret, k.got)
               /\ ~k.data[path].static /\ off + Len(chunk) <= MaxSize /\ Len(chunk) = 0 =>
                    w = K(k.files, du, k.pipes, k.fakes, "up", 0, k.got)
               /\ ~k.data[path].static /\ off + Len(chunk) <= MaxSize /\ Len(chunk) > 0 =>
                    w = K([k.files EXCEPT ![fd] = Moved(of, Len(chunk))], du,
                          k.pipes, k.fakes, "up", Len(chunk), k.got)
<1> DEFINE of   == k.files[fd]
           path == of.inode
           off  == of.offset
           len  == Len(chunk)
           w    == WriteTo(k, fd, chunk)
           v    == WriteInode(k, path, off, chunk)
           du   == WithData(k, path, Patched(k.data[path].bytes, off, chunk))
           st   == k.data[path].static
<1>1. FileOK(of, k.data, k.pipes)
  BY KernelParts, FileAt
<1>2. path \in DOMAIN k.data /\ of \in OpenFiles
  BY <1>1 DEF FileOK
<1>3. off \in Nat /\ off < Width /\ off \in 0..(Width - 1)
  <2>1. off \in Nat /\ off < Width
    BY <1>2, OpenFields
  <2> HIDE DEF off
  <2> QED BY <2>1, Numbers, SMTT(30)
<1>4. len \in Nat
  BY LenProperties
<1>5. w = IF v.machine = "up" /\ v.ret > 0 THEN SetOpen(v, fd, Moved(of, v.ret)) ELSE v
  BY DEF WriteTo, SetOpen
<1>6. /\ st => v = K(k.files, k.data, k.pipes, k.fakes, "up", 0, k.got)
      /\ ~st /\ off + len > MaxSize =>
            v = K(k.files, k.data, k.pipes, k.fakes, "panic", k.ret, k.got)
      /\ ~st /\ off + len <= MaxSize =>
            v = K(k.files, du, k.pipes, k.fakes, "up", len, k.got)
  <2> HIDE DEF path, off
  <2>1. st => v = K(k.files, k.data, k.pipes, k.fakes, "up", 0, k.got)
    BY <1>2, <1>3, WriteForm
  <2>2. ~st /\ off + len > MaxSize =>
            v = K(k.files, k.data, k.pipes, k.fakes, "panic", k.ret, k.got)
    BY <1>2, <1>3, WriteForm
  <2>3. ~st /\ off + len <= MaxSize =>
            v = K(k.files, du, k.pipes, k.fakes, "up", len, k.got)
    BY <1>2, <1>3, WriteForm
  <2> QED BY <2>1, <2>2, <2>3
<1>7. ~(0 > 0) /\ (len = 0 => ~(len > 0)) /\ (len = 0 \/ len > 0) /\ "panic" # "up"
  BY <1>4, SMTT(30)
<1> HIDE DEF w, v, du, off, of, path, st
<1>8. st => w = K(k.files, k.data, k.pipes, k.fakes, "up", 0, k.got)
  <2> SUFFICES ASSUME st PROVE w = v
    BY <1>6
  <2>1. v.ret = 0
    BY <1>6, SMTT(30) DEF K
  <2> QED BY <1>5, <1>7, <2>1
<1>9. ~st /\ off + len > MaxSize =>
        w = K(k.files, k.data, k.pipes, k.fakes, "panic", k.ret, k.got)
  <2> SUFFICES ASSUME ~st, off + len > MaxSize PROVE w = v
    BY <1>6
  <2>1. v.machine = "panic"
    BY <1>6, SMTT(30) DEF K
  <2> QED BY <1>5, <1>7, <2>1
<1>10. ~st /\ off + len <= MaxSize /\ len = 0 =>
        w = K(k.files, du, k.pipes, k.fakes, "up", 0, k.got)
  <2> SUFFICES ASSUME ~st, off + len <= MaxSize, len = 0 PROVE w = v
    BY <1>6
  <2> HIDE DEF len
  <2>1. v.ret = len
    BY <1>6, SMTT(30) DEF K
  <2> QED BY <1>5, <1>7, <2>1
<1>11. ~st /\ off + len <= MaxSize /\ len > 0 =>
        w = K([k.files EXCEPT ![fd] = Moved(of, len)], du, k.pipes, k.fakes, "up", len, k.got)
  <2> SUFFICES ASSUME ~st, off + len <= MaxSize, len > 0
               PROVE  w = K([k.files EXCEPT ![fd] = Moved(of, len)], du,
                            k.pipes, k.fakes, "up", len, k.got)
    OBVIOUS
  <2> HIDE DEF len
  <2>1. /\ IsKernel(v) /\ v.files = k.files /\ v.data = du /\ v.pipes = k.pipes
        /\ v.fakes = k.fakes /\ v.machine = "up" /\ v.ret = len /\ v.got = k.got
    BY <1>6, SMTT(30) DEF K, IsKernel
  <2> DEFINE x == Moved(of, len)
  <2>2. w = SetOpen(v, fd, x)
    BY <1>5, <2>1
  <2> HIDE DEF x
  <2>3. w = K([v.files EXCEPT ![fd] = x], v.data, v.pipes, v.fakes, v.machine, v.ret, v.got)
    BY <2>1, <2>2, KFile
  <2>4. w = K([k.files EXCEPT ![fd] = x], du, k.pipes, k.fakes, "up", len, k.got)
    BY <2>1, <2>3
  <2> QED BY <2>4 DEF x
<1> QED BY <1>1, <1>2, <1>3, <1>8, <1>9, <1>10, <1>11 DEF w, du, off, of, path, st

LEMMA WriteToOK ==
    ASSUME NEW k, KernelOK(k), k.machine = "up", DataOK(data), NEW fd \in Fds,
           NEW chunk \in Seq(Byte), Len(chunk) < Width
    PROVE  KernelOK(WriteTo(k, fd, chunk))
<1> DEFINE w == WriteTo(k, fd, chunk)
<1>0. /\ IsKernel(k) /\ FilesOK(k.files, k.data, k.pipes)
      /\ DataOK(k.data) /\ PipesOK(k.pipes) /\ FakesOK(k.fakes, fakeNext)
      /\ "up" \in {"up", "panic"} /\ "panic" \in {"up", "panic"}
      /\ k.got \in Seq(Byte) /\ Len(k.got) < Width
  BY KernelParts
<1>1. CASE \/ fd \in {1, 2} \/ k.files[fd] = None
           \/ k.files[fd].pipe = None /\ k.files[fd].inode = None
  <2>1. \E n : w = Returns(k, n)
    BY <1>1, WriteElsewhere
  <2> HIDE DEF w
  <2> QED BY <2>1, ReturnsOK DEF w
<1>2. CASE fd \notin {1, 2} /\ k.files[fd] # None /\ k.files[fd].pipe # None
  <2> DEFINE p == k.files[fd].pipe
             q == k.pipes[p]
             n == Accepts(q, chunk)
             t == q \o SubSeq(chunk, 1, n)
             ps == [k.pipes EXCEPT ![p] = t]
  <2>1. /\ t \in Seq(Byte) /\ Len(t) <= PipeSize
        /\ w = K(k.files, k.data, ps, k.fakes, k.machine, n, k.got)
    BY <1>2, WritePipe
  <2> HIDE DEF t, w, n
  <2>2. PipesOK(ps) /\ DOMAIN ps = DOMAIN k.pipes
    BY <1>0, <2>1, SetPipeOK
  <2> HIDE DEF ps
  <2>3. FilesOK(k.files, k.data, ps)
    BY <1>0, <2>2, PipesChange
  <2> QED BY <1>0, <2>1, <2>2, <2>3, KernelOf DEF w
<1>3. CASE fd \notin {1, 2} /\ k.files[fd] # None /\ k.files[fd].pipe = None /\ k.files[fd].inode # None
  <2> DEFINE of   == k.files[fd]
             path == of.inode
             off  == of.offset
             len  == Len(chunk)
             du   == WithData(k, path, Patched(k.data[path].bytes, off, chunk))
             st   == k.data[path].static
             x    == Moved(of, len)
  <2>1. /\ FileOK(of, k.data, k.pipes)
        /\ path \in DOMAIN k.data /\ off \in Nat /\ off < Width
        /\ st => w = K(k.files, k.data, k.pipes, k.fakes, "up", 0, k.got)
        /\ ~st /\ off + len > MaxSize =>
             w = K(k.files, k.data, k.pipes, k.fakes, "panic", k.ret, k.got)
        /\ ~st /\ off + len <= MaxSize /\ len = 0 =>
             w = K(k.files, du, k.pipes, k.fakes, "up", 0, k.got)
        /\ ~st /\ off + len <= MaxSize /\ len > 0 =>
             w = K([k.files EXCEPT ![fd] = x], du, k.pipes, k.fakes, "up", len, k.got)
    BY <1>3, WriteFile
  <2>2. len \in Nat
    BY LenProperties
  <2>3. /\ off + len > MaxSize \/ off + len <= MaxSize
        /\ len = 0 \/ len > 0
        /\ off + len <= MaxSize /\ len > 0 => off + len \in 0..(Width - 1) /\ off + len # 0
    <3>1. off \in Nat /\ off < Width
      BY <2>1
    <3> HIDE DEF off, len
    <3> QED BY <3>1, <2>2, Numbers, SMTT(30)
  <2>4. ~st /\ off + len <= MaxSize => DataOK(du) /\ FilesOK(k.files, du, k.pipes)
    BY <2>1, WriteDataOK
  <2> HIDE DEF w, du, st
  <2>5. CASE st
    <3>1. w = K(k.files, k.data, k.pipes, k.fakes, "up", 0, k.got)
      BY <2>1, <2>5
    <3> QED BY <1>0, <3>1, KernelOf DEF w
  <2>6. CASE ~st /\ off + len > MaxSize
    <3>1. w = K(k.files, k.data, k.pipes, k.fakes, "panic", k.ret, k.got)
      BY <2>1, <2>6
    <3> QED BY <1>0, <3>1, KernelOf DEF w
  <2>7. CASE ~st /\ off + len <= MaxSize /\ len = 0
    <3>1. w = K(k.files, du, k.pipes, k.fakes, "up", 0, k.got)
      BY <2>1, <2>7
    <3>2. DataOK(du) /\ FilesOK(k.files, du, k.pipes)
      BY <2>4, <2>7
    <3> QED BY <1>0, <3>1, <3>2, KernelOf DEF w
  <2>8. CASE ~st /\ off + len <= MaxSize /\ len > 0
    <3>1. FileOK(of, du, k.pipes)
      BY <1>3, <2>4, <2>8, FileAt
    <3>2. FileOK(x, du, k.pipes)
      <4> DEFINE o == off + len
      <4>1. o \in 0..(Width - 1) /\ o # 0
        BY <2>3, <2>8
      <4> HIDE DEF o, of
      <4>2. FileOK(Placed(of, o), du, k.pipes)
        BY <2>4, <2>8, <3>1, <4>1, PlacedOK
      <4> QED BY <4>2 DEF o, Moved
    <3> HIDE DEF x
    <3>3. FilesOK([k.files EXCEPT ![fd] = x], du, k.pipes)
      BY <2>4, <2>8, <3>2, SetFile
    <3>4. w = K([k.files EXCEPT ![fd] = x], du, k.pipes, k.fakes, "up", len, k.got)
      BY <2>1, <2>8
    <3>5. DataOK(du)
      BY <2>4, <2>8
    <3> DEFINE gs == [k.files EXCEPT ![fd] = x]
    <3> HIDE DEF gs, len
    <3>6. w = K(gs, du, k.pipes, k.fakes, "up", len, k.got) /\ FilesOK(gs, du, k.pipes)
      BY <3>3, <3>4 DEF gs
    <3> QED BY <1>0, <3>5, <3>6, KernelOf DEF w
  <2> QED BY <2>3, <2>5, <2>6, <2>7, <2>8
<1> QED BY <1>1, <1>2, <1>3

-----------------------------------------------------------------------------
(* Seeking and listing.                                                    *)

LEMMA TargetRange ==
    ASSUME IInv, NEW fd \in Open, files[fd].inode # None, NEW off \in Int, NEW whence \in 0..2
    PROVE  Target(files[fd], off, whence) \in 0..(Width - 1)
<1> DEFINE of == files[fd]
           base == CASE whence = 0 -> 0 [] whence = 1 -> of.offset
                     [] whence = 2 -> Size(of.inode)
<1>1. FileOK(of, data, pipes) /\ DataOK(data)
  BY DEF IInv, FilesOK, Open
<1>2. of \in OpenFiles /\ of.inode \in DOMAIN data
  BY <1>1 DEF FileOK
<1>3. of.offset \in Int /\ Size(of.inode) \in Int
  <2>1. of.offset \in Nat /\ Len(data[of.inode].bytes) \in Nat
    BY <1>1, <1>2, OpenFields, BytesOf
  <2>2. Size(of.inode) = Len(data[of.inode].bytes)
    BY <1>2 DEF Size
  <2> HIDE DEF of
  <2> QED BY <2>1, <2>2
<1>4. whence = 0 \/ whence = 1 \/ whence = 2
  BY SMTT(30)
<1>5. base \in Int
  <2> HIDE DEF of
  <2>1. CASE whence = 0
    BY <2>1, SMTT(30)
  <2>2. CASE whence = 1
    BY <1>3, <2>2, SMTT(30)
  <2>3. CASE whence = 2
    BY <1>3, <2>3, SMTT(30)
  <2> QED BY <1>4, <2>1, <2>2, <2>3
<1>6. Target(of, off, whence) = (off + base) % Width
  BY DEF Target
<1> HIDE DEF base, of
<1>7. off + base \in Int /\ Width \in Nat /\ Width > 0
  BY <1>5, Numbers, SMTT(30)
<1>8. (off + base) % Width \in 0..(Width - 1)
  BY <1>7, ModFacts
<1> QED BY <1>6, <1>8 DEF of

\* read_dir delivers the entries it moves over.
LEMMA ListOK ==
    ASSUME DataOK(data), NEW of, FileOK(of, data, pipes), NEW fits \in 0..(Width - 1)
    PROVE  FileOK(List(of, fits), data, pipes)
<1> DEFINE dir   == of.inode
           names == EntriesIn(DOMAIN data, dir)
           off   == of.offset
           upto  == Least(Len(names), off + fits)
           more  == {names[n] : n \in (off + 1)..upto}
           x     == [of EXCEPT !.offset = upto, !.since = upto, !.seen = <<>>,
                               !.out = of.out \cup more]
<1>1. of \in OpenFiles
  BY DEF FileOK
<1>2. CASE ~IsDir(dir) \/ upto <= off
  <2>1. List(of, fits) = of
    BY <1>2, EntriesOfData DEF List
  <2> QED BY <2>1
<1>3. CASE IsDir(dir) /\ ~(upto <= off)
  <2>1. List(of, fits) = x
    BY <1>1, <1>3, EntriesOfData DEF List, OpenFiles
  <2>2. dir \in DOMAIN data /\ dir \in Paths
    BY <1>3 DEF IsDir, DataOK
  <2>3. /\ names \in Seq(Segments) /\ Len(names) \in Nat /\ DOMAIN names = 1..Len(names)
        /\ Len(names) = Cardinality(FirstsIn(DOMAIN data, dir)) + 2
    BY <2>2, EntriesFacts, LenProperties
  <2>4. Len(names) < Width
    <3>1. Cardinality(FirstsIn(DOMAIN data, dir)) \in 0..Len(Order)
      BY FirstsFacts
    <3>2. Len(Order) \in Nat /\ Len(Order) + 2 < Width
      BY OrderFacts, FilesAssumption
    <3> HIDE DEF names
    <3> QED BY <2>3, <3>1, <3>2, Numbers, SMTT(30)
  <2>5. off \in Nat /\ off < Width /\ fits \in Nat
    BY <1>1, OpenFields, Numbers, SMTT(30)
  <2>l. NamesTogether => Listed(of, data)
    BY DEF FileOK
  <2> HIDE DEF names
  <2>6. /\ upto \in Nat /\ upto \in 0..(Width - 1) /\ off < upto /\ upto <= Len(names)
        /\ (off + 1)..upto \subseteq 1..Len(names)
    <3> HIDE DEF off, dir
    <3> QED BY <1>3, <2>3, <2>4, <2>5, Numbers, SMTT(30) DEF Least
  <2>7. more \subseteq Segments
    <3>1. \A n \in 1..Len(names) : names[n] \in Segments
      BY <2>3, ElementOfSeq
    <3> HIDE DEF upto, off
    <3> QED BY <2>6, <3>1
  <2>8. <<>> \in Seq(Byte) /\ Len(<<>>) = 0 /\ DOMAIN <<>> = {} /\ upto - upto = 0
    BY <2>6, SMTT(30)
  <2>9. of.out \cup more \subseteq Segments
    BY <1>1, <2>7, OpenFields
  <2> DEFINE out == of.out \cup more
  <2> HIDE DEF upto, more, out
  <2>10. x \in OpenFiles
    <3>1. x = [of EXCEPT !.offset = upto, !.since = upto, !.seen = <<>>, !.out = out]
      BY DEF out
    <3>2. out \in SUBSET Segments
      BY <2>9 DEF out
    <3> HIDE DEF x
    <3> QED BY <1>1, <2>6, <2>8, <3>1, <3>2 DEF OpenFiles
  <2>11. /\ x.inode = of.inode /\ x.pipe = of.pipe /\ x.offset = upto /\ x.since = upto
         /\ x.seen = <<>> /\ x.due = of.due /\ x.out = out
    BY <1>1 DEF OpenFiles, out
  <2> HIDE DEF x
  <2>12. Cursor(x, data)
    BY <2>8, <2>11 DEF Cursor
  <2>13. ASSUME NamesTogether, of.due # {}, data[dir].static, NEW name \in of.due \ out
         PROVE  Ahead(DOMAIN data, dir, name, upto)
    <3>1. name \in of.due \ of.out /\ name \notin more
      BY DEF out
    <3>2. PICK n \in (off + 1)..Len(names) : names[n] = name
      BY <2>l, <2>13, <3>1 DEF Listed, Ahead, names
    <3>3. n \notin (off + 1)..upto
      BY <3>1, <3>2 DEF more
    <3>4. n \in (upto + 1)..Len(names)
      <4> HIDE DEF off
      <4> QED BY <2>3, <2>5, <2>6, <3>3, SMTT(30)
    <3> QED BY <3>2, <3>4 DEF Ahead, names
  <2>14. NamesTogether => Listed(x, data)
    BY <2>l, <2>11, <2>13 DEF Listed
  <2>15. FileOK(x, data, pipes)
    BY <2>10, <2>11, <2>12, <2>14 DEF FileOK
  <2> QED BY <2>1, <2>15
<1> QED BY <1>2, <1>3

-----------------------------------------------------------------------------
(* The state and the kernel value.                                         *)

LEMMA StateKeeps ==
    ASSUME IInv, FilesOK(files', data', pipes'), DataOK(data'), PipesOK(pipes'),
           FakesOK(fakes', fakeNext'), fakeNext' \in Nat, FakeBase <= fakeNext',
           machine' \in {"up", "panic"}
    PROVE  IInv'
BY DEF IInv

LEMMA InvParts ==
    ASSUME IInv
    PROVE  /\ FilesOK(files, data, pipes) /\ DataOK(data) /\ PipesOK(pipes)
           /\ FakesOK(fakes, fakeNext) /\ fakeNext \in Nat /\ FakeBase <= fakeNext
           /\ machine \in {"up", "panic"}
           /\ \A fd \in Open : fd \in Fds /\ FileOK(files[fd], data, pipes)
BY DEF IInv, FilesOK, Open

LEMMA ChunkFacts ==
    ASSUME NEW c \in Chunks
    PROVE  c \in Seq(Byte) /\ Len(c) \in Nat /\ Len(c) < Width
<1>1. c \in Seq(Byte) /\ 2 * Len(c) < Width
  BY FilesAssumption
<1>2. Len(c) \in Nat
  BY <1>1, LenProperties
<1> QED BY <1>1, <1>2, Numbers, SMTT(30)

LEMMA KernelUp ==
    ASSUME machine = "up"
    PROVE  Kernel.machine = "up" /\ Kernel.files = files /\ Kernel.data = data
           /\ Kernel.pipes = pipes /\ Kernel.fakes = fakes
BY DEF Kernel
=============================================================================
