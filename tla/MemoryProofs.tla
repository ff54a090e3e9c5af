---------------------------- MODULE MemoryProofs ----------------------------
(***************************************************************************)
(* The theorems about Memory, for every number of processes, pages and     *)
(* frames and all programs.  First what its calls have in common: how many *)
(* frames they take, that the frames they give out are new, and what they  *)
(* do to the address spaces that frames and tables stand for.  Then each   *)
(* call keeps the invariant and is a step of AddrSpace.                    *)
(***************************************************************************)
EXTENDS Memory, FiniteSetTheorems, TLAPS

\* A leaf that names no prover is tried with Zenon, then with SMT.
USE ZenonT(15), SMTT(60)

-----------------------------------------------------------------------------
(* Counting.                                                               *)

LEMMA PagesFinite ==
    ASSUME NEW ps \in SUBSET VPages
    PROVE  IsFiniteSet(ps) /\ Cardinality(ps) \in Nat
<1>1. IsFiniteSet(VPages)
  BY FS_Interval, MemoryAssumption, SMTT(30) DEF VPages
<1> QED BY <1>1, FS_Subset, FS_CardinalityType

\* Tagging the elements of a set does not change how many there are.
LEMMA PageCount ==
    ASSUME NEW S, IsFiniteSet(S)
    PROVE  /\ IsFiniteSet({<<"page", v>> : v \in S})
           /\ Cardinality({<<"page", v>> : v \in S}) = Cardinality(S)
<1> DEFINE T == {<<"page", v>> : v \in S}
           f == [v \in S |-> <<"page", v>>]
<1>1. f \in Bijection(S, T)
  BY DEF Bijection, Injection, Surjection, IsInjective
<1> QED BY <1>1, FS_Bijection DEF ExistsBijection

LEMMA TableCount ==
    ASSUME NEW S, IsFiniteSet(S)
    PROVE  IsFiniteSet({<<"table", r>> : r \in S})
<1> DEFINE T == {<<"table", r>> : r \in S}
           f == [r \in S |-> <<"table", r>>]
<1>1. f \in Surjection(S, T)
  BY DEF Surjection
<1> QED BY <1>1, FS_Surjection

LEMMA RegionsFinite ==
    ASSUME NEW ps \in SUBSET VPages
    PROVE  IsFiniteSet({Region(v) : v \in ps})
<1> DEFINE T == {Region(v) : v \in ps}
           f == [v \in ps |-> Region(v)]
<1>1. f \in Surjection(ps, T)
  BY DEF Surjection
<1> QED BY <1>1, PagesFinite, FS_Surjection

\* A call asks for at least one frame for each page it maps.
LEMMA NeedFacts ==
    ASSUME NEW tabs, NEW ps \in SUBSET VPages
    PROVE  /\ IsFiniteSet(Need(tabs, ps))
           /\ Cardinality(Need(tabs, ps)) \in Nat
           /\ Cardinality(ps) <= Cardinality(Need(tabs, ps))
<1> DEFINE P == {<<"page", v>> : v \in ps}
           R == {Region(v) : v \in ps} \ tabs
           T == {<<"table", r>> : r \in R}
<1>1. IsFiniteSet(P) /\ Cardinality(P) = Cardinality(ps)
  BY PagesFinite, PageCount
<1>2. IsFiniteSet(R)
  BY RegionsFinite, FS_Subset
<1>3. IsFiniteSet(T)
  BY <1>2, TableCount
<1>4. Need(tabs, ps) = P \cup T
  BY DEF Need
<1> HIDE DEF P, R, T
<1>5. IsFiniteSet(P \cup T)
  BY <1>1, <1>3, FS_Union
<1> QED BY <1>1, <1>4, <1>5, FS_Subset, FS_CardinalityType

\* FramesFrom gives each page a frame of its own, from n on.
LEMMA FramesFromFacts ==
    ASSUME NEW ps \in SUBSET VPages, NEW ord \in [VPages -> Nat],
           \A v, w \in ps : ord[v] = ord[w] => v = w,
           NEW n \in Nat
    PROVE  /\ FramesFrom(n, ps, ord) \in [ps -> Nat]
           /\ \A v \in ps : /\ n <= FramesFrom(n, ps, ord)[v]
                            /\ FramesFrom(n, ps, ord)[v] < n + Cardinality(ps)
           /\ \A v, w \in ps : FramesFrom(n, ps, ord)[v] = FramesFrom(n, ps, ord)[w] => v = w
<1> DEFINE B(v) == {w \in ps : ord[w] < ord[v]}
<1>1. /\ IsFiniteSet(ps) /\ Cardinality(ps) \in Nat
      /\ \A v \in ps : ord[v] \in Nat
  BY PagesFinite
<1>2. \A v \in ps : IsFiniteSet(B(v)) /\ Cardinality(B(v)) \in Nat
  BY PagesFinite
<1>3. \A v \in ps : Cardinality(B(v)) < Cardinality(ps)
  <2> TAKE v \in ps
  <2>1. B(v) \in SUBSET ps /\ v \notin B(v)
    BY <1>1, SMTT(30)
  <2> HIDE DEF B
  <2>2. B(v) # ps
    BY <2>1
  <2>3. /\ Cardinality(B(v)) <= Cardinality(ps)
        /\ Cardinality(ps) = Cardinality(B(v)) => ps = B(v)
    BY <1>1, <2>1, FS_Subset
  <2> QED BY <1>1, <1>2, <2>2, <2>3, SMTT(30)
<1>4. \A v, w \in ps : ord[v] < ord[w] => Cardinality(B(v)) < Cardinality(B(w))
  <2> SUFFICES ASSUME NEW v \in ps, NEW w \in ps, ord[v] < ord[w]
               PROVE  Cardinality(B(v)) < Cardinality(B(w))
    OBVIOUS
  <2>1. B(v) \in SUBSET B(w) /\ v \in B(w) /\ v \notin B(v)
    BY <1>1, SMTT(30)
  <2>2. IsFiniteSet(B(w)) /\ Cardinality(B(w)) \in Nat /\ Cardinality(B(v)) \in Nat
    BY <1>2
  <2> HIDE DEF B
  <2>3. /\ Cardinality(B(v)) <= Cardinality(B(w))
        /\ Cardinality(B(w)) = Cardinality(B(v)) => B(w) = B(v)
    BY <2>1, <2>2, FS_Subset
  <2> QED BY <2>1, <2>2, <2>3, SMTT(30)
<1>5. \A v \in ps : FramesFrom(n, ps, ord)[v] = n + Cardinality(B(v))
  BY DEF FramesFrom
<1>6. FramesFrom(n, ps, ord) = [v \in ps |-> FramesFrom(n, ps, ord)[v]]
  BY DEF FramesFrom
<1> HIDE DEF B
<1>7. \A v \in ps : /\ FramesFrom(n, ps, ord)[v] \in Nat
                    /\ n <= FramesFrom(n, ps, ord)[v]
                    /\ FramesFrom(n, ps, ord)[v] < n + Cardinality(ps)
  BY <1>1, <1>2, <1>3, <1>5, SMTT(30)
<1>8. \A v, w \in ps : FramesFrom(n, ps, ord)[v] = FramesFrom(n, ps, ord)[w] => v = w
  <2> SUFFICES ASSUME NEW v \in ps, NEW w \in ps,
                      FramesFrom(n, ps, ord)[v] = FramesFrom(n, ps, ord)[w], v # w
               PROVE  FALSE
    OBVIOUS
  <2>1. Cardinality(B(v)) = Cardinality(B(w))
    BY <1>2, <1>5, SMTT(30)
  <2>2. ord[v] < ord[w] \/ ord[w] < ord[v]
    BY <1>1
  <2> QED BY <1>2, <1>4, <2>1, <2>2
<1> QED BY <1>6, <1>7, <1>8

LEMMA OrderFacts ==
    /\ Ascending \in [VPages -> Nat]
    /\ \A v, w \in VPages : Ascending[v] = Ascending[w] => v = w
    /\ ExecOrder \in [VPages -> Nat]
    /\ \A v, w \in VPages : ExecOrder[v] = ExecOrder[w] => v = w
<1>1. VPages \subseteq Nat /\ NumPages \in Nat /\ \A v \in VPages : v < NumPages
  BY MemoryAssumption DEF VPages
<1>2. /\ Ascending \in [VPages -> Nat]
      /\ \A v, w \in VPages : Ascending[v] = Ascending[w] => v = w
  BY <1>1 DEF Ascending
<1>3. \A v \in VPages :
        ExecOrder[v] = IF v \in StackPages THEN NumPages - 1 - v ELSE NumPages + v
  BY DEF ExecOrder
<1>4. \A v \in VPages : ExecOrder[v] \in Nat
  BY <1>1, <1>3
<1>5. ExecOrder \in [VPages -> Nat]
  BY <1>4 DEF ExecOrder
<1>6. \A v, w \in VPages : ExecOrder[v] = ExecOrder[w] => v = w
  BY <1>1, <1>3
<1> QED BY <1>2, <1>5, <1>6

-----------------------------------------------------------------------------
(* The inductive invariant.                                                *)

\* A process that is not born has no memory.
UnbornEmpty ==
    \A p \in Pids : p >= nextPid => \A v \in VPages : pt[p][v] = None

AliveBorn == \A p \in alive : p < nextPid

IInv ==
    /\ TypeOK
    /\ FramesExclusive
    /\ UnbornEmpty
    /\ AliveBorn
    /\ MmapRegionFree
    /\ BrkIsBacked

-----------------------------------------------------------------------------
(* What the helpers do.                                                    *)

\* Writing through a mapping changes the frames of the mapping only.
LEMMA FillFacts ==
    ASSUME NEW D, NEW m \in [D -> Frames],
           \A v, w \in D : m[v] = m[w] => v = w,
           NEW old \in [Frames -> Vals],
           NEW val, \A v \in D : val[v] \in Vals
    PROVE  /\ Fill(old, m, val) \in [Frames -> Vals]
           /\ \A v \in D : Fill(old, m, val)[m[v]] = val[v]
           /\ \A f \in Frames : (\A v \in D : m[v] # f) =>
                                    Fill(old, m, val)[f] = old[f]
<1>1. DOMAIN m = D
  OBVIOUS
<1>2. \A f \in Frames :
        Fill(old, m, val)[f] = IF \E v \in D : m[v] = f
                          THEN val[CHOOSE v \in D : m[v] = f] ELSE old[f]
  BY <1>1 DEF Fill
<1>3. Fill(old, m, val) = [f \in Frames |-> Fill(old, m, val)[f]]
  BY DEF Fill
<1>4. ASSUME NEW v \in D
      PROVE  Fill(old, m, val)[m[v]] = val[v]
  <2>1. m[v] \in Frames
    OBVIOUS
  <2>2. (CHOOSE u \in D : m[u] = m[v]) = v
    OBVIOUS
  <2> QED BY <1>2, <2>1, <2>2
<1>5. ASSUME NEW f \in Frames
      PROVE  Fill(old, m, val)[f] \in Vals
  <2>1. CASE \E v \in D : m[v] = f
    BY <2>1, <1>4
  <2>2. CASE ~ \E v \in D : m[v] = f
    BY <2>2, <1>2
  <2> QED BY <2>1, <2>2
<1> QED BY <1>2, <1>3, <1>4, <1>5

\* A call takes k frames and gives those of m to the pages D of p, in place
\* of what p had or besides it.
Grants(p, D, m, k, outcome, old) ==
    /\ D \in SUBSET VPages
    /\ m \in [D -> Nat]
    /\ k \in Nat /\ next + k <= End
    /\ outcome \in {"up", "panic", "hung"}
    /\ \A v \in D : next <= m[v] /\ m[v] < next + k
    /\ \A v, w \in D : m[v] = m[w] => v = w
    /\ \A v \in VPages : old[v] \in {None, pt[p][v]}
    /\ pt' = [pt EXCEPT ![p] = Overlay(m, old)]
    /\ Take(k, m, outcome)

\* Such a call leaves all frames exclusive.
LEMMA Grant ==
    ASSUME TypeOK, FramesExclusive,
           NEW p \in Pids, NEW D, NEW m, NEW k, NEW outcome, NEW old,
           Grants(p, D, m, k, outcome, old)
    PROVE  /\ next' \in 1..End /\ next' = next + k
           /\ kframes' \subseteq 1..(next' - 1)
           /\ machine' \in {"up", "panic", "hung", "corrupt"}
           /\ pt' \in [Pids -> [VPages -> Frames \cup {None}]]
           /\ m \in [D -> Frames]
           /\ \A q \in Pids \ {p} : pt'[q] = pt[q]
           /\ \A v \in VPages : pt'[p][v] = IF v \in D THEN m[v] ELSE old[v]
           /\ FramesExclusive'
<1> USE DEF Grants
<1>1. /\ next \in Int /\ 1 <= next /\ next <= End /\ End \in Nat
      /\ pt \in [Pids -> [VPages -> Frames \cup {None}]]
      /\ kframes \subseteq 1..(next - 1)
  BY MemoryAssumption, SMTT(30) DEF TypeOK
<1>2. DOMAIN m = D
  OBVIOUS
<1>3. next' \in 1..End /\ next' = next + k
  BY <1>1, SMTT(30) DEF Take
<1>4. machine' \in {"up", "panic", "hung", "corrupt"}
  BY DEF Take
<1>5. kframes' = kframes \cup {f \in next..(next + k - 1) : \A v \in D : m[v] # f}
  BY <1>2 DEF Take
<1>51. kframes' \subseteq 1..(next' - 1)
  <2>1. kframes' \subseteq kframes \cup (next..(next + k - 1))
    BY <1>5
  <2> QED BY <2>1, <1>1, <1>3, SMTT(30)
<1>6. m \in [D -> Frames]
  <2>1. \A v \in D : m[v] \in Frames
    BY <1>1, SMTT(30) DEF Frames
  <2> QED BY <2>1
<1>7. \A v \in VPages : Overlay(m, old)[v] = IF v \in D THEN m[v] ELSE old[v]
  BY <1>2 DEF Overlay
<1>8. Overlay(m, old) = [v \in VPages |-> Overlay(m, old)[v]]
  BY DEF Overlay
<1>9. Overlay(m, old) \in [VPages -> Frames \cup {None}]
  BY <1>1, <1>6, <1>7, <1>8, SMTT(30)
<1>10. /\ pt' \in [Pids -> [VPages -> Frames \cup {None}]]
       /\ pt'[p] = Overlay(m, old)
       /\ \A q \in Pids \ {p} : pt'[q] = pt[q]
  BY <1>1, <1>9
<1>11. \A v \in VPages : pt'[p][v] = IF v \in D THEN m[v] ELSE old[v]
  BY <1>7, <1>10
\* A page has a frame of m or one it had before.
<1>12. \A q \in Pids, v \in VPages : pt'[q][v] # None =>
         \/ q = p /\ v \in D /\ pt'[q][v] = m[v]
         \/ ~(q = p /\ v \in D) /\ pt'[q][v] = pt[q][v] /\ v \in Mapped(q)
  BY <1>10, <1>11 DEF Mapped
<1>13. \A q \in Pids : \A v \in Mapped(q) :
         pt[q][v] \in Int /\ pt[q][v] < next /\ pt[q][v] \notin kframes
  BY <1>1, SMTT(30) DEF FramesExclusive, Mapped, Frames
<1>14. \A v \in D : m[v] \in Int /\ m[v] < next' /\ m[v] \notin kframes'
  BY <1>1, <1>3, <1>5, SMTT(30)
<1>15. \A q \in Pids, v \in VPages : pt'[q][v] # None =>
          pt'[q][v] < next' /\ pt'[q][v] \notin kframes'
  BY <1>1, <1>3, <1>5, <1>12, <1>13, <1>14, SMTT(30)
<1>16. ASSUME NEW q \in Pids, NEW o \in Pids, NEW v \in VPages, NEW w \in VPages,
              pt'[q][v] # None, pt'[q][v] = pt'[o][w]
       PROVE  q = o /\ v = w
  <2>1. CASE q = p /\ v \in D
    BY <2>1, <1>1, <1>12, <1>13, <1>14, <1>16, SMTT(30)
  <2>2. CASE o = p /\ w \in D
    BY <2>2, <1>1, <1>12, <1>13, <1>14, <1>16, SMTT(30)
  <2>3. CASE ~(q = p /\ v \in D) /\ ~(o = p /\ w \in D)
    BY <2>3, <1>12, <1>16, SMTT(30) DEF FramesExclusive
  <2> QED BY <2>1, <2>2, <2>3
<1>17. FramesExclusive'
  BY <1>15, <1>16, SMTT(30) DEF FramesExclusive, Mapped
<1> QED BY <1>3, <1>4, <1>51, <1>6, <1>10, <1>11, <1>17

\* A call that only loses frames.
LEMMA Lose ==
    ASSUME TypeOK, FramesExclusive,
           NEW k \in Nat, next + k <= End, NEW outcome,
           outcome \in {"up", "panic", "hung"},
           Take(k, NoPages, outcome), UNCHANGED pt
    PROVE  /\ next' \in 1..End /\ next' = next + k
           /\ kframes' \subseteq 1..(next' - 1)
           /\ machine' \in {"up", "panic", "hung", "corrupt"}
           /\ FramesExclusive'
<1>1. /\ next \in Int /\ 1 <= next /\ next <= End /\ End \in Nat
      /\ pt \in [Pids -> [VPages -> Frames \cup {None}]]
      /\ kframes \subseteq 1..(next - 1)
  BY MemoryAssumption, SMTT(30) DEF TypeOK
<1>2. next' \in 1..End /\ next' = next + k
  BY <1>1 DEF Take
<1>3. machine' \in {"up", "panic", "hung", "corrupt"}
  BY DEF Take
<1>4. kframes' \subseteq kframes \cup (next..(next + k - 1))
  BY DEF Take
<1>41. kframes' \subseteq 1..(next' - 1)
  BY <1>1, <1>2, <1>4, SMTT(30)
<1>5. \A q \in Pids : \A v \in Mapped(q) :
         pt[q][v] \in Int /\ pt[q][v] < next /\ pt[q][v] \notin kframes
  BY <1>1, SMTT(30) DEF FramesExclusive, Mapped, Frames
<1>6. \A q \in Pids : \A v \in Mapped(q) :
         pt[q][v] < next' /\ pt[q][v] \notin kframes'
  BY <1>1, <1>2, <1>4, <1>5, SMTT(30)
<1>7. FramesExclusive'
  BY <1>6, SMTT(30) DEF FramesExclusive, Mapped
<1> QED BY <1>2, <1>3, <1>41, <1>7

\* A call writes val to the pages D of p, which have the frames m.
Writes(p, D, m, val) ==
    /\ D \in SUBSET VPages
    /\ m \in [D -> Frames]
    /\ \A v \in D : m[v] = pt'[p][v] /\ val[v] \in Vals
    /\ content' = Fill(content, m, val)

\* After that each process reads what it read before, but for those pages.
LEMMA ViewAfterFill ==
    ASSUME content \in [Frames -> Vals],
           pt' \in [Pids -> [VPages -> Frames \cup {None}]],
           FramesExclusive',
           NEW p \in Pids, NEW D, NEW m, NEW val,
           Writes(p, D, m, val)
    PROVE  /\ content' \in [Frames -> Vals]
           /\ \A q \in Pids, v \in VPages :
                 View(q)'[v] = IF pt'[q][v] = None THEN -1
                               ELSE IF q = p /\ v \in D THEN val[v]
                               ELSE content[pt'[q][v]]
<1> USE DEF Writes
<1>1. \A v \in D : m[v] # None /\ v \in VPages
  BY DEF Frames, None
<1>2. \A v, w \in D : m[v] = m[w] => v = w
  BY <1>1, SMTT(30) DEF FramesExclusive, Mapped
<1>3. /\ content' \in [Frames -> Vals]
      /\ \A v \in D : content'[m[v]] = val[v]
      /\ \A f \in Frames : (\A v \in D : m[v] # f) => content'[f] = content[f]
  BY <1>2, FillFacts, SMTT(30)
<1>4. \A q \in Pids, v \in VPages : pt'[q][v] # None /\ ~(q = p /\ v \in D) =>
         pt'[q][v] \in Frames /\ \A w \in D : m[w] # pt'[q][v]
  BY <1>1, SMTT(30) DEF FramesExclusive, Mapped
<1>5. \A q \in Pids, v \in VPages :
         View(q)'[v] = IF pt'[q][v] = None THEN -1 ELSE content'[pt'[q][v]]
  BY DEF View
<1> QED BY <1>3, <1>4, <1>5, SMTT(30)

-----------------------------------------------------------------------------
(* The loops of brk and mmap.                                              *)

LEMMA FreshFacts ==
    ASSUME NEW ps \in SUBSET VPages, next \in Nat, NEW ord,
           ord = Ascending \/ ord = ExecOrder
    PROVE  /\ Fresh(ps, ord) \in [ps -> Nat]
           /\ \A v \in ps : /\ next <= Fresh(ps, ord)[v]
                            /\ Fresh(ps, ord)[v] < next + Cardinality(ps)
           /\ \A v, w \in ps : Fresh(ps, ord)[v] = Fresh(ps, ord)[w] => v = w
<1>1. /\ ord \in [VPages -> Nat]
      /\ \A v, w \in ps : ord[v] = ord[w] => v = w
  BY OrderFacts
<1> QED BY <1>1, FramesFromFacts DEF Fresh

\* Whatever frames are left, the pages that get one get one that is left, and
\* only a call that leaves none passes a page over.
LEMMA GotFacts ==
    ASSUME TypeOK, NEW p \in Pids, NEW ps \in SUBSET VPages,
           NEW outcome, outcome \in {"up", "panic", "hung"},
           TakeFor(p, ps, Fresh(Got(p, ps), Ascending), outcome)
    PROVE  /\ Got(p, ps) \in SUBSET ps
           /\ Fresh(Got(p, ps), Ascending) \in [Got(p, ps) -> Nat]
           /\ \A v, w \in Got(p, ps) :
                 Fresh(Got(p, ps), Ascending)[v] = Fresh(Got(p, ps), Ascending)[w]
                    => v = w
           /\ \E k \in Nat : \E o \in {outcome, "panic"} :
                 /\ next + k <= End
                 /\ Take(k, Fresh(Got(p, ps), Ascending), o)
                 /\ \A v \in Got(p, ps) :
                       /\ next <= Fresh(Got(p, ps), Ascending)[v]
                       /\ Fresh(Got(p, ps), Ascending)[v] < next + k
                 /\ next + k < End => Got(p, ps) = ps
<1> DEFINE need == Need(tables[p], ps)
           got == Got(p, ps)
           m == Fresh(got, Ascending)
           n == Cardinality(need)
           left == End - next
<1>1. next \in Nat /\ End \in Nat /\ next <= End /\ left \in Nat
  BY MemoryAssumption, SMTT(30) DEF TypeOK
<1>2. /\ IsFiniteSet(need) /\ n \in Nat /\ Cardinality(ps) \in Nat
      /\ Cardinality(ps) <= n
  BY NeedFacts, PagesFinite
<1>3. got = IF n <= left THEN ps
            ELSE {v \in ps : Rank(need, ps, Ascending, <<"page", v>>) < left}
  BY DEF Got
<1>4. got \in SUBSET ps /\ got \in SUBSET VPages
  BY <1>3
<1>5. TakeFor(p, ps, m, outcome)
  OBVIOUS
<1>6. IF n <= left THEN Take(n, m, outcome)
      ELSE Take(left, m, IF Shortfall(left, 0, need, ps, Ascending) = "panic"
                         THEN "panic" ELSE outcome)
  BY <1>5 DEF TakeFor
<1>7. /\ m \in [got -> Nat]
      /\ \A v \in got : next <= m[v] /\ m[v] < next + Cardinality(got)
      /\ \A v, w \in got : m[v] = m[w] => v = w
  BY <1>1, <1>4, FreshFacts
<1>8. CASE n <= left
  <2>1. got = ps /\ Take(n, m, outcome)
    BY <1>3, <1>6, <1>8
  <2>2. \A v \in got : next <= m[v] /\ m[v] < next + n
    BY <1>1, <1>2, <1>7, <2>1, SMTT(30)
  <2>3. next + n <= End
    BY <1>1, <1>2, <1>8
  <2> HIDE DEF need, got, m, n, left
  <2>4. \E k \in Nat : \E o \in {outcome, "panic"} :
          /\ next + k <= End
          /\ Take(k, m, o)
          /\ \A v \in got : next <= m[v] /\ m[v] < next + k
          /\ next + k < End => got = ps
    BY <1>2, <2>1, <2>2, <2>3
  <2> QED BY <1>4, <1>7, <2>4 DEF m, got
<1>9. CASE ~(n <= left)
  <2>1. got = {v \in ps : Rank(need, ps, Ascending, <<"page", v>>) < left}
    BY <1>3, <1>9
  <2>2. PICK o \in {outcome, "panic"} : Take(left, m, o)
    BY <1>6, <1>9
  <2>3. ASSUME NEW v \in got
        PROVE  m[v] < next + left
    <3> DEFINE B == {w \in got : Ascending[w] < Ascending[v]}
               T == {<<"page", w>> : w \in B}
               E == {e \in need : Asks(ps, Ascending, e)
                                    < Asks(ps, Ascending, <<"page", v>>)}
    <3>1. B \in SUBSET VPages /\ v \in VPages
      BY <1>4
    <3>2. IsFiniteSet(B) /\ Cardinality(T) = Cardinality(B) /\ Cardinality(B) \in Nat
      BY <3>1, PagesFinite, PageCount
    <3>3. \A w \in VPages : /\ Ascending[w] \in Nat
                            /\ Asks(ps, Ascending, <<"page", w>>) = 2 * Ascending[w]
      BY OrderFacts DEF Asks
    <3>4. T \in SUBSET E
      <4> SUFFICES ASSUME NEW w \in B PROVE <<"page", w>> \in E
        OBVIOUS
      <4>1. <<"page", w>> \in need
        BY <1>4 DEF Need
      <4>2. Asks(ps, Ascending, <<"page", w>>) < Asks(ps, Ascending, <<"page", v>>)
        BY <3>1, <3>3
      <4> QED BY <4>1, <4>2
    <3>5. IsFiniteSet(E) /\ Cardinality(E) \in Nat
      BY <1>2, FS_Subset, FS_CardinalityType
    <3>6. Cardinality(E) < left
      BY <2>1 DEF Rank
    <3>7. m[v] = next + Cardinality(B)
      BY DEF Fresh, FramesFrom
    <3> HIDE DEF B, T, E, m, left
    <3>8. Cardinality(T) <= Cardinality(E)
      BY <3>4, <3>5, FS_Subset
    <3> QED BY <1>1, <3>2, <3>5, <3>6, <3>7, <3>8
  <2>4. next + left = End
    BY <1>1
  <2> HIDE DEF need, got, m, n, left
  <2>5. \E k \in Nat : \E q \in {outcome, "panic"} :
          /\ next + k <= End
          /\ Take(k, m, q)
          /\ \A v \in got : next <= m[v] /\ m[v] < next + k
          /\ next + k < End => got = ps
    <3>1. next + left <= End /\ ~(next + left < End)
      BY <1>1, <2>4
    <3> QED BY <1>1, <1>7, <2>2, <2>3, <3>1
  <2> QED BY <1>4, <1>7, <2>5 DEF m, got
<1> QED BY <1>8, <1>9

-----------------------------------------------------------------------------
(* Rounding up to pages.                                                   *)

LEMMA PageUpBound ==
    ASSUME NEW a \in 0..(MmapBase * PageSize)
    PROVE  PageUp(a) \in 0..MmapBase
<1> DEFINE q == PageUp(a)
           S == PageSize
           M == MmapBase
<1>0. S \in Nat \ {0} /\ M \in Nat
  BY MemoryAssumption, SMTT(30) DEF VPages
<1>1. M * S \in Int /\ a \in Int /\ 0 <= a /\ a <= M * S
  BY <1>0
<1>2. q \in Int /\ S * q <= a + S - 1 /\ S * q + S > a + S - 1
  BY <1>0, <1>1, SMTT(30) DEF PageUp
<1> HIDE DEF q, S, M
<1>3. S * q < S * (M + 1)
  BY <1>0, <1>1, <1>2, SMTT(30)
<1>4. q < M + 1
  BY <1>0, <1>2, <1>3, SMTT(30)
<1>5. S * q > -S
  BY <1>0, <1>1, <1>2, SMTT(30)
<1>6. q > -1
  BY <1>0, <1>2, <1>5, SMTT(30)
<1> QED BY <1>0, <1>2, <1>4, <1>6 DEF q, M

LEMMA PageUpWhole ==
    ASSUME NEW e \in Nat
    PROVE  PageUp(e * PageSize) = e
<1> DEFINE q == PageUp(e * PageSize)
           S == PageSize
<1>0. S \in Nat \ {0} /\ e * S \in Int
  BY MemoryAssumption
<1>1. q \in Int /\ S * q <= e * S + S - 1 /\ S * q + S > e * S + S - 1
  BY <1>0, SMTT(30) DEF PageUp
<1> HIDE DEF q, S
<1>2. S * (q - e) < S /\ S * (q - e) > -S
  BY <1>0, <1>1, SMTT(30)
<1>3. q - e < 1 /\ q - e > -1
  BY <1>0, <1>1, <1>2, SMTT(30)
<1> QED BY <1>1, <1>3 DEF q

LEMMA WholePages ==
    ASSUME NEW e \in 0..MmapBase
    PROVE  e * PageSize \in 0..(MmapBase * PageSize)
<1>1. PageSize \in Nat /\ MmapBase \in Nat
  BY MemoryAssumption, SMTT(30) DEF VPages
<1>2. e * PageSize \in Nat /\ MmapBase * PageSize \in Nat
  BY <1>1, SMTT(30)
<1>3. (MmapBase - e) * PageSize >= 0
  BY <1>1, SMTT(30)
<1>4. (MmapBase - e) * PageSize = MmapBase * PageSize - e * PageSize
  BY <1>1, SMTT(30)
<1> QED BY <1>2, <1>3, <1>4

-----------------------------------------------------------------------------
(* The address spaces that frames and tables stand for.                    *)

Mem == [p \in Pids |-> View(p)]

\* One step of the address spaces, or none.
SpaceStep == Space!Next \/ UNCHANGED Mem

LEMMA MemFacts ==
    /\ \A p \in Pids : Mem[p] = View(p) /\ Mem'[p] = View(p)'
    /\ Mem = [p \in Pids |-> Mem[p]]
    /\ Mem' = [p \in Pids |-> Mem'[p]]
    /\ \A p \in Pids : /\ View(p) = [v \in VPages |-> View(p)[v]]
                       /\ View(p)' = [v \in VPages |-> View(p)'[v]]
    /\ \A p \in Pids, v \in VPages :
          View(p)[v] = IF pt[p][v] = None THEN -1 ELSE content[pt[p][v]]
  BY DEF Mem, View

\* A step that changes nobody's pages.
LEMMA SameViews ==
    ASSUME \A q \in Pids, v \in VPages : View(q)'[v] = View(q)[v]
    PROVE  SpaceStep
<1>1. \A q \in Pids : View(q)' = View(q)
  BY MemFacts, SMTT(30)
<1>2. Mem' = Mem
  BY <1>1, MemFacts, SMTT(30)
<1> QED BY <1>2 DEF SpaceStep

\* The parts of the invariant a failed call can disturb.
LEMMA LoseKeepsIInv ==
    ASSUME IInv, machine = "up", NEW k \in Nat, next + k <= End, NEW outcome,
           outcome \in {"up", "panic", "hung"}, Take(k, NoPages, outcome),
           heap' \in 0..HeapSize,
           UNCHANGED <<content, alive, nextPid, spaceVars, mmapBase>>
    PROVE  IInv' /\ SpaceStep
<1>1. /\ TypeOK /\ FramesExclusive /\ UnbornEmpty /\ AliveBorn
      /\ MmapRegionFree /\ BrkIsBacked
  BY DEF IInv
<1>2. /\ next' \in 1..End /\ next' = next + k
      /\ kframes' \subseteq 1..(next' - 1)
      /\ machine' \in {"up", "panic", "hung", "corrupt"}
      /\ FramesExclusive'
  BY <1>1, Lose DEF spaceVars
<1>3. TypeOK'
  BY <1>1, <1>2 DEF TypeOK, spaceVars
<1>4. UnbornEmpty' /\ AliveBorn' /\ MmapRegionFree'
  BY <1>1 DEF UnbornEmpty, AliveBorn, MmapRegionFree, spaceVars
<1>5. BrkIsBacked'
  <2>1. next \in Int /\ (next' < End => next < End)
    BY <1>1, <1>2, MemoryAssumption, SMTT(30) DEF TypeOK
  <2> QED BY <1>1, <2>1 DEF BrkIsBacked, spaceVars, PageUp
<1>6. SpaceStep
  BY SameViews DEF View, spaceVars
<1> QED BY <1>2, <1>3, <1>4, <1>5, <1>6 DEF IInv

\* Pages added where there were none, and zeroed, are what AddrSpace lets a
\* call add.
LEMMA GrowStep ==
    ASSUME TypeOK, FramesExclusive,
           NEW p \in Pids, NEW D, NEW m, NEW k, NEW outcome,
           Grants(p, D, m, k, outcome, pt[p]),
           \A v \in D : pt[p][v] = None,
           content' = Fill(content, m, [v \in D |-> 0])
    PROVE  content' \in [Frames -> Vals] /\ SpaceStep
<1> DEFINE zero == [v \in D |-> 0]
<1>1. D \in SUBSET VPages
  BY DEF Grants
<1>2. /\ pt' \in [Pids -> [VPages -> Frames \cup {None}]]
      /\ m \in [D -> Frames]
      /\ \A q \in Pids \ {p} : pt'[q] = pt[q]
      /\ \A v \in VPages : pt'[p][v] = IF v \in D THEN m[v] ELSE pt[p][v]
      /\ FramesExclusive'
  BY Grant, SMTT(30)
<1>3. \A v \in D : zero[v] = 0 /\ zero[v] \in Vals
  BY MemoryAssumption
<1>4. Writes(p, D, m, zero)
  BY <1>1, <1>2, <1>3 DEF Writes
<1> HIDE DEF zero
<1>5. /\ content' \in [Frames -> Vals]
      /\ \A q \in Pids, v \in VPages :
            View(q)'[v] = IF pt'[q][v] = None THEN -1
                          ELSE IF q = p /\ v \in D THEN zero[v]
                          ELSE content[pt'[q][v]]
  <2>1. content \in [Frames -> Vals]
    BY DEF TypeOK
  <2> QED BY <1>2, <1>4, <2>1, ViewAfterFill, SMTT(30)
<1>6. \A q \in Pids \ {p} : View(q)' = View(q)
  BY <1>2, <1>5, MemFacts, SMTT(30)
<1>7. \A v \in VPages : \/ View(p)'[v] = View(p)[v]
                        \/ View(p)[v] = -1 /\ View(p)'[v] = 0
  <2> SUFFICES ASSUME NEW v \in VPages
               PROVE  \/ View(p)'[v] = View(p)[v]
                      \/ View(p)[v] = -1 /\ View(p)'[v] = 0
    OBVIOUS
  <2>1. CASE v \in D
    <3>1. pt'[p][v] # None
      BY <1>2, <2>1, SMTT(30) DEF Frames, None
    <3> QED BY <1>3, <1>5, <2>1, <3>1, MemFacts
  <2>2. CASE v \notin D
    <3>1. pt'[p][v] = pt[p][v]
      BY <1>2, <2>2
    <3>2. View(p)'[v] = IF pt'[p][v] = None THEN -1 ELSE content[pt'[p][v]]
      BY <1>5, <2>2
    <3>3. View(p)[v] = IF pt[p][v] = None THEN -1 ELSE content[pt[p][v]]
      BY MemFacts
    <3> QED BY <3>1, <3>2, <3>3
  <2> QED BY <2>1, <2>2
<1>8. Mem' = [Mem EXCEPT ![p] = [v \in VPages |-> Mem'[p][v]]]
  BY <1>6, MemFacts, SMTT(30)
<1>9. Space!Grow(p)
  <2>1. \A v \in VPages : \/ Mem'[p][v] = Mem[p][v]
                          \/ Mem[p][v] = -1 /\ Mem'[p][v] = 0
    BY <1>7, MemFacts
  <2> QED BY <1>8, <2>1 DEF Space!Grow, Space!Unmapped, Space!VPages, VPages, Mem
<1>10. Space!Next
  BY <1>9 DEF Space!Next
<1> QED BY <1>5, <1>10 DEF SpaceStep

\* The loop of brk and mmap over pages of p that are not mapped.
LEMMA LoopGrants ==
    ASSUME TypeOK, NEW p \in Pids, NEW ps \in SUBSET VPages,
           NEW outcome \in {"up", "panic", "hung"},
           TakeFor(p, ps, Fresh(Got(p, ps), Ascending), outcome),
           pt' = [pt EXCEPT ![p] = Overlay(Fresh(Got(p, ps), Ascending), pt[p])]
    PROVE  /\ Got(p, ps) \in SUBSET ps
           /\ \E k \in Nat : \E o \in {"up", "panic", "hung"} :
                 /\ Grants(p, Got(p, ps), Fresh(Got(p, ps), Ascending), k, o, pt[p])
                 /\ next + k < End => Got(p, ps) = ps
<1> DEFINE got == Got(p, ps)
           m == Fresh(got, Ascending)
<1>1. /\ got \in SUBSET ps
      /\ m \in [got -> Nat]
      /\ \A v, w \in got : m[v] = m[w] => v = w
  BY GotFacts, SMTT(30)
<1>2. PICK k \in Nat : \E o \in {outcome, "panic"} :
         /\ next + k <= End
         /\ Take(k, m, o)
         /\ \A v \in got : next <= m[v] /\ m[v] < next + k
         /\ next + k < End => got = ps
  BY GotFacts, SMTT(30)
<1>3. PICK o \in {outcome, "panic"} :
         /\ next + k <= End
         /\ Take(k, m, o)
         /\ \A v \in got : next <= m[v] /\ m[v] < next + k
         /\ next + k < End => got = ps
  BY <1>2
<1>4. o \in {"up", "panic", "hung"}
  OBVIOUS
<1>5. pt' = [pt EXCEPT ![p] = Overlay(m, pt[p])]
  OBVIOUS
<1> HIDE DEF got, m
<1>6. Grants(p, got, m, k, o, pt[p])
  BY <1>1, <1>3, <1>4, <1>5 DEF Grants
<1>7. \E j \in Nat : \E r \in {"up", "panic", "hung"} :
         /\ Grants(p, got, m, j, r, pt[p])
         /\ next + j < End => got = ps
  BY <1>3, <1>4, <1>6
<1> QED BY <1>1, <1>7 DEF got, m

-----------------------------------------------------------------------------
(* The calls: each keeps the invariant and is a step of AddrSpace.         *)

LEMMA StoreKeepsIInv ==
    ASSUME IInv, NEW p \in Pids, NEW u \in VPages, NEW x \in Vals, Store(p, u, x)
    PROVE  IInv' /\ SpaceStep
<1>1. /\ TypeOK /\ FramesExclusive /\ UnbornEmpty /\ AliveBorn
      /\ MmapRegionFree /\ BrkIsBacked
  BY DEF IInv
<1>2. /\ u \in Mapped(p) /\ content' = [content EXCEPT ![pt[p][u]] = x]
      /\ UNCHANGED <<next, kframes, heap, alive, nextPid, spaceVars, mmapBase, machine>>
  BY DEF Store
<1>3. content' \in [Frames -> Vals]
  BY <1>1, <1>2, ZenonT(30) DEF TypeOK
<1>4. TypeOK'
  BY <1>1, <1>2, <1>3 DEF TypeOK, spaceVars
<1>5. FramesExclusive' /\ UnbornEmpty' /\ AliveBorn' /\ MmapRegionFree' /\ BrkIsBacked'
  BY <1>1, <1>2, SMTT(30) DEF FramesExclusive, Mapped, UnbornEmpty, AliveBorn,
                    MmapRegionFree, BrkIsBacked, spaceVars, PageUp
<1>6. \A q \in Pids, v \in VPages :
        /\ pt'[q][v] = pt[q][v]
        /\ pt[q][v] # None => /\ pt[q][v] \in Frames
                              /\ pt[q][v] = pt[p][u] => q = p /\ v = u
  BY <1>1, <1>2, SMTT(30) DEF TypeOK, FramesExclusive, Mapped, spaceVars
<1>7. \A q \in Pids, v \in VPages :
        View(q)'[v] = IF q = p /\ v = u THEN x ELSE View(q)[v]
  BY <1>1, <1>2, <1>6, SMTT(30) DEF View, TypeOK, Mapped
<1>8. Mem' = [Mem EXCEPT ![p] = [Mem[p] EXCEPT ![u] = x]]
  <2>1. View(p)' = [View(p) EXCEPT ![u] = x]
    BY <1>7, MemFacts
  <2>2. \A q \in Pids \ {p} : View(q)' = View(q)
    BY <1>7, MemFacts, SMTT(30)
  <2> QED BY <2>1, <2>2, MemFacts, SMTT(30)
<1>9. Mem[p][u] # -1
  <2>1. content[pt[p][u]] \in Nat /\ pt[p][u] # None
    <3>1. pt[p][u] # None /\ pt[p][u] \in Frames
      BY <1>2, <1>6 DEF Mapped
    <3>2. content[pt[p][u]] \in Vals
      BY <1>1, <3>1 DEF TypeOK
    <3> QED BY <3>1, <3>2, MemoryAssumption
  <2> QED BY <2>1, MemFacts, SMTT(30)
<1>10. Space!Store(p, u, x)
  BY <1>8, <1>9 DEF Space!Store, Space!Unmapped, Mem
<1>11. SpaceStep
  BY <1>10 DEF SpaceStep, Space!Next, Space!VPages, VPages
<1> QED BY <1>4, <1>5, <1>11 DEF IInv

LEMMA ExecKeepsIInv ==
    ASSUME IInv, NEW p \in Pids, NEW prog \in Programs, NEW args \in Args,
           Exec(p, prog, args)
    PROVE  IInv' /\ SpaceStep
<1> DEFINE left == End - next
           stack == Need({}, StackPages)
           ps == ImagePages(prog)
           need == Need({}, ps)
           costS == BaseFrames + Cardinality(stack)
           cost == BaseFrames + Cardinality(need)
           m == Fresh(ps, ExecOrder)
           none == [v \in VPages |-> None]
           img == Image(prog, args)
<1>1. /\ TypeOK /\ FramesExclusive /\ UnbornEmpty /\ AliveBorn
      /\ MmapRegionFree /\ BrkIsBacked
  BY DEF IInv
<1>2. /\ machine = "up" /\ p \in alive /\ UNCHANGED <<alive, nextPid, mmapBase>>
  BY DEF Exec, Runs
<1>3. /\ next \in Nat /\ 1 <= next /\ next <= End /\ End \in Nat /\ left \in Nat
      /\ next + left = End /\ heap \in 0..HeapSize /\ BaseFrames \in Nat
  BY <1>1, MemoryAssumption, SMTT(30) DEF TypeOK
<1>4. /\ prog.text \subseteq 0..(MmapBase - 1) /\ prog.data \subseteq 0..(MmapBase - 1)
      /\ prog.end \in 1..MmapBase /\ prog.holds \in Vals /\ prog.size \in Nat
  BY ProgramAssumption
<1>5. 0..(MmapBase - 1) \subseteq VPages /\ StackPages \in SUBSET VPages
  BY MemoryAssumption DEF VPages
<1>6. ps \in SUBSET VPages
  BY <1>4, <1>5 DEF ImagePages
<1>7. /\ Cardinality(stack) \in Nat /\ costS \in Nat
      /\ Cardinality(need) \in Nat /\ cost \in Nat
      /\ Cardinality(ps) \in Nat /\ Cardinality(ps) <= cost
  <2>1. /\ Cardinality(stack) \in Nat /\ Cardinality(need) \in Nat
        /\ Cardinality(ps) <= Cardinality(need) /\ Cardinality(ps) \in Nat
    BY <1>5, <1>6, NeedFacts, PagesFinite
  <2> QED BY <2>1, <1>3
\* The failures.
<1>8. \A q, s, o : Shortfall(left, BaseFrames, q, s, o) \in {"up", "panic", "hung"}
  BY DEF Shortfall
<1>9. ASSUME NEW k \in Nat, next + k <= End, NEW o \in {"up", "panic", "hung"},
             Take(k, NoPages, o), heap' \in 0..HeapSize,
             UNCHANGED <<content, spaceVars>>
      PROVE  IInv' /\ SpaceStep
  BY <1>2, <1>9, LoseKeepsIInv
<1>10. CASE /\ left < costS
            /\ Take(left, NoPages, Shortfall(left, BaseFrames, stack, StackPages, ExecOrder))
            /\ UNCHANGED <<heap, content, spaceVars>>
  BY <1>3, <1>8, <1>9, <1>10
<1>11. CASE /\ left >= costS
            /\ Take(costS, NoPages, "up")
            /\ UNCHANGED <<heap, content, spaceVars>>
  BY <1>3, <1>7, <1>9, <1>11
<1>12. CASE /\ left >= costS
            /\ heap + prog.size <= HeapSize /\ heap' = heap + prog.size
            /\ Take(costS, NoPages, "up")
            /\ UNCHANGED <<content, spaceVars>>
  <2>1. heap' \in 0..HeapSize
    BY <1>3, <1>4, <1>12, MemoryAssumption
  <2> QED BY <1>3, <1>7, <1>9, <1>12, <2>1
<1>13. CASE /\ left < cost
            /\ heap + prog.size <= HeapSize /\ heap' = heap + prog.size
            /\ Take(left, NoPages, Shortfall(left, BaseFrames, need, ps, ExecOrder))
            /\ UNCHANGED <<content, spaceVars>>
  <2>1. heap' \in 0..HeapSize
    BY <1>3, <1>4, <1>13, MemoryAssumption
  <2> QED BY <1>3, <1>8, <1>9, <1>13, <2>1
\* Success.
<1>14. CASE /\ prog.elf /\ left >= cost
            /\ heap + prog.size <= HeapSize /\ heap' = heap + prog.size
            /\ Take(cost, m, "up")
            /\ Install(p, prog, args)
  <2>1. heap' \in 0..HeapSize
    BY <1>3, <1>4, <1>14, MemoryAssumption
  <2>2. /\ content' = Fill(content, m, img)
        /\ pt' = [pt EXCEPT ![p] = Overlay(m, none)]
        /\ writable' = [writable EXCEPT ![p] = StackPages \cup prog.data]
        /\ tables' = [tables EXCEPT ![p] = {Region(v) : v \in ps}]
        /\ brk' = [brk EXCEPT ![p] = prog.end * PageSize]
        /\ brkStart' = [brkStart EXCEPT ![p] = prog.end]
    BY <1>14 DEF Install
  <2>3. /\ m \in [ps -> Nat]
        /\ \A v \in ps : next <= m[v] /\ m[v] < next + cost
        /\ \A v, w \in ps : m[v] = m[w] => v = w
    <3>1. /\ m \in [ps -> Nat]
          /\ \A v \in ps : next <= m[v] /\ m[v] < next + Cardinality(ps)
          /\ \A v, w \in ps : m[v] = m[w] => v = w
      BY <1>3, <1>6, FreshFacts
    <3> QED BY <3>1, <1>3, <1>7, SMTT(30)
  <2>4. next + cost <= End /\ cost \in Nat
    BY <1>3, <1>7, <1>14
  <2>5. \A v \in VPages : none[v] = None /\ none[v] \in {None, pt[p][v]}
    OBVIOUS
  <2>6. \A v \in ps : img[v] \in Vals
    BY <1>4, <1>6, MemoryAssumption DEF Image, ImagePages
  <2>7. \A v \in VPages \ ps : img[v] = -1
    BY DEF Image, ImagePages
  <2>8. img = [v \in VPages |-> img[v]]
    BY DEF Image
  <2>9. Take(cost, m, "up")
    BY <1>14
  <2> HIDE DEF m, cost, none, img
  <2>10. /\ next' \in 1..End /\ next' = next + cost
         /\ kframes' \subseteq 1..(next' - 1)
         /\ machine' \in {"up", "panic", "hung", "corrupt"}
         /\ pt' \in [Pids -> [VPages -> Frames \cup {None}]]
         /\ m \in [ps -> Frames]
         /\ \A q \in Pids \ {p} : pt'[q] = pt[q]
         /\ \A v \in VPages : pt'[p][v] = IF v \in ps THEN m[v] ELSE none[v]
         /\ FramesExclusive'
    <3>1. Grants(p, ps, m, cost, "up", none)
      BY <1>6, <2>2, <2>3, <2>4, <2>5, <2>9 DEF Grants
    <3> HIDE DEF ps
    <3> QED BY <1>1, <3>1, Grant
  <2>11. \A v \in ps : m[v] = pt'[p][v]
    BY <1>6, <2>10
  <2>12. /\ content' \in [Frames -> Vals]
         /\ \A q \in Pids, v \in VPages :
               View(q)'[v] = IF pt'[q][v] = None THEN -1
                             ELSE IF q = p /\ v \in ps THEN img[v]
                             ELSE content[pt'[q][v]]
    <3>1. Writes(p, ps, m, img)
      BY <1>6, <2>2, <2>6, <2>10, <2>11 DEF Writes
    <3>2. /\ content \in [Frames -> Vals]
          /\ pt' \in [Pids -> [VPages -> Frames \cup {None}]]
          /\ FramesExclusive'
      BY <1>1, <2>10 DEF TypeOK
    <3> HIDE DEF ps
    <3> QED BY <3>1, <3>2, ViewAfterFill, SMTT(30)
  <2>13. TypeOK'
    <3>1. writable' \in [Pids -> SUBSET VPages]
      BY <1>1, <1>4, <1>5, <2>2 DEF TypeOK
    <3>2. tables' \in [Pids -> SUBSET {Region(v) : v \in VPages}]
      BY <1>1, <1>6, <2>2 DEF TypeOK
    <3>3. prog.end * PageSize \in 0..(MmapBase * PageSize)
      <4>1. prog.end \in 0..MmapBase
        BY <1>4
      <4> QED BY <4>1, WholePages
    <3>4. brk' \in [Pids -> 0..(MmapBase * PageSize)]
      BY <1>1, <2>2, <3>3 DEF TypeOK
    <3>5. brkStart' \in [Pids -> 0..MmapBase]
      BY <1>1, <1>4, <2>2, SMTT(30) DEF TypeOK
    <3> QED BY <1>1, <1>2, <2>1, <2>10, <2>12, <3>1, <3>2, <3>4, <3>5 DEF TypeOK
  <2>14. UnbornEmpty' /\ AliveBorn'
    <3>1. p < nextPid
      BY <1>1, <1>2 DEF AliveBorn
    <3>2. ~(p >= nextPid) /\ nextPid' = nextPid
      BY <1>1, <1>2, <3>1, SMTT(30) DEF TypeOK, Pids
    <3> QED BY <1>1, <1>2, <2>10, <3>2 DEF UnbornEmpty, AliveBorn
  <2>15. MmapRegionFree'
    <3>1. \A v \in mmapBase..(MmapEnd - 1) : v \in VPages /\ v \notin ps
      BY <1>1, <1>4, MemoryAssumption, SMTT(30) DEF TypeOK, ImagePages, VPages
    <3> QED BY <1>1, <1>2, <2>5, <2>10, <3>1, SMTT(30) DEF MmapRegionFree
  <2>16. BrkIsBacked'
    <3>1. next' < End => next < End
      BY <1>3, <2>4, <2>10, SMTT(30)
    <3>2. brkStart'[p] = prog.end /\ brk'[p] = prog.end * PageSize
      BY <1>1, <2>2 DEF TypeOK
    <3>3. PageUp(brk'[p]) = prog.end
      BY <1>4, <3>2, PageUpWhole, SMTT(30)
    <3>4. brkStart'[p]..(PageUp(brk'[p]) - 1) = {}
      BY <1>4, <3>2, <3>3
    <3>5. \A q \in Pids \ {p} : brkStart'[q] = brkStart[q] /\ brk'[q] = brk[q]
      BY <1>1, <2>2 DEF TypeOK
    <3>6. \A q \in alive' \ {p} : q \in Pids \ {p} /\ q \in alive
      BY <1>1, <1>2 DEF TypeOK
    <3> SUFFICES ASSUME next' < End, NEW q \in alive',
                        NEW v \in brkStart'[q]..(PageUp(brk'[q]) - 1)
                 PROVE  pt'[q][v] # None
      BY ZenonT(30) DEF BrkIsBacked, PageUp
    <3>7. q # p
      BY <3>4
    <3> QED BY <1>1, <1>2, <2>10, <3>1, <3>5, <3>6, <3>7 DEF BrkIsBacked
  <2>17. SpaceStep
    <3>1. \A v \in VPages : View(p)'[v] = img[v]
      <4> SUFFICES ASSUME NEW v \in VPages PROVE View(p)'[v] = img[v]
        OBVIOUS
      <4>1. CASE v \in ps
        <5>1. m[v] # None
          BY <2>10, <4>1, SMTT(30) DEF Frames, None
        <5> QED BY <2>11, <2>12, <4>1, <5>1
      <4>2. CASE v \notin ps
        BY <2>5, <2>7, <2>10, <2>12, <4>2, SMTT(30)
      <4> QED BY <4>1, <4>2
    <3>2. View(p)' = img
      BY <2>8, <3>1, MemFacts
    <3>3. \A q \in Pids \ {p} : View(q)' = View(q)
      BY <2>10, <2>12, MemFacts, SMTT(30)
    <3>4. Mem' = [Mem EXCEPT ![p] = img]
      BY <3>2, <3>3, MemFacts, SMTT(30)
    <3>5. Space!Exec(p, img)
      BY <3>4 DEF Space!Exec, Mem
    <3>6. img \in {Image(g, a) : g \in {h \in Programs : h.elf}, a \in Args}
      BY <1>14 DEF img
    <3> QED BY <3>5, <3>6 DEF SpaceStep, Space!Next
  <2> QED BY <2>10, <2>13, <2>14, <2>15, <2>16, <2>17 DEF IInv
<1> HIDE DEF left, stack, ps, need, costS, cost, m, none, img
<1>15. \/ /\ left < costS
          /\ Take(left, NoPages, Shortfall(left, BaseFrames, stack, StackPages, ExecOrder))
          /\ UNCHANGED <<heap, content, spaceVars>>
       \/ /\ left >= costS
          /\ Take(costS, NoPages, "up")
          /\ UNCHANGED <<heap, content, spaceVars>>
       \/ /\ left >= costS
          /\ heap + prog.size <= HeapSize /\ heap' = heap + prog.size
          /\ \/ /\ Take(costS, NoPages, "up")
                /\ UNCHANGED <<content, spaceVars>>
             \/ /\ left < cost
                /\ Take(left, NoPages, Shortfall(left, BaseFrames, need, ps, ExecOrder))
                /\ UNCHANGED <<content, spaceVars>>
             \/ /\ prog.elf /\ left >= cost
                /\ Take(cost, m, "up")
                /\ Install(p, prog, args)
  BY DEF Exec, left, stack, ps, need, costS, cost, m
<1> QED BY <1>10, <1>11, <1>12, <1>13, <1>14, <1>15

LEMMA BrkKeepsIInv ==
    ASSUME IInv, NEW p \in Pids, NEW addr \in BrkAddrs, SysBrk(p, addr)
    PROVE  IInv' /\ SpaceStep
<1> DEFINE ps == BrkPages(p, addr)
           got == Got(p, ps)
           m == Fresh(got, Ascending)
<1>1. /\ TypeOK /\ FramesExclusive /\ UnbornEmpty /\ AliveBorn
      /\ MmapRegionFree /\ BrkIsBacked
  BY DEF IInv
<1>2. /\ machine = "up" /\ p \in alive
      /\ TakeFor(p, ps, m, "up")
      /\ content' = Fill(content, m, [v \in got |-> 0])
      /\ pt' = [pt EXCEPT ![p] = Overlay(m, pt[p])]
      /\ writable' = [writable EXCEPT ![p] = writable[p] \cup got]
      /\ tables' = [tables EXCEPT ![p] = tables[p] \cup {Region(v) : v \in got}]
      /\ brk' = [brk EXCEPT ![p] = addr]
      /\ UNCHANGED <<heap, alive, nextPid, brkStart, mmapBase>>
  BY DEF SysBrk, Runs
<1>3. /\ addr \in 0..(MmapBase * PageSize) /\ brk[p] \in 0..(MmapBase * PageSize)
      /\ next \in Int /\ End \in Int
  BY <1>1, MemoryAssumption, SMTT(30) DEF TypeOK
<1>4. PageUp(addr) \in 0..MmapBase /\ PageUp(brk[p]) \in 0..MmapBase
  BY <1>3, PageUpBound
<1>5. /\ MmapBase \in Nat /\ mmapBase \in Int /\ MmapBase <= mmapBase
      /\ 0..(MmapBase - 1) \subseteq VPages
  BY <1>1, MemoryAssumption, SMTT(30) DEF TypeOK, VPages
<1>6. ps \subseteq 0..(MmapBase - 1)
  BY <1>4, <1>5 DEF BrkPages
<1>7. ps \in SUBSET VPages /\ \A v \in ps : pt[p][v] = None
  BY <1>5, <1>6 DEF BrkPages
<1>8. \A v \in PageUp(brk[p])..(PageUp(addr) - 1) : pt[p][v] = None => v \in ps
  BY DEF BrkPages
<1> HIDE DEF ps
<1>9. /\ got \in SUBSET ps
      /\ \E k \in Nat : \E o \in {"up", "panic", "hung"} :
            /\ Grants(p, got, m, k, o, pt[p])
            /\ next + k < End => got = ps
  BY <1>1, <1>2, <1>7, LoopGrants
<1>10. PICK k \in Nat, o \in {"up", "panic", "hung"} :
            /\ Grants(p, got, m, k, o, pt[p])
            /\ next + k < End => got = ps
  BY <1>9
<1> HIDE DEF got, m
<1>11. /\ next' \in 1..End /\ next' = next + k
       /\ kframes' \subseteq 1..(next' - 1)
       /\ machine' \in {"up", "panic", "hung", "corrupt"}
       /\ pt' \in [Pids -> [VPages -> Frames \cup {None}]]
       /\ m \in [got -> Frames]
       /\ \A q \in Pids \ {p} : pt'[q] = pt[q]
       /\ \A v \in VPages : pt'[p][v] = IF v \in got THEN m[v] ELSE pt[p][v]
       /\ FramesExclusive'
  BY <1>1, <1>10, Grant
<1>12. content' \in [Frames -> Vals] /\ SpaceStep
  BY <1>1, <1>2, <1>7, <1>9, <1>10, GrowStep, ZenonT(30)
<1>13. TypeOK'
  <2>1. writable' \in [Pids -> SUBSET VPages]
    BY <1>1, <1>2, <1>7, <1>9 DEF TypeOK
  <2>2. tables' \in [Pids -> SUBSET {Region(v) : v \in VPages}]
    BY <1>1, <1>2, <1>7, <1>9 DEF TypeOK
  <2>3. brk' \in [Pids -> 0..(MmapBase * PageSize)]
    BY <1>1, <1>2, <1>3 DEF TypeOK
  <2> QED BY <1>1, <1>2, <1>11, <1>12, <2>1, <2>2, <2>3 DEF TypeOK
<1>14. UnbornEmpty' /\ AliveBorn'
  <2>1. p < nextPid
    BY <1>1, <1>2 DEF AliveBorn
  <2>2. ~(p >= nextPid) /\ nextPid' = nextPid
    BY <1>1, <1>2, <2>1 DEF TypeOK, Pids
  <2> QED BY <1>1, <1>2, <1>11, <2>2 DEF UnbornEmpty, AliveBorn
<1>15. MmapRegionFree'
  <2>1. \A v \in mmapBase..(MmapEnd - 1) : v \in VPages /\ v \notin got
    BY <1>1, <1>5, <1>6, <1>9, MemoryAssumption, SMTT(30) DEF TypeOK, VPages
  <2> QED BY <1>1, <1>2, <1>11, <2>1 DEF MmapRegionFree
<1>16. BrkIsBacked'
  <2> SUFFICES ASSUME next' < End, NEW q \in alive',
                      NEW v \in brkStart'[q]..(PageUp(brk'[q]) - 1)
               PROVE  pt'[q][v] # None
    BY DEF BrkIsBacked, PageUp
  <2>1. next < End /\ got = ps
    BY <1>3, <1>10, <1>11, SMTT(30)
  <2>2. q \in Pids /\ q \in alive /\ brkStart' = brkStart /\ brkStart[q] \in 0..MmapBase
    BY <1>1, <1>2 DEF TypeOK
  <2>3. \A u \in brkStart[q]..(PageUp(brk[q]) - 1) : pt[q][u] # None
    BY <1>1, <1>2, <2>1, <2>2 DEF BrkIsBacked
  <2>4. CASE q # p
    <3>1. brk'[q] = brk[q] /\ pt'[q] = pt[q]
      BY <1>1, <1>2, <1>11, <2>2, <2>4 DEF TypeOK
    <3> QED BY <2>2, <2>3, <3>1
  <2>5. CASE q = p
    <3>1. brk'[p] = addr
      BY <1>1, <1>2 DEF TypeOK
    <3>2. v \in Int /\ brkStart[p] <= v /\ v <= PageUp(addr) - 1 /\ v \in VPages
      BY <1>4, <1>5, <2>2, <2>5, <3>1, SMTT(30)
    <3>3. pt[p][v] # None \/ v \in ps
      BY <1>4, <1>8, <2>2, <2>3, <2>5, <3>2, SMTT(30)
    <3>4. v \in ps => m[v] # None
      BY <1>11, <2>1, SMTT(30) DEF Frames, None
    <3> QED BY <1>11, <2>1, <2>5, <3>2, <3>3, <3>4
  <2> QED BY <2>4, <2>5
<1> QED BY <1>11, <1>12, <1>13, <1>14, <1>15, <1>16 DEF IInv

\* mmap of g from page at, below the region of free addresses.
LEMMA MapKeepsIInv ==
    ASSUME IInv, machine = "up", NEW p \in alive, NEW at \in VPages, NEW g \in Maps,
           MapRange(p, at, g),
           mmapBase' \in MmapBase..MmapEnd, mmapBase <= mmapBase',
           at + g.n <= mmapBase'
    PROVE  IInv' /\ SpaceStep
<1> DEFINE range == at..(at + g.n - 1)
           ps == {v \in range : pt[p][v] = None}
           got == Got(p, ps)
           m == Fresh(got, Ascending)
           new == Overlay(m, pt[p])
           w == IF g.rw THEN writable[p] \cup got ELSE writable[p]
           fault == \E v \in range : new[v] = None \/ v \notin w
           buf == IF g.file = -1 THEN 0 ELSE g.n
           ends == IF fault THEN "hung"
                   ELSE IF heap + buf > HeapSize THEN "panic" ELSE "up"
           mr == [v \in range |-> new[v]]
           val == [v \in range |-> IF v < at + g.file THEN FileData ELSE 0]
<1>1. /\ TypeOK /\ FramesExclusive /\ UnbornEmpty /\ AliveBorn
      /\ MmapRegionFree /\ BrkIsBacked
  BY DEF IInv
<1>2. /\ TakeFor(p, ps, m, ends)
      /\ pt' = [pt EXCEPT ![p] = new]
      /\ writable' = [writable EXCEPT ![p] = w]
      /\ tables' = [tables EXCEPT ![p] = tables[p] \cup {Region(v) : v \in got}]
      /\ content' = IF ends = "up" THEN Fill(content, mr, val)
                    ELSE Fill(content, m, [v \in got |-> 0])
      /\ heap' = IF ends = "up" THEN heap + buf ELSE heap
      /\ UNCHANGED <<alive, nextPid, brk, brkStart>>
  BY ZenonT(30) DEF MapRange
<1>3. /\ g.n \in Nat \ {0} /\ g.rw \in BOOLEAN /\ g.file \in -1..g.n
      /\ at \in Nat /\ NumPages \in Nat /\ at + g.n <= NumPages
      /\ mmapBase' \in Int /\ mmapBase \in Int
      /\ p \in Pids
  BY <1>1, MapsAssumption, MemoryAssumption, SMTT(30) DEF TypeOK, VPages
<1>4. /\ range \in SUBSET VPages /\ ps \in SUBSET range /\ ps \in SUBSET VPages
      /\ \A v \in range : at <= v /\ v < at + g.n /\ v < mmapBase'
  BY <1>3 DEF VPages
<1>5. \A v \in ps : pt[p][v] = None
  OBVIOUS
<1>6. ends \in {"up", "panic", "hung"}
  OBVIOUS
<1>7. heap' \in 0..HeapSize
  <2>1. heap \in 0..HeapSize /\ buf \in Nat /\ HeapSize \in Nat
    BY <1>1, <1>3, MemoryAssumption DEF TypeOK
  <2>2. ends = "up" => ~(heap + buf > HeapSize)
    OBVIOUS
  <2>3. heap' = IF ends = "up" THEN heap + buf ELSE heap
    BY <1>2, ZenonT(30)
  <2> HIDE DEF buf, ends
  <2> QED BY <2>1, <2>2, <2>3
<1>8. ends = "up" => \A v \in range : new[v] # None
  OBVIOUS
<1>9. \A v \in range : /\ mr[v] = new[v]
                       /\ val[v] = IF v < at + g.file THEN FileData ELSE 0
                       /\ val[v] \in Vals
  BY MemoryAssumption
<1>10. w \subseteq writable[p] \cup got
  OBVIOUS
<1>11. /\ got \in SUBSET ps
       /\ \E k \in Nat : \E o \in {"up", "panic", "hung"} :
             /\ Grants(p, got, m, k, o, pt[p])
             /\ next + k < End => got = ps
  <2> HIDE DEF ends, ps
  <2> QED BY <1>1, <1>2, <1>3, <1>4, <1>6, LoopGrants, ZenonT(30)
<1>12. mr = [v \in range |-> mr[v]]
  OBVIOUS
<1> HIDE DEF range, ps, got, m, w, fault, buf, ends, mr, val
<1>13. PICK k \in Nat, o \in {"up", "panic", "hung"} :
            /\ Grants(p, got, m, k, o, pt[p])
            /\ next + k < End => got = ps
  BY <1>11
<1>14. /\ next' \in 1..End /\ next' = next + k
       /\ kframes' \subseteq 1..(next' - 1)
       /\ machine' \in {"up", "panic", "hung", "corrupt"}
       /\ pt' \in [Pids -> [VPages -> Frames \cup {None}]]
       /\ m \in [got -> Frames]
       /\ \A q \in Pids \ {p} : pt'[q] = pt[q]
       /\ \A v \in VPages : pt'[p][v] = IF v \in got THEN m[v] ELSE pt[p][v]
       /\ FramesExclusive'
  BY <1>1, <1>3, <1>13, Grant
<1>15. pt'[p] = new
  BY <1>1, <1>2, <1>3 DEF TypeOK
<1>16. content' \in [Frames -> Vals] /\ SpaceStep
  <2>1. CASE ends # "up"
    <3>1. content' = Fill(content, m, [v \in got |-> 0])
      BY <1>2, <2>1
    <3>2. \A v \in got : pt[p][v] = None
      BY <1>5, <1>11
    <3> QED BY <1>1, <1>3, <1>13, <3>1, <3>2, GrowStep, ZenonT(30)
  <2>2. CASE ends = "up"
    <3>1. content' = Fill(content, mr, val)
      BY <1>2, <2>2
    <3>2. \A v \in range : v \in VPages /\ mr[v] = pt'[p][v] /\ pt'[p][v] # None
      BY <1>4, <1>8, <1>9, <1>15, <2>2
    <3>3. \A v \in range : mr[v] \in Frames
      <4>1. pt'[p] \in [VPages -> Frames \cup {None}]
        BY <1>3, <1>14
      <4>2. \A v \in VPages : pt'[p][v] \in Frames \cup {None}
        BY <4>1
      <4> QED BY <3>2, <4>2
    <3>4. mr \in [range -> Frames]
      BY <1>12, <3>3
    <3>5. Writes(p, range, mr, val)
      BY <1>4, <1>9, <3>1, <3>2, <3>4 DEF Writes
    <3>6. /\ content' \in [Frames -> Vals]
          /\ \A q \in Pids, v \in VPages :
                View(q)'[v] = IF pt'[q][v] = None THEN -1
                              ELSE IF q = p /\ v \in range THEN val[v]
                              ELSE content[pt'[q][v]]
      <4>1. /\ content \in [Frames -> Vals] /\ p \in Pids
            /\ pt' \in [Pids -> [VPages -> Frames \cup {None}]]
            /\ FramesExclusive'
        BY <1>1, <1>3, <1>14 DEF TypeOK
      <4> QED BY <3>5, <4>1, ViewAfterFill, SMTT(30)
    <3>7. \A q \in Pids \ {p} : View(q)' = View(q)
      BY <1>14, <3>6, MemFacts, SMTT(30)
    <3> DEFINE n == IF g.file = -1 THEN 0 ELSE g.file
               filled == [v \in VPages |->
                            IF v < at \/ v >= at + g.n THEN Mem[p][v]
                            ELSE IF v < at + n THEN FileData ELSE 0]
    <3>8. \A v \in VPages : View(p)'[v] = filled[v]
      <4> SUFFICES ASSUME NEW v \in VPages PROVE View(p)'[v] = filled[v]
        OBVIOUS
      <4>0. v \in Int
        BY DEF VPages
      <4>1. CASE v \in range
        <5>1. View(p)'[v] = IF v < at + g.file THEN FileData ELSE 0
          BY <1>3, <1>9, <3>2, <3>6, <4>1
        <5>2. at <= v /\ v < at + g.n
          BY <1>4, <4>1
        <5>3. v < at + g.file <=> v < at + n
          BY <1>3, <4>0, <5>2
        <5> QED BY <1>3, <4>0, <5>1, <5>2, <5>3
      <4>2. CASE v \notin range
        <5>1. v < at \/ v >= at + g.n
          BY <1>3, <4>0, <4>2 DEF range
        <5>2. pt'[p][v] = pt[p][v]
          BY <1>4, <1>11, <1>14, <4>2
        <5>3. View(p)'[v] = IF pt'[p][v] = None THEN -1 ELSE content[pt'[p][v]]
          BY <1>3, <3>6, <4>2
        <5>4. Mem[p][v] = IF pt[p][v] = None THEN -1 ELSE content[pt[p][v]]
          BY <1>3, MemFacts, SMTT(30)
        <5> QED BY <5>1, <5>2, <5>3, <5>4
      <4> QED BY <4>1, <4>2
    <3>9. filled = [v \in VPages |-> filled[v]]
      OBVIOUS
    <3>10. n \in 0..((at + g.n) - at) /\ at + g.n \in at..NumPages
      BY <1>3
    <3>11. Space!Map(p, at, at + g.n, n) <=> Mem' = [Mem EXCEPT ![p] = filled]
      BY DEF Space!Map, Space!VPages, VPages, Mem
    <3> HIDE DEF filled, n
    <3>12. View(p)' = filled
      BY <1>3, <3>8, <3>9, MemFacts
    <3>13. Mem' = [Mem EXCEPT ![p] = filled]
      BY <1>3, <3>7, <3>12, MemFacts, SMTT(30)
    <3>14. at \in Space!VPages
      BY DEF Space!VPages, VPages
    <3>15. \E lo \in Space!VPages : \E hi \in lo..NumPages : \E j \in 0..(hi - lo) :
              Space!Map(p, lo, hi, j)
      BY <3>10, <3>11, <3>13, <3>14
    <3>16. Space!Next
      BY <1>3, <3>15 DEF Space!Next
    <3> QED BY <3>6, <3>16 DEF SpaceStep
  <2> QED BY <2>1, <2>2
<1>17. TypeOK'
  <2>1. got \in SUBSET VPages
    BY <1>4, <1>11
  <2>2. writable' \in [Pids -> SUBSET VPages]
    BY <1>1, <1>2, <1>3, <1>10, <2>1 DEF TypeOK
  <2>3. tables' \in [Pids -> SUBSET {Region(v) : v \in VPages}]
    BY <1>1, <1>2, <1>3, <2>1 DEF TypeOK
  <2> QED BY <1>1, <1>2, <1>7, <1>14, <1>16, <2>2, <2>3, ZenonT(30) DEF TypeOK
<1>18. UnbornEmpty' /\ AliveBorn'
  <2>1. p < nextPid
    BY <1>1 DEF AliveBorn
  <2>2. ~(p >= nextPid) /\ nextPid' = nextPid
    BY <1>1, <1>2, <1>3, <2>1, SMTT(30) DEF TypeOK, Pids
  <2> QED BY <1>1, <1>2, <1>14, <2>2 DEF UnbornEmpty, AliveBorn
<1>19. MmapRegionFree'
  <2> SUFFICES ASSUME NEW q \in Pids, NEW v \in mmapBase'..(MmapEnd - 1)
               PROVE  pt'[q][v] = None
    BY DEF MmapRegionFree
  <2>1. v \in mmapBase..(MmapEnd - 1) /\ v \in VPages /\ ~(v < mmapBase')
    BY <1>1, <1>3, MemoryAssumption, SMTT(30) DEF TypeOK, VPages
  <2>2. pt[q][v] = None
    BY <1>1, <2>1 DEF MmapRegionFree
  <2>3. v \notin got
    BY <1>4, <1>11, <2>1
  <2> QED BY <1>14, <2>1, <2>2, <2>3
<1>20. BrkIsBacked'
  <2> SUFFICES ASSUME next' < End, NEW q \in alive',
                      NEW v \in brkStart'[q]..(PageUp(brk'[q]) - 1)
               PROVE  pt'[q][v] # None
    BY DEF BrkIsBacked, PageUp
  <2>1. next < End
    BY <1>1, <1>14, MemoryAssumption, SMTT(30) DEF TypeOK
  <2>2. q \in Pids /\ q \in alive /\ brkStart' = brkStart /\ brk' = brk
        /\ brkStart[q] \in 0..MmapBase /\ brk[q] \in 0..(MmapBase * PageSize)
    BY <1>1, <1>2 DEF TypeOK
  <2>3. pt[q][v] # None
    BY <1>1, <2>1, <2>2 DEF BrkIsBacked
  <2>4. PageUp(brk[q]) \in 0..MmapBase
    BY <2>2, PageUpBound
  <2>5. v \in VPages
    BY <2>2, <2>4, MemoryAssumption, SMTT(30) DEF VPages
  <2>6. v \in got => m[v] # None
    <3>1. m \in [got -> Frames]
      BY <1>14
    <3> QED BY <3>1 DEF Frames, None
  <2> QED BY <1>14, <2>2, <2>3, <2>5, <2>6
<1> QED BY <1>14, <1>16, <1>17, <1>18, <1>19, <1>20 DEF IInv

LEMMA MmapKeepsIInv ==
    ASSUME IInv, NEW p \in Pids, NEW g \in Maps,
           Mmap(p, g) \/ \E at \in FixedAt : MmapFixed(p, at, g)
    PROVE  IInv' /\ SpaceStep
<1>1. /\ mmapBase \in MmapBase..MmapEnd /\ MmapBase \in Nat /\ MmapEnd \in Nat
      /\ MmapEnd <= NumPages /\ NumPages \in Nat /\ g.n \in Nat \ {0}
      /\ FixedAt \subseteq VPages
  BY MapsAssumption, MemoryAssumption, SMTT(30) DEF IInv, TypeOK, VPages
<1>2. CASE Mmap(p, g)
  <2>1. /\ p \in alive /\ machine = "up" /\ mmapBase + g.n <= MmapEnd
        /\ mmapBase' = mmapBase + g.n /\ MapRange(p, mmapBase, g)
    BY <1>2 DEF Mmap, Runs, Advance
  <2>2. mmapBase \in VPages /\ mmapBase' \in MmapBase..MmapEnd
        /\ mmapBase <= mmapBase' /\ mmapBase + g.n <= mmapBase'
    BY <1>1, <2>1 DEF VPages
  <2> QED BY <2>1, <2>2, MapKeepsIInv
<1>3. ASSUME NEW at \in FixedAt, MmapFixed(p, at, g)
      PROVE  IInv' /\ SpaceStep
  <2>1. /\ p \in alive /\ machine = "up" /\ at + g.n <= mmapBase
        /\ mmapBase' = mmapBase /\ MapRange(p, at, g)
    BY <1>3 DEF MmapFixed, Runs
  <2>2. at \in VPages /\ mmapBase' \in MmapBase..MmapEnd
        /\ mmapBase <= mmapBase' /\ at + g.n <= mmapBase'
    BY <1>1, <2>1
  <2> QED BY <2>1, <2>2, MapKeepsIInv
<1> QED BY <1>2, <1>3


LEMMA ForkKeepsIInv ==
    ASSUME IInv, NEW p \in Pids, Fork(p)
    PROVE  IInv' /\ SpaceStep
<1> DEFINE left == End - next
           ps == Mapped(p)
           need == Need({}, ps)
           cost == BaseFrames + Cardinality(need)
           all == cost + KStackFrames
           m == Fresh(ps, Ascending)
           none == [v \in VPages |-> None]
           val == View(p)
\* The child, as a value: in c the prime of a step does not reach nextPid.
<1>0. PICK c : c = nextPid
  OBVIOUS
<1>1. /\ TypeOK /\ FramesExclusive /\ UnbornEmpty /\ AliveBorn
      /\ MmapRegionFree /\ BrkIsBacked
  BY DEF IInv
<1>2. /\ machine = "up" /\ p \in alive /\ c <= MaxPid /\ UNCHANGED <<heap, mmapBase>>
  BY <1>0 DEF Fork, Runs
<1>3. /\ next \in Nat /\ 1 <= next /\ next <= End /\ End \in Nat /\ left \in Nat
      /\ next + left = End /\ BaseFrames \in Nat /\ heap \in 0..HeapSize
  BY <1>1, MemoryAssumption, SMTT(30) DEF TypeOK
<1>4. ps \in SUBSET VPages
  BY DEF Mapped
<1>5. /\ cost \in Nat /\ all \in Nat /\ cost <= all
      /\ Cardinality(ps) \in Nat /\ Cardinality(ps) <= all
  <2>1. /\ Cardinality(need) \in Nat
        /\ Cardinality(ps) <= Cardinality(need) /\ Cardinality(ps) \in Nat
    BY <1>4, NeedFacts, PagesFinite
  <2> QED BY <2>1, <1>3 DEF KStackFrames
<1>6. Shortfall(left, BaseFrames, need, ps, Ascending) \in {"up", "panic", "hung"}
  BY DEF Shortfall
<1>7. ASSUME NEW k \in Nat, next + k <= End, NEW o \in {"up", "panic", "hung"},
             Take(k, NoPages, o),
             UNCHANGED <<content, alive, nextPid, spaceVars>>
      PROVE  IInv' /\ SpaceStep
  BY <1>2, <1>3, <1>7, LoseKeepsIInv
<1>8. CASE /\ Take(left, NoPages, Shortfall(left, BaseFrames, need, ps, Ascending))
           /\ UNCHANGED <<content, alive, nextPid, spaceVars>>
  BY <1>3, <1>6, <1>7, <1>8
<1>9. CASE /\ cost <= left
           /\ Take(cost, NoPages, "up")
           /\ UNCHANGED <<content, alive, nextPid, spaceVars>>
  BY <1>3, <1>5, <1>7, <1>9
<1>10. CASE /\ all <= left
            /\ Take(all, m, "up")
            /\ content' = Fill(content, m, val)
            /\ pt' = [pt EXCEPT ![c] = Overlay(m, none)]
            /\ writable' = [writable EXCEPT ![c] = writable[p]]
            /\ tables' = [tables EXCEPT ![c] = {Region(v) : v \in ps}]
            /\ brk' = [brk EXCEPT ![c] = brk[p]]
            /\ brkStart' = [brkStart EXCEPT ![c] = brkStart[p]]
            /\ alive' = alive \cup {c}
            /\ nextPid' = c + 1
  <2>1. /\ c \in Pids /\ p # c /\ p < c /\ c \in Int
        /\ c + 1 \in 1..(MaxPid + 1)
    <3>1. p < c
      BY <1>0, <1>1, <1>2 DEF AliveBorn
    <3>2. c \in 1..(MaxPid + 1) /\ MaxPid \in Nat /\ p \in Int
      BY <1>0, <1>1, MemoryAssumption, SMTT(30) DEF TypeOK, Pids
    <3> QED BY <1>2, <3>1, <3>2 DEF Pids
  <2>2. /\ m \in [ps -> Nat]
        /\ \A v \in ps : next <= m[v] /\ m[v] < next + all
        /\ \A v, w \in ps : m[v] = m[w] => v = w
    <3>1. /\ m \in [ps -> Nat]
          /\ \A v \in ps : next <= m[v] /\ m[v] < next + Cardinality(ps)
          /\ \A v, w \in ps : m[v] = m[w] => v = w
      BY <1>3, <1>4, FreshFacts
    <3> QED BY <3>1, <1>3, <1>5, SMTT(30)
  <2>3. next + all <= End
    BY <1>3, <1>5, <1>10
  <2>4. \A v \in VPages : none[v] = None /\ none[v] \in {None, pt[c][v]}
    OBVIOUS
  <2>5. \A v \in ps : pt[p][v] # None /\ val[v] = content[pt[p][v]] /\ val[v] \in Vals
    <3> SUFFICES ASSUME NEW v \in ps
                 PROVE  /\ pt[p][v] # None
                        /\ val[v] = content[pt[p][v]]
                        /\ val[v] \in Vals
      OBVIOUS
    <3>1. v \in VPages /\ pt[p][v] # None
      BY DEF Mapped
    <3>2. pt[p][v] \in Frames
      BY <1>1, <3>1, SMTT(30) DEF TypeOK
    <3>3. val[v] = content[pt[p][v]]
      BY <3>1 DEF View
    <3> QED BY <1>1, <3>1, <3>2, <3>3 DEF TypeOK
  <2>6. \A v \in VPages \ ps : val[v] = -1 /\ pt[p][v] = None
    BY DEF View, Mapped
  <2>7. val = [v \in VPages |-> val[v]]
    BY DEF View
  <2>8. /\ Take(all, m, "up") /\ content' = Fill(content, m, val)
        /\ pt' = [pt EXCEPT ![c] = Overlay(m, none)]
    BY <1>10
  <2>9. \A v \in VPages : pt[c][v] = None /\ View(c)[v] = -1
    <3>1. c >= nextPid
      BY <1>0, <2>1
    <3> QED BY <1>1, <2>1, <3>1 DEF UnbornEmpty, View
  <2>10. val = View(p)
    OBVIOUS
  <2> HIDE DEF m, all, none, val
  <2>11. /\ next' \in 1..End /\ next' = next + all
         /\ kframes' \subseteq 1..(next' - 1)
         /\ machine' \in {"up", "panic", "hung", "corrupt"}
         /\ pt' \in [Pids -> [VPages -> Frames \cup {None}]]
         /\ m \in [ps -> Frames]
         /\ \A q \in Pids \ {c} : pt'[q] = pt[q]
         /\ \A v \in VPages : pt'[c][v] = IF v \in ps THEN m[v] ELSE none[v]
         /\ FramesExclusive'
    <3>1. Grants(c, ps, m, all, "up", none)
      BY <1>4, <1>5, <2>2, <2>3, <2>4, <2>8 DEF Grants
    <3> HIDE DEF ps
    <3> QED BY <1>1, <2>1, <3>1, Grant
  <2>12. \A v \in ps : m[v] = pt'[c][v] /\ pt'[c][v] # None
    BY <1>4, <2>11, SMTT(30) DEF Frames, None
  <2>13. /\ content' \in [Frames -> Vals]
         /\ \A q \in Pids, v \in VPages :
               View(q)'[v] = IF pt'[q][v] = None THEN -1
                             ELSE IF q = c /\ v \in ps THEN val[v]
                             ELSE content[pt'[q][v]]
    <3>1. Writes(c, ps, m, val)
      BY <1>4, <2>5, <2>8, <2>11, <2>12 DEF Writes
    <3>2. /\ content \in [Frames -> Vals]
          /\ pt' \in [Pids -> [VPages -> Frames \cup {None}]]
          /\ FramesExclusive'
      BY <1>1, <2>11 DEF TypeOK
    <3>3. c \in Pids
      BY <2>1
    <3> HIDE DEF ps
    <3> QED BY <3>1, <3>2, <3>3, ViewAfterFill, SMTT(30)
  <2>14. TypeOK'
    <3>1. writable' \in [Pids -> SUBSET VPages]
      BY <1>1, <1>10 DEF TypeOK
    <3>2. tables' \in [Pids -> SUBSET {Region(v) : v \in VPages}]
      BY <1>1, <1>4, <1>10 DEF TypeOK
    <3>3. brk' \in [Pids -> 0..(MmapBase * PageSize)]
      BY <1>1, <1>10 DEF TypeOK
    <3>4. brkStart' \in [Pids -> 0..MmapBase]
      BY <1>1, <1>10, ZenonT(30) DEF TypeOK
    <3>5. alive' \subseteq Pids /\ nextPid' \in 1..(MaxPid + 1)
      BY <1>1, <1>10, <2>1 DEF TypeOK
    <3>6. heap' \in 0..HeapSize /\ mmapBase' \in MmapBase..MmapEnd
      BY <1>1, <1>2 DEF TypeOK
    <3> QED BY <2>11, <2>13, <3>1, <3>2, <3>3, <3>4, <3>5, <3>6 DEF TypeOK
  <2>15. UnbornEmpty'
    <3> SUFFICES ASSUME NEW q \in Pids, q >= c + 1, NEW v \in VPages
                 PROVE  pt'[q][v] = None
      BY <1>10 DEF UnbornEmpty
    <3>1. q >= nextPid /\ q # c
      BY <1>0, <2>1 DEF Pids
    <3> QED BY <1>1, <2>11, <3>1 DEF UnbornEmpty
  <2>16. AliveBorn'
    <3> SUFFICES ASSUME NEW q \in alive \cup {c} PROVE q < c + 1
      BY <1>10 DEF AliveBorn
    <3>1. q \in alive => q \in Int /\ q < c
      BY <1>0, <1>1, SMTT(30) DEF AliveBorn, TypeOK, Pids
    <3> QED BY <2>1, <3>1
  <2>17. MmapRegionFree'
    <3>1. \A v \in mmapBase..(MmapEnd - 1) : v \in VPages /\ pt[p][v] = None /\ v \notin ps
      BY <1>1, MemoryAssumption, SMTT(30) DEF TypeOK, MmapRegionFree, Mapped, VPages
    <3> QED BY <1>1, <1>2, <2>4, <2>11, <3>1, SMTT(30) DEF MmapRegionFree
  <2>18. BrkIsBacked'
    <3> SUFFICES ASSUME next' < End, NEW q \in alive',
                        NEW v \in brkStart'[q]..(PageUp(brk'[q]) - 1)
                 PROVE  pt'[q][v] # None
      BY DEF BrkIsBacked, PageUp
    <3>1. next < End
      BY <1>3, <1>5, <2>11, SMTT(30)
    <3>2. CASE q # c
      <4>1. q \in alive /\ q \in Pids /\ brkStart'[q] = brkStart[q] /\ brk'[q] = brk[q]
            /\ pt'[q] = pt[q]
        BY <1>1, <1>10, <2>11, <3>2 DEF TypeOK
      <4> QED BY <1>1, <1>2, <3>1, <4>1 DEF BrkIsBacked
    <3>3. CASE q = c
      <4>1. brkStart'[c] = brkStart[p] /\ brk'[c] = brk[p]
            /\ brkStart[p] \in 0..MmapBase /\ brk[p] \in 0..(MmapBase * PageSize)
        BY <1>1, <1>10, <2>1 DEF TypeOK
      <4>2. PageUp(brk[p]) \in 0..MmapBase
        BY <4>1, PageUpBound
      <4>3. v \in VPages /\ v \in brkStart[p]..(PageUp(brk[p]) - 1)
        BY <3>3, <4>1, <4>2, MemoryAssumption DEF VPages
      <4>4. pt[p][v] # None
        BY <1>1, <1>2, <3>1, <4>3 DEF BrkIsBacked
      <4>5. v \in ps
        BY <4>3, <4>4 DEF Mapped
      <4> QED BY <2>12, <3>3, <4>5
    <3> QED BY <3>2, <3>3
  <2>19. SpaceStep
    <3>1. \A v \in VPages : View(c)'[v] = val[v]
      <4> SUFFICES ASSUME NEW v \in VPages PROVE View(c)'[v] = val[v]
        OBVIOUS
      <4>1. CASE v \in ps
        BY <2>1, <2>12, <2>13, <4>1
      <4>2. CASE v \notin ps
        BY <2>1, <2>4, <2>6, <2>11, <2>13, <4>2, SMTT(30)
      <4> QED BY <4>1, <4>2
    <3>2. View(c)' = val
      BY <2>1, <2>7, <3>1, MemFacts
    <3>3. \A q \in Pids \ {c} : View(q)' = View(q)
      BY <2>11, <2>13, MemFacts, SMTT(30)
    <3>4. Mem' = [Mem EXCEPT ![c] = Mem[p]]
      BY <2>1, <2>10, <3>2, <3>3, MemFacts, SMTT(30)
    <3>5. \A v \in VPages : Mem[c][v] = -1
      BY <2>1, <2>9, MemFacts
    <3>6. Space!Fork(p, c)
      BY <3>4, <3>5 DEF Space!Fork, Space!Unmapped, Space!VPages, VPages, Mem
    <3> QED BY <2>1, <3>6 DEF SpaceStep, Space!Next
  <2> QED BY <2>11, <2>14, <2>15, <2>16, <2>17, <2>18, <2>19 DEF IInv
<1> HIDE DEF left, ps, need, cost, all, m, none, val
<1>11. \/ /\ Take(left, NoPages, Shortfall(left, BaseFrames, need, ps, Ascending))
          /\ UNCHANGED <<content, alive, nextPid, spaceVars>>
       \/ /\ cost <= left
          /\ Take(cost, NoPages, "up")
          /\ UNCHANGED <<content, alive, nextPid, spaceVars>>
       \/ /\ all <= left
          /\ Take(all, m, "up")
          /\ content' = Fill(content, m, val)
          /\ pt' = [pt EXCEPT ![c] = Overlay(m, none)]
          /\ writable' = [writable EXCEPT ![c] = writable[p]]
          /\ tables' = [tables EXCEPT ![c] = {Region(v) : v \in ps}]
          /\ brk' = [brk EXCEPT ![c] = brk[p]]
          /\ brkStart' = [brkStart EXCEPT ![c] = brkStart[p]]
          /\ alive' = alive \cup {c}
          /\ nextPid' = c + 1
  BY <1>0 DEF Fork, left, ps, need, cost, all, m, none, val
<1> QED BY <1>8, <1>9, <1>10, <1>11

LEMMA InitEstablishes ==
    ASSUME Init
    PROVE  IInv /\ Space!Init
<1> DEFINE ps == ImagePages(Shell)
           m == FramesFrom(1, ps, ExecOrder)
           img == Image(Shell, 0)
           need == Need({}, ps)
           none == [v \in VPages |-> None]
<1>1. /\ Shell.text \subseteq 0..(MmapBase - 1) /\ Shell.data \subseteq 0..(MmapBase - 1)
      /\ Shell.end \in 1..MmapBase /\ Shell.holds \in Vals /\ Shell.size \in Nat
      /\ Shell \in Programs /\ Shell.elf /\ Shell.size <= HeapSize /\ 0 \in Args
  BY ProgramAssumption, BootAssumption
<1>2. /\ 0..(MmapBase - 1) \subseteq VPages /\ StackPages \in SUBSET VPages
      /\ MmapBase \in Nat
  BY MemoryAssumption, SMTT(30) DEF VPages
<1>3. ps \in SUBSET VPages
  BY <1>1, <1>2 DEF ImagePages
<1>4. /\ Cardinality(need) \in Nat /\ Cardinality(ps) \in Nat
      /\ Cardinality(ps) <= Cardinality(need)
  BY <1>3, NeedFacts, PagesFinite
<1>5. /\ ExecOrder \in [VPages -> Nat]
      /\ \A v, w \in ps : ExecOrder[v] = ExecOrder[w] => v = w
  BY <1>3, OrderFacts
<1>6. /\ m \in [ps -> Nat]
      /\ \A v \in ps : 1 <= m[v] /\ m[v] < 1 + Cardinality(ps)
      /\ \A v, w \in ps : m[v] = m[w] => v = w
  BY <1>3, <1>5, FramesFromFacts
<1>7. /\ next = 1 + BaseFrames + Cardinality(need) + KStackFrames
      /\ next <= End
      /\ kframes = {f \in 1..(next - 1) : \A v \in ps : m[v] # f}
      /\ heap = Shell.size
      /\ content = Fill([f \in Frames |-> 0], m, img)
      /\ alive = {1} /\ nextPid = 2
      /\ pt = [p \in Pids |-> IF p = 1 THEN Overlay(m, none) ELSE none]
      /\ writable = [p \in Pids |-> IF p = 1 THEN StackPages \cup Shell.data ELSE {}]
      /\ tables = [p \in Pids |-> IF p = 1 THEN {Region(v) : v \in ps} ELSE {}]
      /\ brk = [p \in Pids |-> IF p = 1 THEN Shell.end * PageSize ELSE 0]
      /\ brkStart = [p \in Pids |-> IF p = 1 THEN Shell.end ELSE 0]
      /\ mmapBase = MmapBase /\ machine = "up"
  BY BootAssumption DEF Init
<1>71. /\ next = 1 + BaseFrames + Cardinality(need) + KStackFrames /\ next <= End
       /\ heap = Shell.size /\ alive = {1} /\ nextPid = 2
       /\ mmapBase = MmapBase /\ machine = "up"
  BY <1>7
<1>72. kframes = {f \in 1..(next - 1) : \A v \in ps : m[v] # f}
  BY <1>7
<1>8. /\ next \in 1..End
      /\ \A v \in ps : m[v] \in Frames /\ m[v] # None /\ m[v] < next
  <2>1. BaseFrames \in Nat /\ End \in Nat
    BY MemoryAssumption
  <2> HIDE DEF ps, m, need
  <2> QED BY <1>4, <1>6, <1>71, <2>1, SMTT(30) DEF Frames, None, KStackFrames
<1>9. m \in [ps -> Frames]
  BY <1>6, <1>8
<1>10. \A v \in ps : img[v] \in Vals
  BY <1>1, <1>3, MemoryAssumption DEF Image, ImagePages
<1>11. \A v \in VPages \ ps : img[v] = -1
  BY DEF Image, ImagePages
<1>12. img = [v \in VPages |-> img[v]]
  BY DEF Image
<1>13. \A v \in VPages : Overlay(m, none)[v] = IF v \in ps THEN m[v] ELSE None
  BY <1>6 DEF Overlay
<1>14. img \in {Image(g, a) : g \in {h \in Programs : h.elf}, a \in Args}
  BY <1>1
<1>15. none = [v \in VPages |-> None] /\ \A v \in VPages : none[v] = None
  OBVIOUS
<1>16. Overlay(m, none) = [v \in VPages |-> Overlay(m, none)[v]]
  BY DEF Overlay
<1>17. \A v \in ps : v \in VPages /\ v < MmapEnd => v < MmapBase
  BY <1>1, <1>2, MemoryAssumption, SMTT(30) DEF ImagePages, VPages
<1> HIDE DEF ps, m, img, need, none
<1>18. /\ content \in [Frames -> Vals]
       /\ \A v \in ps : content[m[v]] = img[v]
  <2>1. [f \in Frames |-> 0] \in [Frames -> Vals]
    BY MemoryAssumption
  <2> QED BY <1>6, <1>7, <1>9, <1>10, <2>1, FillFacts, SMTT(30)
<1>19. 1 \in Pids /\ MaxPid \in Nat \ {0}
  BY MemoryAssumption DEF Pids
<1>20. \A q \in Pids, v \in VPages :
          pt[q][v] = IF q = 1 /\ v \in ps THEN m[v] ELSE None
  BY <1>7, <1>13, <1>15
<1>21. pt \in [Pids -> [VPages -> Frames \cup {None}]]
  <2>1. none \in [VPages -> Frames \cup {None}]
    BY <1>15
  <2>2. Overlay(m, none) \in [VPages -> Frames \cup {None}]
    BY <1>8, <1>13, <1>16
  <2> QED BY <1>7, <2>1, <2>2
<1>22. TypeOK
  <2>1. kframes \subseteq 1..(next - 1)
    BY <1>72
  <2>2. heap \in 0..HeapSize
    <3>1. /\ Shell.size \in Nat /\ Shell.size <= HeapSize /\ HeapSize \in Nat
          /\ heap = Shell.size
      BY <1>1, <1>71, MemoryAssumption
    <3> QED BY <3>1, SMTT(30)
  <2>3. alive \subseteq Pids /\ nextPid \in 1..(MaxPid + 1)
    BY <1>71, <1>19, SMTT(30)
  <2>4. writable \in [Pids -> SUBSET VPages]
    BY <1>1, <1>2, <1>7
  <2>5. tables \in [Pids -> SUBSET {Region(v) : v \in VPages}]
    BY <1>3, <1>7
  <2>6. Shell.end \in 0..MmapBase /\ 0 \in 0..MmapBase /\ 0 * PageSize = 0
    BY <1>1, <1>2, MemoryAssumption
  <2>7. /\ Shell.end * PageSize \in 0..(MmapBase * PageSize)
        /\ 0 \in 0..(MmapBase * PageSize)
    BY <2>6, WholePages
  <2>8. brk \in [Pids -> 0..(MmapBase * PageSize)]
    BY <1>7, <2>7
  <2>9. brkStart \in [Pids -> 0..MmapBase]
    BY <1>7, <2>6
  <2>10. mmapBase \in MmapBase..MmapEnd /\ machine \in {"up", "panic", "hung", "corrupt"}
    BY <1>2, <1>71, MemoryAssumption, SMTT(30)
  <2> QED BY <1>8, <1>18, <1>21, <2>1, <2>2, <2>3, <2>4, <2>5, <2>8, <2>9, <2>10
          DEF TypeOK
<1>23. FramesExclusive
  <2>1. \A q \in Pids : \A v \in Mapped(q) : q = 1 /\ v \in ps /\ pt[q][v] = m[v]
    BY <1>20 DEF Mapped
  <2> QED BY <1>6, <1>71, <1>72, <1>8, <2>1 DEF FramesExclusive
<1>24. UnbornEmpty /\ AliveBorn
  <2>1. \A q \in Pids : q >= nextPid => q # 1
    BY <1>71 DEF Pids
  <2> QED BY <1>71, <1>20, <2>1, SMTT(30) DEF UnbornEmpty, AliveBorn
<1>25. MmapRegionFree
  <2>1. \A v \in mmapBase..(MmapEnd - 1) : v \in VPages /\ v \notin ps
    BY <1>2, <1>71, <1>17, MemoryAssumption DEF VPages
  <2> QED BY <1>20, <2>1 DEF MmapRegionFree
<1>26. BrkIsBacked
  <2>1. brkStart[1] = Shell.end /\ brk[1] = Shell.end * PageSize
    BY <1>7, <1>19
  <2>2. PageUp(brk[1]) = Shell.end
    BY <1>1, <2>1, PageUpWhole, SMTT(30)
  <2>3. brkStart[1]..(PageUp(brk[1]) - 1) = {}
    BY <1>1, <1>2, <2>1, <2>2
  <2> QED BY <1>7, <2>3, ZenonT(30) DEF BrkIsBacked
<1>27. Space!Init
  <2>1. \A q \in Pids, v \in VPages :
           View(q)[v] = IF q = 1 THEN img[v] ELSE -1
    <3> SUFFICES ASSUME NEW q \in Pids, NEW v \in VPages
                 PROVE  View(q)[v] = IF q = 1 THEN img[v] ELSE -1
      OBVIOUS
    <3>1. View(q)[v] = IF pt[q][v] = None THEN -1 ELSE content[pt[q][v]]
      BY MemFacts
    <3>2. CASE q = 1 /\ v \in ps
      BY <1>8, <1>18, <1>20, <3>1, <3>2
    <3>3. CASE ~(q = 1 /\ v \in ps)
      BY <1>11, <1>20, <3>1, <3>3
    <3> QED BY <3>2, <3>3
  <2>2. \A q \in Pids : View(q) = IF q = 1 THEN img ELSE [v \in VPages |-> -1]
    BY <1>12, <2>1, MemFacts, SMTT(30)
  <2>3. Mem = [q \in Pids |-> IF q = 1 THEN img ELSE [v \in VPages |-> -1]]
    BY <2>2, MemFacts, SMTT(30)
  <2> QED BY <1>14, <2>3 DEF Space!Init, Space!Unmapped, Space!VPages, VPages, Mem
<1> QED BY <1>22, <1>23, <1>24, <1>25, <1>26, <1>27 DEF IInv

LEMMA NextKeepsIInv ==
    ASSUME IInv, [Next]_vars
    PROVE  IInv' /\ SpaceStep
<1> USE DEF vars, spaceVars
<1>1. ASSUME UNCHANGED vars
      PROVE  IInv' /\ SpaceStep
  <2>1. IInv'
    BY <1>1, SMTT(30)
       DEF IInv, TypeOK, FramesExclusive, Mapped, UnbornEmpty, AliveBorn,
                MmapRegionFree, BrkIsBacked, PageUp
  <2>2. \A q \in Pids, v \in VPages : View(q)'[v] = View(q)[v]
    BY <1>1 DEF View
  <2> QED BY <2>1, <2>2, SameViews
<1>2. ASSUME NEW p \in Pids, Exit(p) \/ \E v \in Stores : StoreFault(p, v)
      PROVE  IInv' /\ SpaceStep
  <2>1. /\ UNCHANGED <<next, kframes, heap, content, nextPid, spaceVars, mmapBase>>
        /\ alive' \subseteq alive
        /\ machine' \in {machine, "hung"} /\ machine = "up"
    BY <1>2 DEF StoreFault, Exit, Runs
  <2>2. IInv'
    <3>1. /\ TypeOK /\ FramesExclusive /\ UnbornEmpty /\ AliveBorn
          /\ MmapRegionFree /\ BrkIsBacked
      BY DEF IInv
    <3>2. TypeOK'
      BY <2>1, <3>1 DEF TypeOK
    <3>3. FramesExclusive' /\ UnbornEmpty' /\ AliveBorn' /\ MmapRegionFree'
      BY <2>1, <3>1, SMTT(30)
         DEF FramesExclusive, Mapped, UnbornEmpty, AliveBorn, MmapRegionFree
    <3>4. BrkIsBacked'
      BY <2>1, <3>1 DEF BrkIsBacked, PageUp
    <3> QED BY <3>2, <3>3, <3>4 DEF IInv
  <2>3. \A q \in Pids, u \in VPages : View(q)'[u] = View(q)[u]
    BY <2>1 DEF View
  <2> QED BY <2>2, <2>3, SameViews
<1>3. ASSUME NEW p \in Pids, NEW v \in Stores, NEW x \in Vals, Store(p, v, x)
      PROVE  IInv' /\ SpaceStep
  <2>1. v \in VPages
    BY MemoryAssumption
  <2> QED BY <1>3, <2>1, StoreKeepsIInv
<1>4. ASSUME NEW p \in Pids, NEW prog \in Programs, NEW args \in Args, Exec(p, prog, args)
      PROVE  IInv' /\ SpaceStep
  BY <1>4, ExecKeepsIInv
<1>5. ASSUME NEW p \in Pids, Fork(p)
      PROVE  IInv' /\ SpaceStep
  BY <1>5, ForkKeepsIInv
<1>6. ASSUME NEW p \in Pids, NEW addr \in BrkAddrs, SysBrk(p, addr)
      PROVE  IInv' /\ SpaceStep
  BY <1>6, BrkKeepsIInv
<1>7. ASSUME NEW p \in Pids, NEW g \in Maps,
             Mmap(p, g) \/ \E at \in FixedAt : MmapFixed(p, at, g)
      PROVE  IInv' /\ SpaceStep
  BY <1>7, MmapKeepsIInv
<1>8. CASE Halted
  BY <1>1, <1>8 DEF Halted
<1> QED BY <1>1, <1>2, <1>3, <1>4, <1>5, <1>6, <1>7, <1>8 DEF Next

-----------------------------------------------------------------------------
(* The theorems.                                                           *)

\* The invariant of frames, breaks and mappings holds throughout.
THEOREM Invariance == Spec => []IInv
<1>1. Init => IInv
  BY InitEstablishes
<1>2. IInv /\ [Next]_vars => IInv'
  BY NextKeepsIInv
<1> QED BY <1>1, <1>2, PTL DEF Spec

\* The allocator, the page tables and the per-process fields keep their types.
THEOREM TypeCorrect == Spec => []TypeOK
<1>1. IInv => TypeOK
  BY DEF IInv
<1> QED BY <1>1, Invariance, PTL

\* No frame of a user page is ever shared, used by the kernel or still to be
\* handed out by alloc_page.
THEOREM FramesAlwaysExclusive == Spec => []FramesExclusive
<1>1. IInv => FramesExclusive
  BY DEF IInv
<1> QED BY <1>1, Invariance, PTL

\* Until frames run out, sys_brk leaves no hole below the break.
THEOREM BrkAlwaysBacked == Spec => []BrkIsBacked
<1>1. IInv => BrkIsBacked
  BY DEF IInv
<1> QED BY <1>1, Invariance, PTL

\* No process has a page in the addresses sys_mmap will choose next.
THEOREM MmapRegionAlwaysFree == Spec => []MmapRegionFree
<1>1. IInv => MmapRegionFree
  BY DEF IInv
<1> QED BY <1>1, Invariance, PTL

\* Frames and page tables implement private address spaces.
THEOREM Refinement == Spec => ImplementsAddrSpace
<1>1. Init => Space!Init
  BY InitEstablishes
<1>2. IInv /\ [Next]_vars => [Space!Next]_Mem
  BY NextKeepsIInv DEF SpaceStep
<1>3. IInv /\ [Next]_vars => [Space!Next]_[p \in Pids |-> View(p)]
  BY <1>2 DEF Mem
<1> QED BY <1>1, <1>3, Invariance, PTL DEF Spec, ImplementsAddrSpace, Space!Spec

=============================================================================
