---------------------------- MODULE FilesVector -----------------------------
(***************************************************************************)
(* sys_writev of two buffers, for all buffers and descriptors.  It keeps   *)
(* the invariant of FilesKernel, and it is sys_write of what the buffers  *)
(* hold together.                                                          *)
(***************************************************************************)
EXTENDS FilesKernel

\* A leaf that names no prover is tried with Zenon, then with SMT.
USE ZenonT(30), SMTT(30)

-----------------------------------------------------------------------------
(* sys_writev, for two buffers.                                            *)

Start(k) == [k |-> k, total |-> 0, done |-> FALSE]

LEMMA VectorOfTwo ==
    ASSUME NEW k, NEW fd, NEW c, NEW d
    PROVE  LET last == Turn(Turn(Start(k), fd, c), fd, d)
           IN  WriteVector(k, fd, <<c, d>>) = Returns(last.k, last.total)
<1> DEFINE iov == <<c, d>>
           F(f) == [i \in 0..Len(iov) |-> IF i = 0 THEN Start(k)
                                          ELSE Turn(f[i - 1], fd, iov[i])]
           turn == CHOOSE f : f = F(f)
           s1 == Turn(Start(k), fd, c)
           s2 == Turn(s1, fd, d)
           g == [i \in 0..2 |-> IF i = 0 THEN Start(k) ELSE IF i = 1 THEN s1 ELSE s2]
<1>1. WriteVector(k, fd, iov) = Returns(turn[Len(iov)].k, turn[Len(iov)].total)
  BY DEF WriteVector, Start
<1>2. Len(iov) = 2 /\ iov[1] = c /\ iov[2] = d
  BY SMTT(30)
<1>3. \A i \in 0..2 : i = 0 \/ i = 1 \/ i = 2
  BY SMTT(30)
<1>4. 0 \in 0..2 /\ 1 \in 0..2 /\ 2 \in 0..2 /\ 1 # 0 /\ 2 # 0 /\ 2 # 1 /\ 1 - 1 = 0 /\ 2 - 1 = 1
  BY SMTT(30)
<1> HIDE DEF iov
<1>5. g[0] = Start(k) /\ g[1] = s1 /\ g[2] = s2
  BY <1>4
<1>6. \A i \in 0..2 : (IF i = 0 THEN Start(k) ELSE IF i = 1 THEN s1 ELSE s2) =
                      (IF i = 0 THEN Start(k) ELSE Turn(g[i - 1], fd, iov[i]))
  <2> TAKE i \in 0..2
  <2> HIDE DEF g
  <2> QED BY <1>2, <1>3, <1>4, <1>5
<1>7. g = F(g)
  BY <1>2, <1>6
<1>8. turn = F(turn)
  <2> HIDE DEF F
  <2> QED BY <1>7
<1> HIDE DEF turn
<1>9. turn[0] = Start(k)
  BY <1>2, <1>4, <1>8, SMTT(30)
<1>10. turn[1] = Turn(turn[0], fd, iov[1])
  BY <1>2, <1>4, <1>8, SMTT(30)
<1>11. turn[2] = Turn(turn[1], fd, iov[2])
  BY <1>2, <1>4, <1>8, SMTT(30)
<1> QED BY <1>1, <1>2, <1>9, <1>10, <1>11 DEF iov

\* What holds between two turns.
TurnOK(s) == s = [k |-> s.k, total |-> s.total, done |-> s.done] /\ KernelOK(s.k)

LEMMA TurnKeeps ==
    ASSUME NEW s, TurnOK(s), DataOK(data), NEW fd \in Fds,
           NEW chunk \in Seq(Byte), Len(chunk) < Width
    PROVE  TurnOK(Turn(s, fd, chunk))
<1> DEFINE w == WriteTo(s.k, fd, chunk)
           t == Turn(s, fd, chunk)
<1>1. CASE s.done \/ chunk = <<>> \/ s.k.machine # "up"
  <2>1. t = s
    BY <1>1 DEF Turn
  <2> QED BY <2>1
<1>2. CASE ~(s.done \/ chunk = <<>> \/ s.k.machine # "up") /\ w.ret < 0
  <2> DEFINE n == IF s.total = 0 THEN w.ret ELSE s.total
  <2>1. t = [k |-> s.k, total |-> n, done |-> TRUE]
    BY <1>2 DEF Turn
  <2> HIDE DEF t, n
  <2>2. t.k = s.k /\ t = [k |-> t.k, total |-> t.total, done |-> t.done]
    BY <2>1
  <2> QED BY <2>2 DEF TurnOK, t
<1>3. CASE ~(s.done \/ chunk = <<>> \/ s.k.machine # "up") /\ ~(w.ret < 0)
  <2>1. KernelOK(w)
    BY <1>3, WriteToOK DEF TurnOK
  <2> DEFINE e == w.ret < Len(chunk)
             n == s.total + w.ret
  <2>2. t = [k |-> w, total |-> n, done |-> e]
    BY <1>3 DEF Turn
  <2> HIDE DEF t, w, e, n
  <2>3. t.k = w /\ t = [k |-> t.k, total |-> t.total, done |-> t.done]
    BY <2>2
  <2> QED BY <2>1, <2>3 DEF TurnOK, t
<1> QED BY <1>1, <1>2, <1>3

LEMMA WriteVectorOK ==
    ASSUME NEW k, KernelOK(k), DataOK(data), NEW fd \in Fds,
           NEW c \in Seq(Byte), Len(c) < Width, NEW d \in Seq(Byte), Len(d) < Width
    PROVE  KernelOK(WriteVector(k, fd, <<c, d>>))
<1> DEFINE s0 == Start(k)
           s1 == Turn(s0, fd, c)
           s2 == Turn(s1, fd, d)
<1>1. s0.k = k /\ TurnOK(s0)
  BY DEF TurnOK, Start
<1> HIDE DEF s0
<1>2. TurnOK(s1)
  BY <1>1, TurnKeeps
<1> HIDE DEF s1
<1>3. TurnOK(s2)
  BY <1>2, TurnKeeps
<1>4. WriteVector(k, fd, <<c, d>>) = Returns(s2.k, s2.total)
  BY VectorOfTwo DEF s0, s1
<1> HIDE DEF s2
<1>5. KernelOK(s2.k)
  BY <1>3 DEF TurnOK
<1> QED BY <1>4, <1>5, ReturnsOK

-----------------------------------------------------------------------------
(* sys_writev against sys_write: the facts about sequences.                *)

LEMMA SeqEq ==
    ASSUME NEW S, NEW s \in Seq(S), NEW t \in Seq(S), Len(s) = Len(t),
           \A i \in 1..Len(s) : s[i] = t[i]
    PROVE  s = t
<1>1. Len(s) \in Nat /\ s \in [1..Len(s) -> S] /\ t \in [1..Len(s) -> S]
  BY LenProperties
<1> QED BY <1>1, SMTT(30)

LEMMA JoinedEmpty ==
    ASSUME NEW s \in Seq(Byte)
    PROVE  <<>> \o s = s /\ s \o <<>> = s
<1>1. <<>> \in Seq(Byte) /\ Len(<<>>) = 0 /\ Len(s) \in Nat
  BY LenProperties, SMTT(30)
<1>2. /\ <<>> \o s \in Seq(Byte) /\ Len(<<>> \o s) = Len(s)
      /\ \A i \in 1..Len(s) : (<<>> \o s)[i] = s[i]
  BY <1>1, ConcatProperties, SMTT(30)
<1>3. /\ s \o <<>> \in Seq(Byte) /\ Len(s \o <<>>) = Len(s)
      /\ \A i \in 1..Len(s) : (s \o <<>>)[i] = s[i]
  BY <1>1, ConcatProperties, SMTT(30)
<1>4. <<>> \o s = s
  BY <1>2, SeqEq
<1>5. s \o <<>> = s
  BY <1>3, SeqEq
<1> QED BY <1>4, <1>5

\* The first bytes of two buffers: of the first, or all of it and the first
\* of the second.
LEMMA FirstOfTwo ==
    ASSUME NEW c \in Seq(Byte), NEW d \in Seq(Byte), NEW n \in Nat, n <= Len(c)
    PROVE  SubSeq(c \o d, 1, n) = SubSeq(c, 1, n)
<1>1. Len(c) \in Nat /\ Len(d) \in Nat
  BY LenProperties
<1>2. /\ c \o d \in Seq(Byte) /\ Len(c \o d) = Len(c) + Len(d)
  BY Joined
<1>3. \A i \in 1..Len(c) : (c \o d)[i] = c[i]
  BY Joined, SMTT(30)
<1>4. 0 \in Nat /\ 0 + n <= Len(c) /\ 0 + n <= Len(c \o d) /\ 0 + 1 = 1 /\ 0 + n = n
  BY <1>1, <1>2, SMTT(30)
<1> DEFINE s == SubSeq(c \o d, 1, n)
           t == SubSeq(c, 1, n)
<1>5. s \in Seq(Byte) /\ Len(s) = n /\ \A i \in 1..n : s[i] = (c \o d)[i]
  <2> DEFINE e == c \o d
  <2> HIDE DEF e
  <2>1. /\ SubSeq(e, 0 + 1, 0 + n) \in Seq(Byte) /\ Len(SubSeq(e, 0 + 1, 0 + n)) = n
        /\ \A i \in 1..n : SubSeq(e, 0 + 1, 0 + n)[i] = e[0 + i]
    BY <1>2, <1>4, Slice, SMTT(30) DEF e
  <2>2. \A i \in 1..n : 0 + i = i
    BY SMTT(30)
  <2> QED BY <1>4, <2>1, <2>2 DEF e
<1>6. t \in Seq(Byte) /\ Len(t) = n /\ \A i \in 1..n : t[i] = c[i]
  <2>1. /\ SubSeq(c, 0 + 1, 0 + n) \in Seq(Byte) /\ Len(SubSeq(c, 0 + 1, 0 + n)) = n
        /\ \A i \in 1..n : SubSeq(c, 0 + 1, 0 + n)[i] = c[0 + i]
    BY <1>4, Slice, SMTT(30)
  <2>2. \A i \in 1..n : 0 + i = i
    BY SMTT(30)
  <2> QED BY <1>4, <2>1, <2>2
<1>7. \A i \in 1..n : i \in 1..Len(c)
  BY <1>1, SMTT(30)
<1> HIDE DEF s, t
<1>8. \A i \in 1..Len(s) : s[i] = t[i]
  BY <1>3, <1>5, <1>6, <1>7
<1>9. s = t
  BY <1>5, <1>6, <1>8, SeqEq
<1> QED BY <1>9 DEF s, t

LEMMA RestOfTwo ==
    ASSUME NEW q \in Seq(Byte), NEW c \in Seq(Byte), NEW d \in Seq(Byte),
           NEW n \in Nat, n <= Len(d)
    PROVE  (q \o SubSeq(c, 1, Len(c))) \o SubSeq(d, 1, n) =
              q \o SubSeq(c \o d, 1, Len(c) + n)
<1> DEFINE L == Len(c)
           s == SubSeq(d, 1, n)
           e == c \o d
           t == SubSeq(e, 1, L + n)
<1>1. L \in Nat /\ Len(d) \in Nat /\ Len(q) \in Nat
  BY LenProperties
<1>2. SubSeq(c, 1, L) = c
  BY SubSeqFull
<1>3. e \in Seq(Byte) /\ Len(e) = L + Len(d)
  BY Joined
<1>4. \A i \in 1..L : e[i] = c[i]
  BY Joined, SMTT(30)
<1>5. \A i \in 1..Len(d) : e[L + i] = d[i]
  BY Joined, SMTT(30)
<1>6. 0 \in Nat /\ 0 + n <= Len(d) /\ L + n \in Nat /\ 0 + (L + n) <= Len(e)
      /\ 0 + 1 = 1 /\ 0 + n = n /\ 0 + (L + n) = L + n /\ \A i \in 1..(L + n) : 0 + i = i
  BY <1>1, <1>3, SMTT(30)
<1> HIDE DEF e, L
<1>7. s \in Seq(Byte) /\ Len(s) = n /\ \A i \in 1..n : s[i] = d[i]
  <2>1. /\ SubSeq(d, 0 + 1, 0 + n) \in Seq(Byte) /\ Len(SubSeq(d, 0 + 1, 0 + n)) = n
        /\ \A i \in 1..n : SubSeq(d, 0 + 1, 0 + n)[i] = d[0 + i]
    BY <1>6, Slice, SMTT(30)
  <2>2. \A i \in 1..n : 0 + i = i
    BY SMTT(30)
  <2> QED BY <1>6, <2>1, <2>2
<1>8. t \in Seq(Byte) /\ Len(t) = L + n /\ \A i \in 1..(L + n) : t[i] = e[i]
  <2> DEFINE m == L + n
  <2>0. m \in Nat /\ 0 + m <= Len(e) /\ 0 + m = m
    BY <1>6
  <2> HIDE DEF m
  <2>1. /\ SubSeq(e, 0 + 1, 0 + m) \in Seq(Byte) /\ Len(SubSeq(e, 0 + 1, 0 + m)) = m
        /\ \A i \in 1..m : SubSeq(e, 0 + 1, 0 + m)[i] = e[0 + i]
    BY <1>3, <1>6, <2>0, Slice, SMTT(30)
  <2>2. \A i \in 1..m : 0 + i = i
    BY <2>0, SMTT(30)
  <2>3. 0 + 1 = 1
    BY SMTT(30)
  <2>4. SubSeq(e, 1, m) = SubSeq(e, 0 + 1, 0 + m)
    BY <2>0, <2>3
  <2>5. /\ SubSeq(e, 1, m) \in Seq(Byte) /\ Len(SubSeq(e, 1, m)) = m
        /\ \A i \in 1..m : SubSeq(e, 1, m)[i] = e[i]
    BY <2>1, <2>2, <2>4
  <2> QED BY <2>5 DEF m
<1> HIDE DEF s, t
<1>9. t = c \o s
  <2>1. c \o s \in Seq(Byte) /\ Len(c \o s) = L + n
    BY <1>7, Joined DEF L
  <2>2. \A i \in 1..L : (c \o s)[i] = c[i]
    BY <1>7, Joined, SMTT(30) DEF L
  <2>3. \A i \in 1..n : (c \o s)[L + i] = s[i]
    <3>1. s \in Seq(Byte) /\ Len(s) = n
      BY <1>7
    <3>2. \A i \in 1..Len(s) : (c \o s)[Len(c) + i] = s[i]
      BY <3>1, Joined, SMTT(30)
    <3> QED BY <3>1, <3>2 DEF L
  <2> DEFINE u == c \o s
  <2> HIDE DEF u
  <2>4. ASSUME NEW i \in 1..(L + n) PROVE t[i] = u[i]
    <3>1. CASE i \in 1..L
      BY <1>4, <1>8, <2>2, <3>1 DEF u
    <3>2. CASE i \notin 1..L
      <4> DEFINE j == i - L
      <4>1. j \in 1..n /\ j \in 1..Len(d) /\ L + j = i
        BY <1>1, <3>2, SMTT(30)
      <4> HIDE DEF j
      <4>2. e[L + j] = d[j] /\ u[L + j] = s[j] /\ s[j] = d[j]
        BY <1>5, <1>7, <2>3, <4>1 DEF u
      <4> QED BY <1>8, <4>1, <4>2
    <3> QED BY <3>1, <3>2
  <2>5. t = u
    BY <1>8, <2>1, <2>4, SeqEq DEF u
  <2> QED BY <2>5 DEF u
<1>10. (q \o c) \o s = q \o (c \o s)
  BY <1>7, ConcatAssociative, SMTT(30)
<1> QED BY <1>2, <1>9, <1>10 DEF s, t, e, L

\* Two stretches, one after the other, are one.
LEMMA PatchedTwice ==
    ASSUME NEW b \in Seq(Byte), NEW c \in Seq(Byte), NEW d \in Seq(Byte), NEW off \in Nat
    PROVE  Patched(Patched(b, off, c), off + Len(c), d) = Patched(b, off, c \o d)
<1> DEFINE L == Len(c)
           M == Len(d)
           N == Len(b)
           e == c \o d
           p == Patched(b, off, c)
           s == Patched(p, off + L, d)
           t == Patched(b, off, e)
           mid  == IF off + L > N THEN off + L ELSE N
           long == IF off + (L + M) > N THEN off + (L + M) ELSE N
<1>1. L \in Nat /\ M \in Nat /\ N \in Nat
  BY LenProperties
<1>2. e \in Seq(Byte) /\ Len(e) = L + M
  BY Joined
<1>3. \A i \in 1..L : e[i] = c[i]
  BY Joined, SMTT(30)
<1>4. \A i \in 1..M : e[L + i] = d[i]
  BY Joined, SMTT(30)
<1> HIDE DEF e
<1>5. p \in Seq(Byte) /\ Len(p) = mid
  BY PatchedFacts
<1>6. \A i \in 1..mid : p[i] = IF off < i /\ i <= off + L THEN c[i - off]
                               ELSE IF i <= N THEN b[i] ELSE 0
  <2> HIDE DEF L, N
  <2> QED BY DEF Patched, L, N
<1> HIDE DEF p
<1>7. off + L \in Nat /\ mid \in Nat /\ long \in Nat
      /\ long = IF (off + L) + M > mid THEN (off + L) + M ELSE mid
  BY <1>1, SMTT(30)
<1>8. s = [i \in 1..long |-> IF off + L < i /\ i <= (off + L) + M THEN d[i - (off + L)]
                             ELSE IF i <= mid THEN p[i] ELSE 0]
  <2> HIDE DEF L, N, M, mid, long
  <2> QED BY <1>5, <1>7 DEF Patched, M
<1>9. t = [i \in 1..long |-> IF off < i /\ i <= off + (L + M) THEN e[i - off]
                             ELSE IF i <= N THEN b[i] ELSE 0]
  <2> HIDE DEF L, M
  <2> QED BY <1>2 DEF Patched
<1> HIDE DEF s, t
<1>10. ASSUME NEW i \in 1..long
       PROVE  (IF off + L < i /\ i <= (off + L) + M THEN d[i - (off + L)]
               ELSE IF i <= mid THEN p[i] ELSE 0) =
              (IF off < i /\ i <= off + (L + M) THEN e[i - off]
               ELSE IF i <= N THEN b[i] ELSE 0)
  <2>0. i \in Nat /\ i > 0
    BY <1>7, SMTT(30)
  <2> HIDE DEF L, M, N
  <2>1. CASE off + L < i /\ i <= (off + L) + M
    <3> DEFINE j == i - (off + L)
    <3>1. j \in 1..M /\ L + j = i - off /\ off < i /\ i <= off + (L + M)
      BY <1>1, <2>0, <2>1, SMTT(30)
    <3> HIDE DEF j
    <3>2. e[L + j] = d[j]
      BY <1>4, <3>1
    <3> QED BY <2>1, <3>1, <3>2 DEF j
  <2>2. CASE off < i /\ i <= off + L
    <3> DEFINE j == i - off
    <3>1. j \in 1..L /\ i <= off + (L + M) /\ ~(off + L < i) /\ i <= mid /\ i \in 1..mid
      BY <1>1, <2>0, <2>2, SMTT(30)
    <3> HIDE DEF j, mid
    <3>2. e[j] = c[j]
      BY <1>3, <3>1
    <3>3. p[i] = c[i - off]
      BY <1>6, <2>2, <3>1
    <3> QED BY <2>2, <3>1, <3>2, <3>3 DEF j
  <2>3. CASE i <= off
    <3>1. ~(off + L < i) /\ ~(off < i) /\ (i <= N => i <= mid)
          /\ (i <= mid => i \in 1..mid)
      BY <1>1, <2>0, <2>3, SMTT(30)
    <3> HIDE DEF mid
    <3> QED BY <1>6, <3>1
  <2>4. CASE i > off + (L + M)
    <3>1. ~(i <= (off + L) + M) /\ ~(i <= off + (L + M)) /\ ~(i <= off + L)
          /\ (i <= N => i <= mid) /\ (i <= mid => i \in 1..mid)
      BY <1>1, <2>0, <2>4, SMTT(30)
    <3> HIDE DEF mid
    <3> QED BY <1>6, <3>1
  <2>5. \/ off + L < i /\ i <= (off + L) + M
        \/ off < i /\ i <= off + L
        \/ i <= off
        \/ i > off + (L + M)
    BY <1>1, <2>0, SMTT(30)
  <2> QED BY <2>1, <2>2, <2>3, <2>4, <2>5
<1>11. s = t
  <2> DEFINE A(i) == IF off + L < i /\ i <= (off + L) + M THEN d[i - (off + L)]
                     ELSE IF i <= mid THEN p[i] ELSE 0
             B(i) == IF off < i /\ i <= off + (L + M) THEN e[i - off]
                     ELSE IF i <= N THEN b[i] ELSE 0
  <2> HIDE DEF L, M, N, mid, long
  <2>1. s = [i \in 1..long |-> A(i)] /\ t = [i \in 1..long |-> B(i)]
    BY <1>8, <1>9
  <2>2. \A i \in 1..long : A(i) = B(i)
    BY <1>10
  <2> HIDE DEF A, B
  <2> QED BY <2>1, <2>2, SMTT(30)
<1> QED BY <1>11 DEF s, t, p, e

(* The turns of the loop.                                                  *)

LEMMA StartFields ==
    ASSUME NEW k
    PROVE  Start(k).k = k /\ Start(k).total = 0 /\ Start(k).done = FALSE
BY DEF Start

\* A turn that writes.
LEMMA TurnTaken ==
    ASSUME NEW s, ~s.done, s.k.machine = "up", s.total \in Nat, NEW fd, NEW chunk, chunk # <<>>,
           WriteTo(s.k, fd, chunk).ret \in Nat
    PROVE  LET w == WriteTo(s.k, fd, chunk)
               t == Turn(s, fd, chunk)
           IN  /\ t.k = w /\ t.total = s.total + w.ret /\ t.total \in Nat
               /\ t.done <=> w.ret < Len(chunk)
<1> DEFINE w == WriteTo(s.k, fd, chunk)
           t == Turn(s, fd, chunk)
           n == s.total + w.ret
           e == w.ret < Len(chunk)
<1>1. ~(w.ret < 0) /\ n \in Nat
  <2> HIDE DEF w
  <2> QED BY SMTT(30) DEF w
<1>2. t = [k |-> w, total |-> n, done |-> e]
  BY <1>1 DEF Turn
<1> HIDE DEF t, w, n, e
<1>3. t.k = w /\ t.total = n /\ t.done = e
  BY <1>2
<1> QED BY <1>1, <1>3 DEF t, w, n, e

\* A turn that has nothing to do.
LEMMA TurnSkipped ==
    ASSUME NEW s, NEW fd, NEW chunk, s.done \/ chunk = <<>> \/ s.k.machine # "up"
    PROVE  Turn(s, fd, chunk) = s
BY DEF Turn

\* The first buffer comes short, or the kernel panics.
LEMMA VectorShort ==
    ASSUME NEW k, k.machine = "up", NEW fd, NEW c, c # <<>>, NEW d,
           WriteTo(k, fd, c).ret \in Nat,
           \/ d = <<>>
           \/ WriteTo(k, fd, c).ret < Len(c)
           \/ WriteTo(k, fd, c).machine # "up"
    PROVE  WriteVector(k, fd, <<c, d>>) =
              Returns(WriteTo(k, fd, c), WriteTo(k, fd, c).ret)
<1> DEFINE w  == WriteTo(k, fd, c)
           s0 == Start(k)
           s1 == Turn(s0, fd, c)
           s2 == Turn(s1, fd, d)
<1>0. 0 \in Nat
  BY SMTT(30)
<1>1. s0.k = k /\ s0.total = 0 /\ s0.done = FALSE /\ 0 \in Nat
  BY <1>0, StartFields
<1> HIDE DEF s0
<1>2. s1.k = w /\ s1.total = 0 + w.ret /\ (s1.done <=> w.ret < Len(c))
  BY <1>1, TurnTaken
<1>3. 0 + w.ret = w.ret
  <2> HIDE DEF w
  <2> QED BY SMTT(30) DEF w
<1> HIDE DEF s1
<1>4. s2 = s1
  BY <1>2, TurnSkipped
<1>5. WriteVector(k, fd, <<c, d>>) = Returns(s2.k, s2.total)
  BY VectorOfTwo DEF s0, s1
<1> QED BY <1>2, <1>3, <1>4, <1>5

\* The first buffer is taken whole.
LEMMA VectorFull ==
    ASSUME NEW k, k.machine = "up", NEW fd, NEW c, c # <<>>, NEW d, d # <<>>,
           WriteTo(k, fd, c).ret = Len(c), Len(c) \in Nat,
           WriteTo(k, fd, c).machine = "up",
           WriteTo(WriteTo(k, fd, c), fd, d).ret \in Nat
    PROVE  WriteVector(k, fd, <<c, d>>) =
              Returns(WriteTo(WriteTo(k, fd, c), fd, d),
                      Len(c) + WriteTo(WriteTo(k, fd, c), fd, d).ret)
<1> DEFINE w1 == WriteTo(k, fd, c)
           w2 == WriteTo(w1, fd, d)
           s0 == Start(k)
           s1 == Turn(s0, fd, c)
           s2 == Turn(s1, fd, d)
           n  == Len(c)
<1>0. 0 \in Nat
  BY SMTT(30)
<1>1. s0.k = k /\ s0.total = 0 /\ s0.done = FALSE /\ 0 \in Nat
  BY <1>0, StartFields
<1> HIDE DEF s0
<1>2. s1.k = w1 /\ s1.total = 0 + w1.ret /\ (s1.done <=> w1.ret < n)
  BY <1>1, TurnTaken
<1>3. 0 + w1.ret = n /\ ~(w1.ret < n) /\ n \in Nat
  <2>1. w1.ret = n /\ n \in Nat
    OBVIOUS
  <2> HIDE DEF n, w1
  <2> QED BY <2>1, SMTT(30)
<1> HIDE DEF s1
<1>4. s2.k = w2 /\ s2.total = n + w2.ret
  <2>1. s1.k.machine = "up" /\ ~s1.done /\ s1.total = n /\ s1.total \in Nat
        /\ WriteTo(s1.k, fd, d) = w2 /\ w2.ret \in Nat
    BY <1>2, <1>3
  <2> HIDE DEF w2
  <2> QED BY <2>1, TurnTaken
<1>5. WriteVector(k, fd, <<c, d>>) = Returns(s2.k, s2.total)
  BY VectorOfTwo DEF s0, s1
<1> QED BY <1>4, <1>5

\* The first buffer is empty.
LEMMA VectorEmpty ==
    ASSUME NEW k, k.machine = "up", NEW fd, NEW d, d # <<>>,
           WriteTo(k, fd, d).ret \in Nat
    PROVE  WriteVector(k, fd, <<<<>>, d>>) =
              Returns(WriteTo(k, fd, d), WriteTo(k, fd, d).ret)
<1> DEFINE w  == WriteTo(k, fd, d)
           s0 == Start(k)
           s1 == Turn(s0, fd, <<>>)
           s2 == Turn(s1, fd, d)
<1>0. 0 \in Nat
  BY SMTT(30)
<1>1. s0.k = k /\ s0.total = 0 /\ s0.done = FALSE /\ 0 \in Nat
  BY <1>0, StartFields
<1> HIDE DEF s0
<1>2. s1 = s0
  BY TurnSkipped
<1>3. 0 + w.ret = w.ret
  <2> HIDE DEF w
  <2> QED BY SMTT(30) DEF w
<1> HIDE DEF s1
<1>4. s2.k = w /\ s2.total = 0 + w.ret
  BY <1>1, <1>2, TurnTaken
<1>5. WriteVector(k, fd, <<<<>>, d>>) = Returns(s2.k, s2.total)
  BY VectorOfTwo DEF s0, s1
<1> QED BY <1>3, <1>4, <1>5

\* The descriptor is not open.
LEMMA VectorBad ==
    ASSUME NEW k, KernelOK(k), k.machine = "up", NEW fd \in Fds, fd \notin {1, 2},
           k.files[fd] = None, NEW c, NEW d, c # <<>> \/ d # <<>>
    PROVE  WriteVector(k, fd, <<c, d>>) = Returns(k, -1)
<1> DEFINE s0 == Start(k)
           s1 == Turn(s0, fd, c)
           s2 == Turn(s1, fd, d)
<1>1. s0.k = k /\ s0.total = 0 /\ s0.done = FALSE
  BY StartFields
<1> HIDE DEF s0
<1>2. \A x : WriteTo(k, fd, x) = Returns(k, -1)
  BY WriteElsewhere
<1>3. Returns(k, -1).ret = -1 /\ -1 < 0
  <2>1. IsKernel(k)
    BY KernelParts
  <2>2. Returns(k, -1) = K(k.files, k.data, k.pipes, k.fakes, k.machine, -1, k.got)
    BY <2>1, KReturns
  <2> QED BY <2>2, SMTT(30) DEF K
<1>4. ASSUME NEW x, x # <<>>
      PROVE  LET t == Turn(s0, fd, x) IN t.k = k /\ t.total = -1 /\ t.done
  <2> DEFINE t == Turn(s0, fd, x)
             r == -1
  <2>1. WriteTo(s0.k, fd, x).ret = r /\ r < 0
    BY <1>1, <1>2, <1>3
  <2> HIDE DEF r
  <2>2. t = [k |-> k, total |-> r, done |-> TRUE]
    BY <1>1, <1>4, <2>1 DEF Turn
  <2> HIDE DEF t
  <2>3. t.k = k /\ t.total = r /\ t.done
    BY <2>2
  <2> QED BY <2>3 DEF t, r
<1>5. s2.k = k /\ s2.total = -1
  <2>1. CASE c = <<>>
    <3>1. s1 = s0
      BY <2>1, TurnSkipped
    <3> HIDE DEF s1
    <3> QED BY <1>4, <2>1, <3>1
  <2>2. CASE c # <<>>
    <3>1. s1.k = k /\ s1.total = -1 /\ s1.done
      BY <1>4, <2>2
    <3> HIDE DEF s1
    <3>2. s2 = s1
      BY <3>1, TurnSkipped
    <3> QED BY <3>1, <3>2
  <2> QED BY <2>1, <2>2
<1>6. WriteVector(k, fd, <<c, d>>) = Returns(s2.k, s2.total)
  BY VectorOfTwo DEF s0, s1
<1> QED BY <1>5, <1>6

LEMMA SetTwice ==
    ASSUME NEW f, NEW i, NEW x, NEW y
    PROVE  [[f EXCEPT ![i] = x] EXCEPT ![i] = y] = [f EXCEPT ![i] = y]
OBVIOUS
LEMMA ReturnsFields ==
    ASSUME NEW k, IsKernel(k), NEW n
    PROVE  LET r == Returns(k, n)
           IN  /\ IsKernel(r) /\ r.files = k.files /\ r.data = k.data /\ r.pipes = k.pipes
               /\ r.fakes = k.fakes /\ r.machine = k.machine /\ r.ret = n /\ r.got = k.got
<1> DEFINE r == Returns(k, n)
<1>1. r = K(k.files, k.data, k.pipes, k.fakes, k.machine, n, k.got)
  BY KReturns
<1> HIDE DEF r
<1>2. /\ IsKernel(r) /\ r.files = k.files /\ r.data = k.data /\ r.pipes = k.pipes
      /\ r.fakes = k.fakes /\ r.machine = k.machine /\ r.ret = n /\ r.got = k.got
  BY <1>1, SMTT(30) DEF K, IsKernel
<1> QED BY <1>2 DEF r

LEMMA ReturnsTwice ==
    ASSUME NEW k, IsKernel(k), NEW n, NEW m
    PROVE  Returns(Returns(k, n), m) = Returns(k, m)
<1> DEFINE r == Returns(k, n)
<1>1. /\ IsKernel(r) /\ r.files = k.files /\ r.data = k.data /\ r.pipes = k.pipes
      /\ r.fakes = k.fakes /\ r.machine = k.machine /\ r.got = k.got
  BY ReturnsFields
<1> HIDE DEF r
<1>2. Returns(r, m) = K(r.files, r.data, r.pipes, r.fakes, r.machine, m, r.got)
  BY <1>1, KReturns
<1>3. Returns(k, m) = K(k.files, k.data, k.pipes, k.fakes, k.machine, m, k.got)
  BY KReturns
<1>4. Returns(r, m) = Returns(k, m)
  BY <1>1, <1>2, <1>3
<1> QED BY <1>4 DEF r

LEMMA ReturnsSame ==
    ASSUME NEW k, IsKernel(k)
    PROVE  Returns(k, k.ret) = k
BY KReturns DEF IsKernel

LEMMA KReturnsK ==
    ASSUME NEW fs, NEW dt, NEW ps, NEW fk, NEW m, NEW r, NEW g, NEW n
    PROVE  Returns(K(fs, dt, ps, fk, m, r, g), n) = K(fs, dt, ps, fk, m, n, g)
<1> DEFINE k == K(fs, dt, ps, fk, m, r, g)
<1>1. /\ IsKernel(k) /\ k.files = fs /\ k.data = dt /\ k.pipes = ps /\ k.fakes = fk
      /\ k.machine = m /\ k.got = g
  BY SMTT(30) DEF K, IsKernel
<1> HIDE DEF k
<1>2. Returns(k, n) = K(fs, dt, ps, fk, m, n, g)
  BY <1>1, KReturns
<1> QED BY <1>2 DEF k

\* An open file with some fields replaced, and Placed in these terms.
With(of, o, s, e, d, u) ==
    [inode |-> of.inode, offset |-> o, pipe |-> of.pipe, writable |-> of.writable,
     since |-> s, seen |-> e, due |-> d, out |-> u]

At(of, x, q, z) ==
    [of EXCEPT !.offset = x, !.since = x, !.seen = q, !.due = z, !.out = z]

IsWith(of, r) == r = With(of, r.offset, r.since, r.seen, r.due, r.out)

LEMMA AtWith ==
    ASSUME NEW of, NEW r, IsWith(of, r), NEW x, NEW q, NEW z
    PROVE  At(r, x, q, z) = With(of, x, x, q, z, z)
<1> DEFINE o == r.offset
           s == r.since
           e == r.seen
           d == r.due
           u == r.out
<1>w. r = With(of, o, s, e, d, u)
  BY DEF IsWith
<1> HIDE DEF o, s, e, d, u
<1> DEFINE r1 == [r EXCEPT !.offset = x]
           r2 == [r1 EXCEPT !.since = x]
           r3 == [r2 EXCEPT !.seen = q]
           r4 == [r3 EXCEPT !.due = z]
           r5 == [r4 EXCEPT !.out = z]
<1>0. At(r, x, q, z) = r5
  BY DEF At
<1>1. r1 = With(of, x, s, e, d, u)
  BY <1>w, SMTT(30) DEF With
<1> HIDE DEF r1
<1>2. r2 = With(of, x, x, e, d, u)
  BY <1>1, SMTT(30) DEF With
<1> HIDE DEF r2
<1>3. r3 = With(of, x, x, q, d, u)
  BY <1>2, SMTT(30) DEF With
<1> HIDE DEF r3
<1>4. r4 = With(of, x, x, q, z, u)
  BY <1>3, SMTT(30) DEF With
<1> HIDE DEF r4
<1>5. r5 = With(of, x, x, q, z, z)
  BY <1>4, SMTT(30) DEF With
<1> QED BY <1>0, <1>5

\* Placing a descriptor twice is placing it where it ends.
LEMMA PlacedTwice ==
    ASSUME NEW of \in OpenFiles, NEW a, NEW b, a # 0, b # 0
    PROVE  Placed(Placed(of, a), b) = Placed(of, b)
<1>1. IsWith(of, of)
  BY DEF OpenFiles, With, IsWith
<1>2. \A p : Placed(p, a) = At(p, a, <<>>, {}) /\ Placed(p, b) = At(p, b, <<>>, {})
  BY DEF Placed, At
<1> DEFINE q == <<>>
           z == {}
           ra == With(of, a, a, q, z, z)
           rb == With(of, b, b, q, z, z)
<1> HIDE DEF q, z
<1>3. At(of, a, q, z) = ra
  BY <1>1, AtWith, SMTT(30)
<1>4. At(of, b, q, z) = rb
  BY <1>1, AtWith, SMTT(30)
<1>5. At(ra, b, q, z) = rb
  <2>1. IsWith(of, ra)
    BY SMTT(30) DEF With, IsWith
  <2> HIDE DEF ra
  <2> QED BY <2>1, AtWith, SMTT(30)
<1> HIDE DEF ra, rb
<1> QED BY <1>2, <1>3, <1>4, <1>5 DEF q, z

-----------------------------------------------------------------------------
(* sys_writev against sys_write, by what the descriptor names.             *)

LEMMA AcceptsTwo ==
    ASSUME NEW q \in Seq(Byte), Len(q) <= PipeSize, NEW c \in Seq(Byte), NEW d \in Seq(Byte),
           NEW t, Len(t) = Len(q) + Accepts(q, c)
    PROVE  /\ Accepts(q, c) < Len(c) => Accepts(q, c \o d) = Accepts(q, c)
           /\ Accepts(q, c) = Len(c) => Accepts(q, c \o d) = Accepts(q, c) + Accepts(t, d)
<1>1. Len(c \o d) = Len(c) + Len(d)
  BY Joined
<1>2. Len(q) \in Nat /\ Len(c) \in Nat /\ Len(d) \in Nat
  BY LenProperties
<1> DEFINE a == Len(q)
           b == Len(c)
           e == Len(d)
           P == PipeSize
<1>3. a \in Nat /\ b \in Nat /\ e \in Nat /\ P \in Nat /\ a <= P
  BY <1>2, Numbers
<1>4. Accepts(q, c) = Least(P - a, b) /\ Accepts(q, c \o d) = Least(P - a, b + e)
  BY <1>1 DEF Accepts
<1>5. Accepts(t, d) = Least(P - Len(t), e) /\ Len(t) = a + Accepts(q, c)
  BY DEF Accepts
<1> HIDE DEF a, b, e, P
<1>6. Least(P - a, b) < b => Least(P - a, b + e) = Least(P - a, b)
  BY <1>3, SMTT(30) DEF Least
<1>7. Least(P - a, b) = b => Least(P - a, b + e) = b + Least(P - (a + b), e)
  BY <1>3, SMTT(30) DEF Least
<1>8. ASSUME Accepts(q, c) = b
      PROVE  Accepts(q, c \o d) = Accepts(q, c) + Accepts(t, d)
  BY <1>4, <1>5, <1>7, <1>8
<1>9. Accepts(q, c) < b => Accepts(q, c \o d) = Accepts(q, c)
  BY <1>4, <1>6
<1> QED BY <1>8, <1>9 DEF b

\* The console, and what takes nothing.
LEMMA TwoElsewhere ==
    ASSUME NEW k, KernelOK(k), k.machine = "up", DataOK(data), NEW fd \in Fds,
           NEW c \in Seq(Byte), c # <<>>, Len(c) < Width,
           NEW d \in Seq(Byte), d # <<>>, Len(d) < Width,
           \/ fd \in {1, 2} \/ k.files[fd] = None
           \/ k.files[fd].pipe = None /\ k.files[fd].inode = None
    PROVE  WriteVector(k, fd, <<c, d>>) = WriteTo(k, fd, c \o d)
<1>0. IsKernel(k)
  BY KernelParts
<1>1. Len(c) \in Nat /\ Len(d) \in Nat /\ Len(c) > 0 /\ Len(c \o d) = Len(c) + Len(d)
  <2>1. Len(c) \in Nat /\ Len(d) \in Nat /\ Len(c \o d) = Len(c) + Len(d)
    BY Joined, LenProperties
  <2>2. Len(c) # 0
    BY EmptySeq
  <2> QED BY <2>1, <2>2, SMTT(30)
<1>2. CASE fd \in {1, 2}
  <2> DEFINE lc == Len(c)
             ld == Len(d)
             w1 == WriteTo(k, fd, c)
             w2 == WriteTo(w1, fd, d)
  <2>1. w1 = Returns(k, lc) /\ WriteTo(k, fd, c \o d) = Returns(k, lc + ld)
    BY <1>1, <1>2, WriteElsewhere
  <2>2. KernelOK(w1)
    BY WriteToOK
  <2>3. w1.ret = lc /\ w1.machine = "up" /\ IsKernel(w1)
    <3> HIDE DEF w1
    <3> QED BY <1>0, <2>1, ReturnsFields
  <2>4. w2 = Returns(w1, ld)
    <3> HIDE DEF w1
    <3> QED BY <1>2, <2>2, WriteElsewhere
  <2>5. w2.ret = ld
    <3> HIDE DEF w1, w2
    <3> QED BY <2>3, <2>4, ReturnsFields
  <2>6. Returns(w2, lc + ld) = Returns(k, lc + ld)
    <3> HIDE DEF w1, w2
    <3>1. w2 = Returns(k, ld)
      BY <1>0, <2>1, <2>4, ReturnsTwice
    <3> QED BY <1>0, <3>1, ReturnsTwice
  <2>7. WriteVector(k, fd, <<c, d>>) = Returns(w2, lc + w2.ret)
    <3>1. w2.ret \in Nat
      BY <1>1, <2>5
    <3> QED BY <1>1, <2>3, <3>1, VectorFull
  <2> HIDE DEF w1, w2
  <2> QED BY <2>1, <2>5, <2>6, <2>7
<1>3. CASE fd \notin {1, 2} /\ k.files[fd] = None
  BY <1>3, VectorBad, WriteElsewhere
<1>4. CASE fd \notin {1, 2} /\ k.files[fd] # None
  <2> DEFINE w == Returns(k, 0)
  <2>1. WriteTo(k, fd, c) = w /\ WriteTo(k, fd, c \o d) = w
    BY <1>4, WriteElsewhere
  <2>2. w.ret = 0 /\ IsKernel(w)
    BY <1>0, ReturnsFields
  <2>3. 0 < Len(c) /\ 0 \in Nat
    BY <1>1, SMTT(30)
  <2> HIDE DEF w
  <2>4. WriteVector(k, fd, <<c, d>>) = Returns(w, w.ret)
    BY <2>1, <2>2, <2>3, VectorShort
  <2> QED BY <2>1, <2>2, <2>4, ReturnsSame
<1> QED BY <1>2, <1>3, <1>4

\* A pipe takes the first bytes of both, as many as fit.
LEMMA TwoToPipe ==
    ASSUME NEW k, KernelOK(k), k.machine = "up", DataOK(data), NEW fd \in Fds,
           NEW c \in Seq(Byte), c # <<>>, Len(c) < Width,
           NEW d \in Seq(Byte), d # <<>>, Len(d) < Width,
           fd \notin {1, 2}, k.files[fd] # None, k.files[fd].pipe # None
    PROVE  WriteVector(k, fd, <<c, d>>) = WriteTo(k, fd, c \o d)
<1> DEFINE p == k.files[fd].pipe
           q == k.pipes[p]
           n == Accepts(q, c)
           s == SubSeq(c, 1, n)
           t == q \o s
           ps == [k.pipes EXCEPT ![p] = t]
           w1 == WriteTo(k, fd, c)
           e == c \o d
           w == WriteTo(k, fd, e)
           ne == Accepts(q, e)
           te == q \o SubSeq(e, 1, ne)
<1>1. /\ p \in DOMAIN k.pipes /\ q \in Seq(Byte) /\ Len(q) <= PipeSize
      /\ n \in Nat /\ n <= Len(c) /\ Len(t) = Len(q) + n
      /\ w1 = K(k.files, k.data, ps, k.fakes, k.machine, n, k.got)
  BY WritePipe
<1>2. e \in Seq(Byte)
  BY Joined
<1>3. w = K(k.files, k.data, [k.pipes EXCEPT ![p] = te], k.fakes, k.machine, ne, k.got)
  <2> HIDE DEF e
  <2> QED BY <1>2, WritePipe
<1>4. /\ IsKernel(w1) /\ w1.files = k.files /\ w1.data = k.data /\ w1.pipes = ps
      /\ w1.fakes = k.fakes /\ w1.machine = "up" /\ w1.ret = n /\ w1.got = k.got
  <2> HIDE DEF w1, ps, n
  <2> QED BY <1>1, SMTT(30) DEF K, IsKernel
<1>5. KernelOK(w1)
  BY WriteToOK
<1>6. Len(c) \in Nat
  BY LenProperties
<1>r. n \in Nat /\ n <= Len(c)
  BY <1>1
<1>a. (n < Len(c) => ne = n) /\ (n = Len(c) => ne = n + Accepts(t, d))
  <2>1. q \in Seq(Byte) /\ Len(q) <= PipeSize /\ Len(t) = Len(q) + n
    BY <1>1
  <2> HIDE DEF q, t
  <2> QED BY <2>1, AcceptsTwo, SMTT(30)
<1>7. CASE n < Len(c)
  <2>1. ne = n
    BY <1>7, <1>a
  <2>2. SubSeq(e, 1, n) = s
    <3> HIDE DEF n
    <3> QED BY <1>1, FirstOfTwo
  <2> HIDE DEF ne, e
  <2>3. te = t
    BY <2>1, <2>2
  <2>4. w = w1
    BY <1>1, <1>3, <2>1, <2>3
  <2>5. WriteVector(k, fd, <<c, d>>) = Returns(w1, w1.ret)
    <3>1. w1.ret \in Nat /\ w1.ret < Len(c)
      <4> HIDE DEF w1, n
      <4> QED BY <1>r, <1>4, <1>7
    <3> QED BY <3>1, VectorShort
  <2> HIDE DEF w1, n, w
  <2> QED BY <1>4, <2>4, <2>5, ReturnsSame DEF w, e
<1>8. CASE ~(n < Len(c))
  <2>1. n = Len(c)
    <3> HIDE DEF n
    <3> QED BY <1>6, <1>8, <1>r, SMTT(30)
  <2> DEFINE w2 == WriteTo(w1, fd, d)
             m == Accepts(t, d)
             u == t \o SubSeq(d, 1, m)
  <2>2. ne = n + m
    BY <2>1, <1>a
  <2>3. w1.pipes[p] = t
    BY <1>1, <1>4
  <2>4. /\ m \in Nat /\ m <= Len(d)
        /\ w2 = K(k.files, k.data, [ps EXCEPT ![p] = u], k.fakes, "up", m, k.got)
    <3> DEFINE pp == w1.files[fd].pipe
               qq == w1.pipes[pp]
               mm == Accepts(qq, d)
               uu == qq \o SubSeq(d, 1, mm)
    <3>0. w1.files = k.files /\ pp = p /\ qq = t
      BY <1>4, <2>3
    <3>1. /\ mm \in Nat /\ mm <= Len(d)
          /\ w2 = K(w1.files, w1.data, [w1.pipes EXCEPT ![pp] = uu], w1.fakes, w1.machine, mm, w1.got)
      <4>1. w1.files[fd] # None /\ w1.files[fd].pipe # None
        BY <3>0
      <4> HIDE DEF w1
      <4> QED BY <1>5, <4>1, WritePipe
    <3> HIDE DEF w1, ps, t, pp, qq, p, w2
    <3>2. mm = m /\ uu = u
      BY <3>0
    <3> HIDE DEF mm, m, uu, u
    <3> QED BY <1>4, <3>0, <3>1, <3>2
  <2>5. [ps EXCEPT ![p] = u] = [k.pipes EXCEPT ![p] = u]
    <3> HIDE DEF t, u, p
    <3> QED BY SetTwice
  <2>6. u = te
    <3> HIDE DEF m, q
    <3>1. (q \o SubSeq(c, 1, Len(c))) \o SubSeq(d, 1, m) = q \o SubSeq(c \o d, 1, Len(c) + m)
      BY <1>1, <2>4, RestOfTwo
    <3>2. ne = Len(c) + m /\ t = q \o SubSeq(c, 1, Len(c))
      BY <2>1, <2>2
    <3> HIDE DEF ne, t
    <3> QED BY <3>1, <3>2
  <2>7. /\ IsKernel(w2) /\ w2.files = k.files /\ w2.data = k.data
        /\ w2.pipes = [ps EXCEPT ![p] = u]
        /\ w2.fakes = k.fakes /\ w2.machine = "up" /\ w2.ret = m /\ w2.got = k.got
    <3> DEFINE qs == [ps EXCEPT ![p] = u]
    <3>1. w2 = K(k.files, k.data, qs, k.fakes, "up", m, k.got)
      BY <2>4
    <3> HIDE DEF w2, m, qs
    <3>2. /\ IsKernel(w2) /\ w2.files = k.files /\ w2.data = k.data /\ w2.pipes = qs
          /\ w2.fakes = k.fakes /\ w2.machine = "up" /\ w2.ret = m /\ w2.got = k.got
      BY <3>1, SMTT(30) DEF K, IsKernel
    <3> QED BY <3>2 DEF qs
  <2>8. WriteVector(k, fd, <<c, d>>) = Returns(w2, Len(c) + w2.ret)
    <3>1. w2.ret \in Nat
      <4> HIDE DEF w2, m
      <4> QED BY <2>4, <2>7
    <3>2. w1.ret = Len(c)
      <4> HIDE DEF w1, n
      <4> QED BY <1>4, <2>1
    <3>3. w1.machine = "up"
      BY <1>4
    <3> QED BY <1>6, <3>1, <3>2, <3>3, VectorFull
  <2> DEFINE pe == [k.pipes EXCEPT ![p] = te]
             all == n + m
  <2>9. w2.pipes = pe
    <3> HIDE DEF w2, u, te, ps
    <3> QED BY <2>5, <2>6, <2>7
  <2>10. w = K(k.files, k.data, pe, k.fakes, "up", all, k.got)
    BY <1>3, <2>2
  <2> HIDE DEF pe, w, w2, all
  <2>11. Returns(w2, all) = K(k.files, k.data, pe, k.fakes, "up", all, k.got)
    <3>1. Returns(w2, all) =
            K(w2.files, w2.data, w2.pipes, w2.fakes, w2.machine, all, w2.got)
      BY <2>7, KReturns
    <3>2. /\ w2.files = k.files /\ w2.data = k.data
          /\ w2.fakes = k.fakes /\ w2.machine = "up" /\ w2.got = k.got
      BY <2>7
    <3> QED BY <2>9, <3>1, <3>2
  <2>12. WriteVector(k, fd, <<c, d>>) = Returns(w2, all)
    <3> HIDE DEF n, m
    <3> QED BY <2>1, <2>7, <2>8 DEF all
  <2>13. WriteVector(k, fd, <<c, d>>) = w
    BY <2>10, <2>11, <2>12
  <2> QED BY <2>13 DEF w, e
<1> QED BY <1>7, <1>8

\* A file takes both, one after the other, or the kernel panics.
LEMMA TwoToFile ==
    ASSUME NEW k, KernelOK(k), k.machine = "up", k.ret \in Nat, DataOK(data), NEW fd \in Fds,
           NEW c \in Seq(Byte), c # <<>>, Len(c) < Width,
           NEW d \in Seq(Byte), d # <<>>, Len(d) < Width, Len(c \o d) < Width,
           fd \notin {1, 2}, k.files[fd] # None,
           k.files[fd].pipe = None, k.files[fd].inode # None
    PROVE  LET v == WriteVector(k, fd, <<c, d>>)
               w == WriteTo(k, fd, c \o d)
           IN  IF v.machine = "up" THEN v = w ELSE w.machine = v.machine
<1> DEFINE of   == k.files[fd]
           path == of.inode
           off  == of.offset
           b    == k.data[path].bytes
           st   == k.data[path].static
           lc   == Len(c)
           ld   == Len(d)
           e    == c \o d
           le   == Len(e)
           v    == WriteVector(k, fd, <<c, d>>)
           w    == WriteTo(k, fd, e)
           w1   == WriteTo(k, fd, c)
           w2   == WriteTo(w1, fd, d)
           P1   == Patched(b, off, c)
           du   == WithData(k, path, P1)
           o1   == Moved(of, lc)
<1>1. lc \in Nat /\ ld \in Nat /\ lc > 0 /\ ld > 0 /\ e \in Seq(Byte) /\ le = lc + ld /\ le > 0
  <2>1. lc \in Nat /\ ld \in Nat /\ e \in Seq(Byte) /\ le = lc + ld
    BY Joined, LenProperties
  <2>2. lc # 0 /\ ld # 0
    BY EmptySeq
  <2> HIDE DEF lc, ld, le
  <2> QED BY <2>1, <2>2, SMTT(30)
<1>2. /\ FileOK(of, k.data, k.pipes)
      /\ path \in DOMAIN k.data /\ off \in Nat /\ off < Width
      /\ st => w1 = K(k.files, k.data, k.pipes, k.fakes, "up", 0, k.got)
      /\ ~st /\ off + lc > MaxSize =>
            w1 = K(k.files, k.data, k.pipes, k.fakes, "panic", k.ret, k.got)
      /\ ~st /\ off + lc <= MaxSize /\ lc > 0 =>
            w1 = K([k.files EXCEPT ![fd] = o1], du, k.pipes, k.fakes, "up", lc, k.got)
  BY WriteFile
<1>3. /\ st => w = K(k.files, k.data, k.pipes, k.fakes, "up", 0, k.got)
      /\ ~st /\ off + le > MaxSize =>
            w = K(k.files, k.data, k.pipes, k.fakes, "panic", k.ret, k.got)
      /\ ~st /\ off + le <= MaxSize /\ le > 0 =>
            w = K([k.files EXCEPT ![fd] = Moved(of, le)], WithData(k, path, Patched(b, off, e)),
                  k.pipes, k.fakes, "up", le, k.got)
  <2>1. Len(e) < Width
    OBVIOUS
  <2> HIDE DEF e
  <2> QED BY <1>1, <2>1, WriteFile
<1>4. off + lc > MaxSize => off + le > MaxSize
  <2> HIDE DEF off, lc, ld, le
  <2> QED BY <1>1, <1>2, Numbers, SMTT(30)
<1>5. CASE st
  <2>1. w1 = w
    BY <1>2, <1>3, <1>5
  <2>2. w1.ret = 0 /\ IsKernel(w1) /\ w1.machine = "up"
    <3>1. w1 = K(k.files, k.data, k.pipes, k.fakes, "up", 0, k.got)
      BY <1>2, <1>5
    <3> HIDE DEF w1
    <3> QED BY <3>1, SMTT(30) DEF K, IsKernel
  <2>3. w1.ret \in Nat /\ w1.ret < lc
    <3> HIDE DEF w1, lc
    <3> QED BY <1>1, <2>2, SMTT(30)
  <2>4. v = Returns(w1, w1.ret)
    BY <2>3, VectorShort
  <2> HIDE DEF w1, v, w
  <2>5. v = w
    BY <2>1, <2>2, <2>4, ReturnsSame
  <2>6. IF v.machine = "up" THEN v = w ELSE w.machine = v.machine
    BY <2>5
  <2> QED BY <2>6 DEF v, w, e
<1>6. CASE ~st /\ off + lc > MaxSize
  <2>1. w1 = K(k.files, k.data, k.pipes, k.fakes, "panic", k.ret, k.got)
    BY <1>2, <1>6
  <2>2. w = K(k.files, k.data, k.pipes, k.fakes, "panic", k.ret, k.got)
    BY <1>3, <1>4, <1>6
  <2>3. w1.ret \in Nat /\ IsKernel(w1) /\ w1.machine = "panic" /\ "panic" # "up"
    <3> HIDE DEF w1
    <3> QED BY <2>1, SMTT(30) DEF K, IsKernel
  <2>4. v = Returns(w1, w1.ret)
    BY <2>3, VectorShort
  <2> HIDE DEF w1, v, w
  <2>5. v = w1 /\ w1 = w
    BY <2>1, <2>2, <2>3, <2>4, ReturnsSame
  <2>6. IF v.machine = "up" THEN v = w ELSE w.machine = v.machine
    BY <2>5
  <2> QED BY <2>6 DEF v, w, e
<1>7. CASE ~st /\ ~(off + lc > MaxSize)
  <2>0. off + lc <= MaxSize
    <3>1. off \in Nat /\ lc \in Nat /\ ~(off + lc > MaxSize)
      BY <1>1, <1>2, <1>7
    <3> HIDE DEF off, lc
    <3> QED BY <3>1, Numbers, SMTT(30)
  <2> DEFINE gs == [k.files EXCEPT ![fd] = o1]
  <2>1. w1 = K(gs, du, k.pipes, k.fakes, "up", lc, k.got)
    BY <1>1, <1>2, <1>7, <2>0
  <2>2. /\ IsKernel(w1) /\ w1.files = gs /\ w1.data = du /\ w1.pipes = k.pipes
        /\ w1.fakes = k.fakes /\ w1.machine = "up" /\ w1.ret = lc /\ w1.got = k.got
    <3> HIDE DEF w1, gs, du, lc
    <3> QED BY <2>1, SMTT(30) DEF K, IsKernel
  <2>3. KernelOK(w1)
    BY WriteToOK
  <2>4. /\ ~du[path].static /\ du[path].bytes = P1 /\ P1 \in Seq(Byte) /\ b \in Seq(Byte)
    <3>1. ~du[path].static /\ du[path].bytes = P1
      <4> HIDE DEF path, off
      <4> DEFINE un == WithData(k, path, Patched(k.data[path].bytes, off, c))
      <4>1. path \in DOMAIN k.data /\ ~k.data[path].static /\ off \in Nat /\ off + Len(c) <= MaxSize
        BY <1>2, <1>7, <2>0
      <4>2. /\ DataOK(un) /\ FilesOK(k.files, un, k.pipes)
            /\ DOMAIN un = DOMAIN k.data
            /\ \A q \in DOMAIN k.data : q # path => un[q] = k.data[q]
            /\ un[path].bytes = Patched(k.data[path].bytes, off, c)
            /\ ~un[path].static
        BY <4>1, WriteDataOK
      <4> QED BY <4>2
    <3>2. b \in Seq(Byte)
      BY <1>2, KernelParts, BytesOf
    <3>3. P1 \in Seq(Byte)
      <4> HIDE DEF off, b
      <4> QED BY <1>2, <3>2, PatchedFacts
    <3> QED BY <3>1, <3>2, <3>3
  <2>5. of \in OpenFiles
    BY <1>2 DEF FileOK
  <2>6. /\ off + lc \in 0..(Width - 1) /\ off + lc # 0
        /\ (off + lc) + ld = off + le /\ off + le # 0
    <3> HIDE DEF off, lc, ld, le
    <3> QED BY <1>1, <1>2, <2>0, Numbers, SMTT(30)
  <2>7. o1 \in OpenFiles /\ o1.inode = path /\ o1.pipe = None /\ o1.offset = off + lc
    <3> DEFINE x == off + lc
    <3>1. Names(of.inode) \subseteq Segments
      BY <2>5, OpenFields, NamesFacts
    <3>2. o1 = Placed(of, x)
      BY DEF Moved
    <3>3. x \in 0..(Width - 1)
      BY <2>6
    <3> HIDE DEF x, o1, of
    <3>4. o1 \in OpenFiles /\ o1.inode = of.inode /\ o1.pipe = of.pipe /\ o1.offset = x
      BY <2>5, <3>1, <3>2, <3>3, PlacedFields
    <3> QED BY <3>4 DEF x, of
  <2>8. w1.files[fd] = o1 /\ o1 # None
    <3>1. fd \in DOMAIN k.files
      BY KernelParts DEF FilesOK
    <3> HIDE DEF o1, w1
    <3> QED BY <2>2, <2>7, <3>1, NoneFacts
  <2> DEFINE on == w1.files[fd]
             pn == on.inode
             fn == on.offset
             dn == WithData(w1, pn, Patched(w1.data[pn].bytes, fn, d))
             sn == w1.data[pn].static
  <2>9. on = o1 /\ pn = path /\ fn = off + lc /\ ~sn /\ w1.data[pn].bytes = P1 /\ on.pipe = None
        /\ pn # None /\ on # None
    <3> HIDE DEF o1, w1, du, off, lc, P1
    <3>1. on = o1 /\ on # None
      BY <2>8
    <3>2. pn = path /\ fn = off + lc /\ on.pipe = None
      <4> HIDE DEF on, path
      <4> QED BY <2>7, <3>1 DEF on
    <3> HIDE DEF pn, path
    <3>3. ~sn /\ w1.data[pn].bytes = P1
      BY <2>2, <2>4, <3>2
    <3> QED BY <3>1, <3>2, <3>3 DEF path
  <2>10. /\ ~sn /\ fn + ld > MaxSize =>
              w2 = K(w1.files, w1.data, w1.pipes, w1.fakes, "panic", w1.ret, w1.got)
         /\ ~sn /\ fn + ld <= MaxSize /\ ld > 0 =>
              w2 = K([w1.files EXCEPT ![fd] = Moved(on, ld)], dn,
                     w1.pipes, w1.fakes, "up", ld, w1.got)
    <3>1. on.pipe = None /\ on.inode # None /\ on # None
      BY <2>9
    <3> HIDE DEF w1
    <3> QED BY <2>2, <2>3, <3>1, WriteFile
  <2>11. fn + ld = off + le
    <3> HIDE DEF fn, off, lc, le, ld
    <3> QED BY <2>6, <2>9
  <2>12. w1.ret = lc /\ lc \in Nat /\ w1.machine = "up"
    BY <1>1, <2>2
  <2>13. w2.ret \in Nat => v = Returns(w2, lc + w2.ret)
    BY <2>12, VectorFull
  <2>14. CASE off + le > MaxSize
    <3>1. w2 = K(w1.files, w1.data, w1.pipes, w1.fakes, "panic", w1.ret, w1.got)
      <4> HIDE DEF w1, w2, fn, sn, off, le
      <4> QED BY <2>9, <2>10, <2>11, <2>14
    <3>2. w2.ret = w1.ret /\ IsKernel(w2) /\ w2.machine = "panic" /\ "panic" # "up"
      <4> HIDE DEF w1, w2
      <4> QED BY <3>1, SMTT(30) DEF K, IsKernel
    <3>3. w.machine = "panic"
      <4>1. w = K(k.files, k.data, k.pipes, k.fakes, "panic", k.ret, k.got)
        BY <1>3, <1>7, <2>14
      <4> HIDE DEF w
      <4> QED BY <4>1, SMTT(30) DEF K
    <3>4. v = Returns(w2, lc + w2.ret)
      <4> HIDE DEF w1, w2, lc, v
      <4> QED BY <2>12, <2>13, <3>2
    <3>5. v.machine = "panic"
      <4> DEFINE n == lc + w2.ret
      <4> HIDE DEF w2, n, v
      <4>1. v = Returns(w2, n)
        BY <3>4 DEF n
      <4>2. Returns(w2, n).machine = w2.machine
        BY <3>2, ReturnsFields, SMTT(30)
      <4> QED BY <3>2, <4>1, <4>2
    <3> HIDE DEF v, w
    <3>6. IF v.machine = "up" THEN v = w ELSE w.machine = v.machine
      BY <3>2, <3>3, <3>5
    <3> QED BY <3>6 DEF v, w, e
  <2>15. CASE ~(off + le > MaxSize)
    <3>0. off + le <= MaxSize
      <4>1. off \in Nat /\ le \in Nat /\ ~(off + le > MaxSize)
        BY <1>1, <1>2, <2>15, LenProperties
      <4> HIDE DEF off, le, lc, ld
      <4> QED BY <4>1, Numbers, SMTT(30)
    <3> DEFINE hs == [k.files EXCEPT ![fd] = Moved(of, le)]
               de == WithData(k, path, Patched(b, off, e))
    <3>1. w = K(hs, de, k.pipes, k.fakes, "up", le, k.got)
      BY <1>1, <1>3, <1>7, <3>0
    <3>2. [w1.files EXCEPT ![fd] = Moved(on, ld)] = hs
      <4>1. Moved(on, ld) = Moved(of, le)
        <5> DEFINE x == off + lc
                   y == off + le
        <5>1. Moved(of, le) = Placed(of, y) /\ o1 = Placed(of, x)
          BY DEF Moved
        <5>2. on = o1 /\ on.offset + ld = y /\ x # 0 /\ y # 0
          BY <2>6, <2>9, <2>11
        <5>3. Moved(on, ld) = Placed(on, y)
          <6> HIDE DEF on, y, ld
          <6> QED BY <5>2 DEF Moved
        <5> HIDE DEF on, o1, x, y, of, le, ld
        <5>4. Placed(Placed(of, x), y) = Placed(of, y)
          BY <2>5, <5>2, PlacedTwice
        <5> QED BY <5>1, <5>2, <5>3, <5>4
      <4> DEFINE z == Moved(of, le)
      <4> HIDE DEF on, w1, o1, z
      <4>2. [gs EXCEPT ![fd] = z] = [k.files EXCEPT ![fd] = z]
        BY SetTwice
      <4> HIDE DEF gs
      <4> QED BY <2>2, <4>1, <4>2 DEF z
    <3>3. dn = de
      <4> DEFINE Pn == Patched(w1.data[pn].bytes, fn, d)
                 Pe == Patched(b, off, e)
                 x  == [static |-> FALSE, bytes |-> Pe]
                 x1 == [static |-> FALSE, bytes |-> P1]
      <4>1. Pn = Pe
        <5>1. Patched(P1, off + lc, d) = Pe
          <6> HIDE DEF off, b
          <6>1. off \in Nat /\ b \in Seq(Byte)
            BY <1>2, <2>4
          <6> QED BY <6>1, PatchedTwice, SMTT(30)
        <5>2. Pn = Patched(P1, off + lc, d)
          <6> HIDE DEF w1, pn, fn, P1, off, lc
          <6> QED BY <2>9
        <5> QED BY <5>1, <5>2
      <4>2. dn = [w1.data EXCEPT ![pn] = [static |-> FALSE, bytes |-> Pn]]
        BY DEF WithData
      <4>3. w1.data = [k.data EXCEPT ![path] = x1]
        <5>1. du = [k.data EXCEPT ![path] = x1]
          BY DEF WithData
        <5> HIDE DEF w1, du
        <5> QED BY <2>2, <5>1
      <4>4. de = [k.data EXCEPT ![path] = x]
        BY DEF WithData
      <4>5. pn = path
        BY <2>9
      <4> HIDE DEF pn, path, dn, Pn, Pe, x1, de, w1
      <4>6. dn = [w1.data EXCEPT ![path] = x]
        BY <4>1, <4>2, <4>5
      <4> HIDE DEF x
      <4>7. dn = [[k.data EXCEPT ![path] = x1] EXCEPT ![path] = x]
        BY <4>3, <4>6
      <4> QED BY <4>4, <4>7, SetTwice
    <3>4. w2 = K(hs, de, k.pipes, k.fakes, "up", ld, k.got)
      <4>1. fn + ld <= MaxSize
        <5> HIDE DEF fn, ld, off, le
        <5> QED BY <2>11, <3>0
      <4>2. w2 = K([w1.files EXCEPT ![fd] = Moved(on, ld)], dn, w1.pipes, w1.fakes, "up", ld, w1.got)
        BY <1>1, <2>9, <2>10, <4>1
      <4>3. w1.pipes = k.pipes /\ w1.fakes = k.fakes /\ w1.got = k.got
        BY <2>2
      <4> DEFINE h1 == [w1.files EXCEPT ![fd] = Moved(on, ld)]
      <4> HIDE DEF h1, hs, dn, de, w1, w2, ld
      <4>4. h1 = hs
        BY <3>2 DEF h1
      <4> QED BY <3>3, <4>2, <4>3, <4>4 DEF h1
    <3>5. /\ IsKernel(w2) /\ w2.files = hs /\ w2.data = de /\ w2.pipes = k.pipes
          /\ w2.fakes = k.fakes /\ w2.machine = "up" /\ w2.ret = ld /\ w2.got = k.got
      <4> HIDE DEF w2, hs, de, ld
      <4> QED BY <3>4, SMTT(30) DEF K, IsKernel
    <3>6. v = Returns(w2, le)
      <4>1. w2.ret = ld /\ ld \in Nat /\ le = lc + ld
        BY <1>1, <3>5
      <4> HIDE DEF w2, lc, ld, le, v
      <4> QED BY <2>13, <4>1
    <3> HIDE DEF v, w, w2, hs, de, le
    <3>7. Returns(w2, le) = K(w2.files, w2.data, w2.pipes, w2.fakes, w2.machine, le, w2.got)
      BY <3>5, KReturns
    <3>8. v = w
      BY <3>1, <3>5, <3>6, <3>7
    <3>9. IF v.machine = "up" THEN v = w ELSE w.machine = v.machine
      BY <3>8
    <3> QED BY <3>9 DEF v, w, e
  <2> QED BY <2>14, <2>15
<1> QED BY <1>5, <1>6, <1>7

\* Only a descriptor that is not open makes sys_write fail.
LEMMA WriteRet ==
    ASSUME NEW k, KernelOK(k), k.machine = "up", k.ret \in Nat, NEW fd \in Fds,
           NEW chunk \in Seq(Byte), Len(chunk) < Width,
           fd \in {1, 2} \/ k.files[fd] # None
    PROVE  WriteTo(k, fd, chunk).ret \in Nat
<1> DEFINE w == WriteTo(k, fd, chunk)
           len == Len(chunk)
<1>0. IsKernel(k) /\ 0 \in Nat /\ len \in Nat /\ (len = 0 \/ len > 0)
  <2>1. IsKernel(k) /\ len \in Nat
    BY KernelParts, LenProperties
  <2> HIDE DEF len
  <2> QED BY <2>1, SMTT(30)
<1>1. CASE \/ fd \in {1, 2}
           \/ k.files[fd].pipe = None /\ k.files[fd].inode = None
  <2> DEFINE n == IF fd \in {1, 2} THEN len ELSE IF k.files[fd] = None THEN -1 ELSE 0
  <2>1. w = Returns(k, n)
    BY <1>1, WriteElsewhere
  <2>2. n \in Nat
    <3> HIDE DEF len
    <3> QED BY <1>0, <1>1
  <2> HIDE DEF w, n
  <2>3. Returns(k, n).ret = n
    BY <1>0, ReturnsFields
  <2> QED BY <2>1, <2>2, <2>3 DEF w
<1>2. CASE fd \notin {1, 2} /\ k.files[fd] # None /\ k.files[fd].pipe # None
  <2> DEFINE p  == k.files[fd].pipe
             n  == Accepts(k.pipes[p], chunk)
             ps == [k.pipes EXCEPT ![p] = k.pipes[p] \o SubSeq(chunk, 1, n)]
  <2>1. n \in Nat /\ w = K(k.files, k.data, ps, k.fakes, k.machine, n, k.got)
    BY <1>2, WritePipe
  <2> HIDE DEF w, n, ps
  <2>2. w.ret = n
    BY <2>1, SMTT(30) DEF K
  <2> QED BY <2>1, <2>2 DEF w
<1>3. CASE fd \notin {1, 2} /\ k.files[fd] # None /\ k.files[fd].pipe = None /\ k.files[fd].inode # None
  <2> DEFINE of   == k.files[fd]
             path == of.inode
             off  == of.offset
             du   == WithData(k, path, Patched(k.data[path].bytes, off, chunk))
             st   == k.data[path].static
             gs   == [k.files EXCEPT ![fd] = Moved(of, len)]
  <2>1. /\ off \in Nat
        /\ st => w = K(k.files, k.data, k.pipes, k.fakes, "up", 0, k.got)
        /\ ~st /\ off + len > MaxSize =>
             w = K(k.files, k.data, k.pipes, k.fakes, "panic", k.ret, k.got)
        /\ ~st /\ off + len <= MaxSize /\ len = 0 =>
             w = K(k.files, du, k.pipes, k.fakes, "up", 0, k.got)
        /\ ~st /\ off + len <= MaxSize /\ len > 0 =>
             w = K(gs, du, k.pipes, k.fakes, "up", len, k.got)
    BY <1>3, WriteFile
  <2>2. off + len > MaxSize \/ off + len <= MaxSize
    <3>1. off \in Nat
      BY <2>1
    <3> HIDE DEF off, len
    <3> QED BY <1>0, <3>1, Numbers, SMTT(30)
  <2> HIDE DEF w, du, st, off, gs, len
  <2>3. \E fs, dt, m, r : r \in Nat /\ w = K(fs, dt, k.pipes, k.fakes, m, r, k.got)
    BY <1>0, <2>1, <2>2
  <2>4. PICK fs, dt, m, r : r \in Nat /\ w = K(fs, dt, k.pipes, k.fakes, m, r, k.got)
    BY <2>3
  <2>5. w.ret = r
    BY <2>4, SMTT(30) DEF K
  <2> QED BY <2>4, <2>5 DEF w
<1> QED BY <1>1, <1>2, <1>3

LEMMA VectorIsWrite ==
    ASSUME NEW k, KernelOK(k), k.machine = "up", k.ret \in Nat, DataOK(data), NEW fd \in Fds,
           NEW c \in Seq(Byte), Len(c) < Width, NEW d \in Seq(Byte), Len(d) < Width,
           c \o d # <<>>, Len(c \o d) < Width
    PROVE  LET v == WriteVector(k, fd, <<c, d>>)
               w == WriteTo(k, fd, c \o d)
           IN  IF v.machine = "up" THEN v = w ELSE w.machine = v.machine
<1> DEFINE v == WriteVector(k, fd, <<c, d>>)
           w == WriteTo(k, fd, c \o d)
<1>1. CASE c # <<>> /\ d # <<>>
  <2>1. CASE \/ fd \in {1, 2} \/ k.files[fd] = None
             \/ k.files[fd].pipe = None /\ k.files[fd].inode = None
    BY <1>1, <2>1, TwoElsewhere
  <2>2. CASE fd \notin {1, 2} /\ k.files[fd] # None /\ k.files[fd].pipe # None
    BY <1>1, <2>2, TwoToPipe
  <2>3. CASE /\ fd \notin {1, 2} /\ k.files[fd] # None
             /\ k.files[fd].pipe = None /\ k.files[fd].inode # None
    BY <1>1, <2>3, TwoToFile
  <2> QED BY <2>1, <2>2, <2>3
<1>2. CASE c = <<>> \/ d = <<>>
  <2>1. \/ c # <<>> /\ d = <<>> /\ c \o d = c
        \/ c = <<>> /\ d # <<>> /\ c \o d = d
    BY <1>2, JoinedEmpty
  <2>2. CASE fd \notin {1, 2} /\ k.files[fd] = None
    <3>1. v = Returns(k, -1)
      BY <2>1, <2>2, VectorBad
    <3>2. w = Returns(k, -1)
      BY <2>2, WriteElsewhere
    <3> QED BY <3>1, <3>2
  <2>3. CASE fd \in {1, 2} \/ k.files[fd] # None
    <3> DEFINE x == c \o d
    <3>1. x \in Seq(Byte) /\ Len(x) < Width
      BY <2>1
    <3> HIDE DEF x
    <3>2. WriteTo(k, fd, x).ret \in Nat /\ KernelOK(WriteTo(k, fd, x))
      BY <2>3, <3>1, WriteRet, WriteToOK
    <3>3. v = Returns(WriteTo(k, fd, x), WriteTo(k, fd, x).ret)
      <4>1. CASE c # <<>> /\ d = <<>> /\ x = c
        BY <3>2, <4>1, VectorShort
      <4>2. CASE c = <<>> /\ d # <<>> /\ x = d
        BY <3>2, <4>2, VectorEmpty
      <4> QED BY <2>1, <4>1, <4>2 DEF x
    <3>4. v = WriteTo(k, fd, x)
      BY <3>2, <3>3, KernelParts, ReturnsSame
    <3> QED BY <3>4 DEF x
  <2> QED BY <2>2, <2>3
<1> QED BY <1>1, <1>2

LEMMA InvWritev == IInv => WritevIsWrite
<1> SUFFICES ASSUME IInv, machine = "up", NEW fd \in Fds, NEW c \in Chunks, NEW d \in Chunks,
                    c \o d # <<>>
             PROVE  LET v == WriteVector(Kernel, fd, <<c, d>>)
                        w == WriteTo(Kernel, fd, c \o d)
                    IN  IF v.machine = "up" THEN v = w ELSE w.machine = v.machine
  BY DEF WritevIsWrite
<1>1. KernelOK(Kernel) /\ Kernel.machine = "up" /\ DataOK(data)
  BY KernelNow, KernelUp, InvParts
<1>2. Kernel.ret \in Nat
  <2>1. Kernel.ret = 0
    BY DEF Kernel
  <2> QED BY <2>1, SMTT(30)
<1>3. c \in Seq(Byte) /\ Len(c) < Width /\ d \in Seq(Byte) /\ Len(d) < Width
  BY ChunkFacts
<1>4. Len(c \o d) < Width
  <2>1. Len(c \o d) = Len(c) + Len(d) /\ Len(c) \in Nat /\ Len(d) \in Nat
    BY <1>3, Joined, LenProperties
  <2>2. 2 * Len(c) < Width /\ 2 * Len(d) < Width
    BY FilesAssumption
  <2> QED BY <2>1, <2>2, Numbers, SMTT(30)
<1> DEFINE k == Kernel
<1> HIDE DEF k
<1>5. LET v == WriteVector(k, fd, <<c, d>>)
          w == WriteTo(k, fd, c \o d)
      IN  IF v.machine = "up" THEN v = w ELSE w.machine = v.machine
  BY <1>1, <1>2, <1>3, <1>4, VectorIsWrite DEF k
<1> QED BY <1>5 DEF k
=============================================================================
