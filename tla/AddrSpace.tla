----------------------------- MODULE AddrSpace -----------------------------
(***************************************************************************)
(* What memory management promises to user programs, with no frames and no *)
(* page tables: every process has a private array of pages that only its   *)
(* own steps change; fork copies it, exec replaces all of it, brk and mmap *)
(* add to it.  Module Memory implements this.                              *)
(***************************************************************************)
EXTENDS Integers

CONSTANTS Pids, NumPages, Vals,
          FileData,     \* what a file-backed mapping holds
          Images        \* the address spaces exec may start a program with

VPages == 0..(NumPages - 1)
Unmapped == -1

VARIABLE mem    \* mem[p][v]: what process p reads in its page v

Init == \E img \in Images :
            mem = [p \in Pids |-> IF p = 1 THEN img
                                  ELSE [v \in VPages |-> Unmapped]]

\* The child starts with a copy of the parent's memory.
Fork(p, c) ==
    /\ \A v \in VPages : mem[c][v] = Unmapped
    /\ mem' = [mem EXCEPT ![c] = mem[p]]

\* Nothing of the old program is left.
Exec(p, img) == mem' = [mem EXCEPT ![p] = img]

\* brk adds zero pages where there were none, as many as it has frames for.
Grow(p) ==
    /\ mem' = [mem EXCEPT ![p] = [v \in VPages |-> mem'[p][v]]]
    /\ \A v \in VPages :
          \/ mem'[p][v] = mem[p][v]
          \/ mem[p][v] = Unmapped /\ mem'[p][v] = 0

\* mmap fills the pages lo, ..., hi - 1, the first n of them from a file.
Map(p, lo, hi, n) ==
    mem' = [mem EXCEPT ![p] =
               [v \in VPages |-> IF v < lo \/ v >= hi THEN mem[p][v]
                                 ELSE IF v < lo + n THEN FileData ELSE 0]]

Store(p, v, x) ==
    /\ mem[p][v] # Unmapped
    /\ mem' = [mem EXCEPT ![p] = [mem[p] EXCEPT ![v] = x]]

Next ==
    \E p \in Pids :
        \/ \E c \in Pids \ {p} : Fork(p, c)
        \/ \E img \in Images : Exec(p, img)
        \/ Grow(p)
        \/ \E lo \in VPages : \E hi \in lo..NumPages : \E n \in 0..(hi - lo) :
               Map(p, lo, hi, n)
        \/ \E v \in VPages, x \in Vals : Store(p, v, x)

Spec == Init /\ [][Next]_mem
=============================================================================
