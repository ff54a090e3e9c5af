------------------------------ MODULE PipeFifo ------------------------------
(***************************************************************************)
(* What a pipe promises: a first-in first-out queue of bytes that holds at *)
(* most Capacity of them.  A write takes as many bytes as fit, a read as   *)
(* many as there are; neither waits.                                       *)
(***************************************************************************)
EXTENDS Integers, Sequences

CONSTANTS Capacity, Bytes, Chunks, Counts

VARIABLES queue,    \* the bytes in the pipe
          got,      \* the bytes the latest read delivered
          ret       \* what the latest call returned

Least(a, b) == IF a <= b THEN a ELSE b

Init == queue = <<>> /\ got = <<>> /\ ret = 0

Put(data) ==
    LET k == Least(Len(data), Capacity - Len(queue))
    IN  /\ queue' = queue \o SubSeq(data, 1, k)
        /\ ret' = k
        /\ got' = <<>>

Take(count) ==
    LET k == Least(count, Len(queue))
    IN  /\ got' = SubSeq(queue, 1, k)
        /\ queue' = SubSeq(queue, k + 1, Len(queue))
        /\ ret' = k

Next ==
    \/ \E data \in Chunks : Put(data)
    \/ \E count \in Counts : Take(count)

Spec == Init /\ [][Next]_<<queue, got, ret>>
=============================================================================
