------------------------------- MODULE MCPipe -------------------------------
(***************************************************************************)
(* Pipe for TLC, and the byte loops of PipeInner as they are written,      *)
(* compared with the closed forms of Pipe in every reachable state.        *)
(***************************************************************************)
EXTENDS Pipe, SequencesExt

CONSTANT MaxLen     \* bound on the length of a read or a write

MCChunks == BoundedSeq(Bytes, MaxLen)
MCCounts == 0..MaxLen

\* One turn of write's loop; "stop" stands for break.
WriteByte(s, b) ==
    LET next == (s.tail + 1) % Size
    IN  IF s.stop \/ next = head THEN [s EXCEPT !.stop = TRUE]
        ELSE [s EXCEPT !.buf[s.tail] = b, !.tail = next, !.written = @ + 1]

WriteLoop(data) ==
    FoldLeft(WriteByte,
             [buf |-> buf, tail |-> tail, written |-> 0, stop |-> FALSE], data)

\* One turn of read's loop.
ReadByte(s, i) ==
    IF s.head = tail THEN s
    ELSE [head |-> (s.head + 1) % Size, out |-> Append(s.out, buf[s.head])]

ReadLoop(count) ==
    FoldLeft(ReadByte, [head |-> head, out |-> <<>>], [i \in 1..count |-> i])

\* The loop of PipeInner::write stores the bytes, moves tail and counts as
\* Write does in one step.
WriteIsItsLoop ==
    [][\A data \in Chunks : Write(data) =>
        LET s == WriteLoop(data)
        IN  buf' = s.buf /\ tail' = s.tail /\ ret' = s.written]_vars

\* The loop of PipeInner::read delivers and consumes as Read does in one step.
ReadIsItsLoop ==
    [][\A count \in Counts : Read(count) =>
        LET s == ReadLoop(count)
        IN  head' = s.head /\ got' = s.out]_vars
=============================================================================
