-------------------------------- MODULE Pipe --------------------------------
(***************************************************************************)
(* PipeInner of src/syscall.rs: the ring buffer behind pipe2.  A call runs *)
(* with the pipe's lock held and interrupts off, so it is one step; its    *)
(* byte loop is given in closed form (MCPipe compares the two).            *)
(***************************************************************************)
EXTENDS Integers, Sequences

CONSTANTS Size,     \* buf.len(), 4096 in the code
          Bytes,    \* byte values
          Chunks,   \* the data of write calls
          Counts    \* the lengths of read calls

ASSUME PipeAssumption ==
    /\ Size \in Nat \ {0}
    /\ 0 \in Bytes
    /\ Chunks \subseteq Seq(Bytes)
    /\ Counts \subseteq Nat

VARIABLES buf, head, tail,
          got,      \* the bytes the latest read copied out
          ret       \* what the latest call returned

vars == <<buf, head, tail, got, ret>>

Slots == 0..(Size - 1)

TypeOK ==
    /\ buf \in [Slots -> Bytes]
    /\ head \in Slots
    /\ tail \in Slots
    /\ got \in Seq(Bytes)
    /\ ret \in Nat

Init ==
    /\ buf = [i \in Slots |-> 0]
    /\ head = 0
    /\ tail = 0
    /\ got = <<>>
    /\ ret = 0

\* Mutant: the end of the buffer is one position too far.
WrapLate(i) == IF i > Size THEN i - Size ELSE i

\* i % buf.len() for the positions the loops reach.
Wrap(i) == IF i >= Size THEN i - Size ELSE i

\* Bytes from head to tail; head = tail means empty, so one slot stays free.
Used == Wrap(tail - head + Size)

\* Mutant: the buffer is full only when every slot is used.
FreeAll == Size - Used

Free == Size - 1 - Used

Least(a, b) == IF a <= b THEN a ELSE b

\* PipeInner::write: data goes to tail onwards until head would be reached.
\* read_closed is never set, so the early return is not taken.
Write(data) ==
    LET k == Least(Len(data), Free)
    IN  /\ buf' = [i \in Slots |->
                    IF Wrap(i - tail + Size) < k
                    THEN data[Wrap(i - tail + Size) + 1] ELSE buf[i]]
        /\ tail' = Wrap(tail + k)
        /\ ret' = k
        /\ got' = <<>>
        /\ UNCHANGED head

\* Mutant: head moves one byte further than what was copied.
ReadSkips(count) ==
    LET k == Least(count, Used)
    IN  /\ got' = [i \in 1..k |-> buf[Wrap(head + i - 1)]]
        /\ head' = Wrap(head + Least(count + 1, Used))
        /\ ret' = k
        /\ UNCHANGED <<buf, tail>>

\* PipeInner::read: from head onwards, until tail or the end of out.
Read(count) ==
    LET k == Least(count, Used)
    IN  /\ got' = [i \in 1..k |-> buf[Wrap(head + i - 1)]]
        /\ head' = Wrap(head + k)
        /\ ret' = k
        /\ UNCHANGED <<buf, tail>>

Next ==
    \/ \E data \in Chunks : Write(data)
    \/ \E count \in Counts : Read(count)

Spec == Init /\ [][Next]_vars

\* The bytes in the ring, oldest first.
Contents == [i \in 1..Used |-> buf[Wrap(head + i - 1)]]

Fifo == INSTANCE PipeFifo WITH Capacity <- Size - 1, queue <- Contents

\* The ring buffer is a bounded first-in first-out queue: no byte is lost,
\* duplicated, reordered or overwritten, at any head and tail, across the
\* wrap-around and at both limits (PipeInner::write and read).
ImplementsFifo == Fifo!Spec
=============================================================================
