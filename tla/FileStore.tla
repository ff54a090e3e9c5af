------------------------------ MODULE FileStore ------------------------------
(***************************************************************************)
(* What the RAM file system promises, with no descriptors, offsets or      *)
(* buffers: a file is an endless array of bytes, zero where nothing was    *)
(* written, and a size; a call writes one stretch of one file, and files   *)
(* that are not writable never change.  Module Files implements this.      *)
(***************************************************************************)
EXTENDS Integers

CONSTANTS Paths,
          Logs,         \* the writable files
          MaxSize       \* no file is longer

VARIABLES store,    \* store[path][i]: the byte at position i
          size      \* size[path]: -1 while there is no such file

vars == <<store, size>>

Cells == 0..(MaxSize - 1)

\* Positions off to end - 1 of one file get new bytes.
Write(path, off, end) ==
    /\ path \in Logs
    /\ off <= end
    /\ \A q \in Paths \ {path} : store'[q] = store[q]
    /\ \A i \in Cells \ (off..(end - 1)) : store'[path][i] = store[path][i]
    /\ size' = [size EXCEPT ![path] = IF @ < end THEN end ELSE @]

Create(path) ==
    /\ size[path] = -1
    /\ size' = [size EXCEPT ![path] = 0]
    /\ UNCHANGED store

Next ==
    \E path \in Paths :
        \/ Create(path)
        \/ \E off, end \in 0..MaxSize : Write(path, off, end)

\* The files there are at first are up to the implementation.
Spec == [][Next]_vars
==============================================================================
