------------------------------ MODULE MCMemory ------------------------------
(***************************************************************************)
(* Memory for TLC: pages 0 and 1 for programs, 2 for the break, 3 and 4    *)
(* for mmap, 5 for the stack.                                              *)
(***************************************************************************)
EXTENDS Memory

MCStack == {5}

MCShell == [elf |-> TRUE, text |-> {0}, data |-> {1}, end |-> 2,
            holds |-> 1, size |-> 1]
MCTool == [elf |-> TRUE, text |-> {}, data |-> {0}, end |-> 1,
           holds |-> 0, size |-> 1]
MCScript == [elf |-> FALSE, text |-> {}, data |-> {}, end |-> 1,
             holds |-> 0, size |-> 1]
MCMaps == {[n |-> 1, rw |-> TRUE, file |-> -1],
           [n |-> 2, rw |-> TRUE, file |-> 1],
           [n |-> 1, rw |-> FALSE, file |-> -1]}

MCPrograms == {MCShell, MCTool, MCScript}
=============================================================================
