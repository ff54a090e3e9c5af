------------------------------- MODULE MCFiles -------------------------------
(* Files for TLC: small trees, and short reads and writes.                 *)
EXTENDS Files

Text == <<"a">>
Log == <<"l">>
Root == <<>>

\* A static and a dynamic file.
FileOrder == <<Text, Log>>
FileBoot == [p \in {Text, Log} |->
                IF p = Text THEN [static |-> TRUE, bytes |-> <<1, 0>>]
                ELSE [static |-> FALSE, bytes |-> <<>>]]
FileChunks == {<<1>>, <<1, 1>>}
FileSeeks == {-1, 1}

\* A root with one name, and directories to be made before and below it.
TreeOrder == <<Root, <<"a", "x">>, <<"b", "x">>, <<"b", "y">>>>
TreeBoot == [p \in {Root, <<"b", "y">>} |-> [static |-> TRUE, bytes |-> <<>>]]

NoPaths == <<>>
NoFiles == [p \in {} |-> None]
NoSeeks == {}
Empty == {<<>>}

ASSUME NamesTogether
==============================================================================
