------------------------------ MODULE Console ------------------------------
(***************************************************************************)
(* Reading from the console: the loop of sys_read in src/syscall.rs over   *)
(* console::getchar, with its echo and its line editing.  One turn of the  *)
(* loop that finds a byte is one step; keys may be pressed between any     *)
(* two, also when nobody reads.  Nothing else runs during a read.          *)
(*                                                                         *)
(* The terminal at the other end of the UART is external: a row as long as *)
(* need be, split at the cursor.                                           *)
(***************************************************************************)
EXTENDS Integers, Sequences, FiniteSets

CONSTANTS Printable,    \* bytes 0x20..0x7e, the blank apart
          Control,      \* other bytes, those named below apart
          Texts,        \* what programs print, a prompt for instance
          Counts,       \* how much they read at a time
          TabStop,      \* distance of tab stops
          MaxKeys,      \* bound on the keys pressed
          MaxRow,       \* bound on where programs still print
          None          \* no byte, no read

Blank == "sp"
Erasers == {"bs", "del"}
Enders == {"cr", "lf"}
Keys == Printable \cup Control \cup Erasers \cup Enders \cup {"tab"}

\* What a row can show, and what a program can get to read.
Cells == Printable \cup {Blank}
Bytes == Printable \cup Control \cup {"lf", "tab"}

ASSUME ConsoleAssumption ==
    /\ Printable \cap ({Blank, "tab", None} \cup Erasers \cup Enders) = {}
    /\ Control \cap (Printable \cup {Blank, "tab", None} \cup Erasers \cup Enders) = {}
    /\ None \notin {Blank, "tab"} \cup Erasers \cup Enders
    /\ Texts \subseteq Seq(Printable)
    /\ Counts \subseteq Nat /\ None \notin Nat
    /\ TabStop \in Nat \ {0} /\ MaxKeys \in Nat /\ MaxRow \in Nat

VARIABLES rx,       \* the byte in the UART's receive register, or None
          req,      \* the count of the read that goes on, or None
          buf,      \* the bytes in the reader's buffer, n of them
          row,      \* the row of the cursor, left and right of it
          pressed,  \* how many keys were pressed
          keys,     \* history: the bytes this read has taken
          base      \* history: what was left of the cursor when it began

vars == <<rx, req, buf, row, pressed, keys, base>>

TypeOK ==
    /\ rx \in Keys \cup {None}
    /\ req \in Counts \cup {None}
    /\ buf \in Seq(Bytes)
    /\ req # None => Len(buf) < req
    /\ row \in [left : Seq(Cells), right : Seq(Cells)]
    /\ pressed \in 0..MaxKeys
    /\ keys \in Seq(Keys)
    /\ base \in Seq(Cells)

Init ==
    /\ rx = None
    /\ req = None
    /\ buf = <<>>
    /\ row = [left |-> <<>>, right |-> <<>>]
    /\ pressed = 0
    /\ keys = <<>>
    /\ base = <<>>

-----------------------------------------------------------------------------
(* The terminal: what a byte sent to it does.                              *)

\* The cursor goes d cells to the right, over what is there.
MoveOver(r, d) ==
    [left  |-> [i \in 1..(Len(r.left) + d) |->
                  IF i <= Len(r.left) THEN r.left[i]
                  ELSE IF i - Len(r.left) <= Len(r.right) THEN r.right[i - Len(r.left)]
                  ELSE Blank],
     right |-> SubSeq(r.right, d + 1, Len(r.right))]

Draw(r, cell) == [left |-> Append(r.left, cell), right |-> SubSeq(r.right, 2, Len(r.right))]

Back(r) ==
    LET n == Len(r.left)
    IN  IF n = 0 THEN r
        ELSE [left |-> SubSeq(r.left, 1, n - 1), right |-> <<r.left[n]>> \o r.right]

Tab(r) == MoveOver(r, TabStop - (Len(r.left) % TabStop))

NewRow == [left |-> <<>>, right |-> <<>>]

-----------------------------------------------------------------------------
(* The loop of sys_read.                                                   *)

\* Mutant: the cell is not blanked.
ErasedBack(r) == Back(r)

\* Backspace, space, backspace.
Erased(r) == Back(Draw(Back(r), Blank))

\* CR and LF print both; a control character is not echoed.
Echoed(r, c) ==
    CASE c = "lf"         -> NewRow
      [] c \in Printable  -> Draw(r, c)
      [] c = "tab"        -> Tab(r)
      [] OTHER            -> r

\* Mutant: an erased byte stays in the buffer.
ShorterNot(b) == b

Shorter(b) == SubSeq(b, 1, Len(b) - 1)

\* Mutant: the screen is erased also when nothing is left of the line.
EraseAlways ==
    /\ rx \in Erasers
    /\ row' = Erased(row)
    /\ buf' = Shorter(buf)
    /\ req' = req

Erase ==
    /\ rx \in Erasers
    /\ IF buf = <<>> THEN UNCHANGED <<buf, row>>
       ELSE buf' = Shorter(buf) /\ row' = Erased(row)
    /\ req' = req

\* Mutant: a full buffer is noticed one byte late.
StoreLate ==
    LET c == IF rx \in Enders THEN "lf" ELSE rx
    IN  /\ rx \notin Erasers
        /\ row' = Echoed(row, c)
        /\ buf' = Append(buf, c)
        /\ req' = IF c = "lf" \/ Len(buf) >= req THEN None ELSE req

\* The read returns at the end of the line or when the buffer is full.
Store ==
    LET c == IF rx \in Enders THEN "lf" ELSE rx
    IN  /\ rx \notin Erasers
        /\ row' = Echoed(row, c)
        /\ buf' = Append(buf, c)
        /\ req' = IF c = "lf" \/ Len(buf) + 1 >= req THEN None ELSE req

ReadTurn ==
    /\ req # None
    /\ rx # None
    /\ rx' = None
    /\ keys' = Append(keys, rx)
    /\ Erase \/ Store
    /\ UNCHANGED <<pressed, base>>

\* getchar finds nothing, and the loop turns again.
ReadSpins ==
    /\ req # None
    /\ rx = None
    /\ UNCHANGED vars

\* A read of no bytes returns at once.
SysRead(count) ==
    /\ req = None
    /\ req' = IF count = 0 THEN None ELSE count
    /\ buf' = <<>>
    /\ keys' = <<>>
    /\ base' = row.left
    /\ UNCHANGED <<rx, row, pressed>>

\* sys_write to the console, between two reads.
SysWrite(text) ==
    /\ req = None
    /\ Len(row.left) + Len(text) <= MaxRow
    /\ row' = [left  |-> row.left \o text,
               right |-> SubSeq(row.right, Len(text) + 1, Len(row.right))]
    /\ UNCHANGED <<rx, req, buf, pressed, keys, base>>

\* The UART takes a byte when the one before has been read.
KeyPressed(key) ==
    /\ rx = None
    /\ pressed < MaxKeys
    /\ rx' = key
    /\ pressed' = pressed + 1
    /\ UNCHANGED <<req, buf, row, keys, base>>

Next ==
    \/ ReadTurn
    \/ ReadSpins
    \/ \E count \in Counts : SysRead(count)
    \/ \E text \in Texts : SysWrite(text)
    \/ \E key \in Keys : KeyPressed(key)

Spec == Init /\ [][Next]_vars

-----------------------------------------------------------------------------
(* Properties.                                                             *)

Erases(i, j) == Cardinality({n \in i..j : keys[n] \in Erasers})

\* Key i is kept: it stores a byte, and no stretch of keys after it erases
\* more than it stores.
Kept(i) ==
    /\ keys[i] \notin Erasers
    /\ \A j \in i..Len(keys) : 2 * Erases(i + 1, j) <= j - i

KeptUpTo(i) == Cardinality({j \in 1..i : Kept(j)})

\* What a read returns, or has so far, are the bytes typed that no erase
\* took back, in order and with CR turned to LF, and never more than one
\* line: the loop of sys_read against a definition without a loop.
LineIsEdited ==
    /\ Len(buf) = KeptUpTo(Len(keys))
    /\ \A i \in DOMAIN keys : Kept(i) =>
          buf[KeptUpTo(i)] = IF keys[i] \in Enders THEN "lf" ELSE keys[i]
    /\ \A i \in 1..(Len(buf) - 1) : buf[i] # "lf"

\* While a line of printable characters is typed and edited, the row shows
\* what was there before, the bytes the reader would get, and nothing after
\* them: the echo and the erase sequence of sys_read.
ScreenShowsLine ==
    (\A i \in DOMAIN keys : keys[i] \in Printable \cup Erasers) =>
        (req # None =>
            /\ row.left = base \o buf
            /\ \A i \in DOMAIN row.right : row.right[i] = Blank)

\* Whatever is typed and erased, tabs included, the prompt before the line
\* stays; control characters, which are stored without an echo, are the
\* exception: the guard n > 0 of sys_read.
PromptKept ==
    (req # None /\ \A i \in DOMAIN keys : keys[i] \notin Control) =>
        /\ Len(base) <= Len(row.left)
        /\ \A i \in DOMAIN base : row.left[i] = base[i]
=============================================================================
