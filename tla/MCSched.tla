------------------------------ MODULE MCSched ------------------------------
(* Instances of Sched for TLC; the .cfg files choose the bounds.           *)
EXTENDS Sched

\* An ordinary code and one whose low byte differs from it.
MCExitCodes == {-1, 3}

\* Success and failure.
MCResults == {0, -1}
=============================================================================
