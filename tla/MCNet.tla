-------------------------------- MODULE MCNet --------------------------------
(* Net for TLC.  Its constants are numbers; there is nothing to define.    *)
EXTENDS Net
==============================================================================
