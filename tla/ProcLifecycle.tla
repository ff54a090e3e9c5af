--------------------------- MODULE ProcLifecycle ---------------------------
(***************************************************************************)
(* What the process subsystem promises to user programs, with no scheduler *)
(* and no registers: a process is born of a live parent, dies once with an *)
(* exit code, and is collected at most once, by its own parent, which      *)
(* receives the status word of that code.  Module Sched implements this.   *)
(***************************************************************************)
EXTENDS Integers

CONSTANTS MaxPid,       \* bound on the pids ever handed out
          ExitCodes     \* the codes programs pass to exit

Pids == 1..MaxPid

VARIABLES life,     \* life[p]: unborn, alive, zombie or reaped
          parent,   \* parent[p]: the process that forked p, 0 for the first
          code,     \* code[p]: the code p died with
          status    \* the last status word a parent received

lifeVars == <<life, parent, code, status>>

\* sys_wait4: (code & 0xff) << 8.
StatusWord(c) == (c % 256) * 256

Init ==
    /\ life = [p \in Pids |-> IF p = 1 THEN "alive" ELSE "unborn"]
    /\ parent = [p \in Pids |-> 0]
    /\ code = [p \in Pids |-> 0]
    /\ status = 0

\* Fork: pids are never reused, so a child is a process never seen before.
Birth(p, c) ==
    /\ life[p] = "alive"
    /\ life[c] = "unborn"
    /\ life' = [life EXCEPT ![c] = "alive"]
    /\ parent' = [parent EXCEPT ![c] = p]
    /\ UNCHANGED <<code, status>>

\* Exit: a process dies once.
Death(p, x) ==
    /\ life[p] = "alive"
    /\ life' = [life EXCEPT ![p] = "zombie"]
    /\ code' = [code EXCEPT ![p] = x]
    /\ UNCHANGED <<parent, status>>

\* wait4: only the parent collects, and the child is forgotten; the parent
\* may decline the status word.
Collect(p, c) ==
    /\ life[p] = "alive"
    /\ life[c] = "zombie"
    /\ parent[c] = p
    /\ life' = [life EXCEPT ![c] = "reaped"]
    /\ parent' = [parent EXCEPT ![c] = 0]
    /\ code' = [code EXCEPT ![c] = 0]
    /\ status' \in {status, StatusWord(code[c])}

Next ==
    \/ \E p, c \in Pids : Birth(p, c)
    \/ \E p \in Pids, x \in ExitCodes : Death(p, x)
    \/ \E p, c \in Pids : Collect(p, c)

Spec == Init /\ [][Next]_lifeVars
=============================================================================
