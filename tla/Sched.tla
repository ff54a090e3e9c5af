------------------------------- MODULE Sched -------------------------------
(***************************************************************************)
(* The process table, the trap handler and the scheduler: src/trap.rs, the *)
(* process half of src/proc.rs, and sys_clone, sys_wait4, sys_exit and the *)
(* control of sys_execve in src/syscall.rs.                                *)
(*                                                                         *)
(* One hart, interrupts off in S-mode: from ecall to sret nothing else     *)
(* runs, so a step of the model is one whole trap: the register save of    *)
(* trap_vector, rust_trap_handler, do_schedule, the restore and sret.      *)
(* Between traps the current program computes, which the model folds into  *)
(* the next trap: the program enters it with registers of its choice.      *)
(***************************************************************************)
EXTENDS Integers

CONSTANTS MaxPid,       \* bound on NEXT_PID
          ExitCodes,    \* the codes programs pass to exit
          Vals,         \* contents of the user registers a1 and sp
          FpVals,       \* contents of the floating-point registers
          Results       \* what calls that leave the process table alone return

ASSUME SchedAssumption ==
    /\ MaxPid \in Nat \ {0}
    /\ ExitCodes \subseteq Int
    /\ Vals \subseteq Nat
    /\ 1 \in Vals
    /\ FpVals \subseteq Nat
    /\ 1 \in FpVals
    /\ Results \subseteq Int

Pids == 1..MaxPid

\* Return values and wait4's "any child".
EAGAIN   == -11
AnyChild == -1
\* The value of x2 at a trap: a kernel stack address, no user sp.
KernelSp == -1

VARIABLES
    state,      \* PROC_TABLE[p].state, "None" where p is not in the table
    ppid,       \* PROC_TABLE[p].ppid
    exitCode,   \* PROC_TABLE[p].exit_code
    frame,      \* PROC_TABLE[p].trap_frame
    current,    \* CURRENT_PID
    nextPid,    \* NEXT_PID
    kernel,     \* "user", "spin" (busy-waiting in a system call), "off", "hung"
    cpu,        \* the integer registers the hart holds for the current program
    fpu,        \* the floating-point registers of the hart
    satp,       \* whose page table the hart translates with, 0 the kernel's
    sscratch,   \* whose kernel stack the next trap is taken on
    wstatus,    \* the last status word sys_wait4 stored
    waitFor,    \* history: the pid p's program gave the wait4 it is blocked in
    want        \* history: the registers p is to be resumed with

tableVars == <<state, ppid, exitCode, frame, nextPid>>
spaceVars == <<satp, sscratch>>
history == <<waitFor, want>>
vars == <<tableVars, current, kernel, cpu, fpu, spaceVars, wstatus, history>>

ProcState == {"Ready", "Running", "Waiting", "Zombie"}

\* A trap frame; a1 stands for every integer register but pc, a0 and sp.
\* pc is "at" on an ecall, "past" anywhere else: after it, or on the first
\* instruction of a program.
TrapFrame ==
    [pc : {"at", "past"}, a0 : Int, a1 : Vals, sp : Vals]
UserRegs == [a1 : Vals, sp : Vals, f : FpVals]
ResumeRegs == [a1 : Vals, sp : Vals, f : FpVals, ret : Int]

\* What stands for the registers nobody will read.
NoFrame == [pc |-> "past", a0 |-> 0, a1 |-> 1, sp |-> 1]
NoRegs  == [a1 |-> 1, sp |-> 1, f |-> 1, ret |-> 0]

TypeOK ==
    /\ state \in [Pids -> ProcState \cup {"None"}]
    /\ ppid \in [Pids -> 0..MaxPid]
    /\ exitCode \in [Pids -> Int]
    /\ frame \in [Pids -> TrapFrame]
    /\ current \in Pids
    /\ nextPid \in 1..(MaxPid + 1)
    /\ kernel \in {"user", "spin", "off", "hung"}
    /\ cpu \in TrapFrame
    /\ fpu \in FpVals
    /\ satp \in 0..MaxPid
    /\ sscratch \in Pids
    /\ wstatus \in Int
    /\ waitFor \in [Pids -> Int]
    /\ want \in [Pids -> ResumeRegs]

\* init_user_proc and run_user: the shell is process 1 and is running.
Init ==
    /\ state = [p \in Pids |-> IF p = 1 THEN "Running" ELSE "None"]
    /\ ppid = [p \in Pids |-> 0]
    /\ exitCode = [p \in Pids |-> 0]
    /\ frame = [p \in Pids |-> NoFrame]
    /\ current = 1
    /\ nextPid = 2
    /\ kernel = "user"
    /\ cpu = NoFrame
    /\ fpu = 1
    /\ satp = 1
    /\ sscratch = 1
    /\ wstatus = 0
    /\ waitFor = [p \in Pids |-> AnyChild]
    /\ want = [p \in Pids |-> NoRegs]

-----------------------------------------------------------------------------
(* The trap vector.                                                        *)

\* trap_vector's save: x2 is the kernel stack pointer by now, the user's is
\* in orig_sp.  x holds the argument the call has in a0.
SaveRegs(arg, r) ==
    [pc |-> "at", a0 |-> arg, a1 |-> r.a1, x2 |-> KernelSp, orig_sp |-> r.sp]

\* Mutant: orig_sp is forgotten and the kernel's x2 is kept.
ToTrapFrameKernelSp(raw) ==
    [pc |-> raw.pc, a0 |-> raw.a0, a1 |-> raw.a1, sp |-> raw.x2]

\* CURRENT_TRAP_FRAME and PROC_TABLE hold the frame with orig_sp in regs[2].
ToTrapFrame(raw) ==
    [pc |-> raw.pc, a0 |-> raw.a0, a1 |-> raw.a1, sp |-> raw.orig_sp]

\* Mutant: the copy leaves out orig_sp, which keeps an old stack's content.
ToRawNoSp(tf) ==
    [pc |-> tf.pc, a0 |-> tf.a0, a1 |-> tf.a1, x2 |-> tf.sp, orig_sp |-> 1]

\* do_schedule's copy of a saved frame onto the kernel stack.
ToRaw(tf) ==
    [pc |-> tf.pc, a0 |-> tf.a0, a1 |-> tf.a1, x2 |-> tf.sp, orig_sp |-> tf.sp]

\* trap_vector's restore: x2 is skipped, sp comes from orig_sp.
RestoreRegs(raw) ==
    [pc |-> raw.pc, a0 |-> raw.a0, a1 |-> raw.a1, sp |-> raw.orig_sp]

\* The handler's result: a0 holds the return value, pc where to resume.
Return(raw, pc, ret) ==
    [pc |-> pc, a0 |-> ret, a1 |-> raw.a1,
     x2 |-> raw.x2, orig_sp |-> raw.orig_sp]

-----------------------------------------------------------------------------
(* do_schedule.                                                            *)

\* Mutant: the process switched away from stays Running.
PreemptNot(st) == st

\* The frame is saved and a Running process becomes Ready.
Preempt(st) ==
    [st EXCEPT ![current] = IF @ = "Running" THEN "Ready" ELSE @]

\* Mutant: no round robin, always the first Ready pid.
PicksFirst(ready, n) == n \in ready /\ \A p \in ready : n <= p

\* Round robin: the first Ready pid after the current one, else the first.
PicksNext(ready, n) ==
    /\ n \in ready
    /\ \/ /\ n > current
          /\ \A p \in ready : p > current => n <= p
       \/ /\ \A p \in ready : p <= current
          /\ \A p \in ready : n <= p

\* Mutant: the page table of the process that is left is loaded again.
LoadsOld(n) == current

\* The page table do_schedule loads when it switches to n.
Loads(n) == n

\* st and fr are the states and frames the handler left, raw the frame on
\* the current kernel stack.
Schedule(st, fr, raw) ==
    LET saved == Preempt(st)
        ready == {p \in Pids : saved[p] = "Ready"}
    IN  /\ frame' = [fr EXCEPT ![current] = ToTrapFrame(raw)]
        /\ \/ /\ ready = {}
              /\ saved[current] = "Zombie"
              /\ state' = saved
              /\ kernel' = "off"
              /\ satp' = 0
              /\ UNCHANGED <<current, cpu, sscratch>>
           \/ /\ ready = {}
              /\ saved[current] # "Zombie"
              /\ state' = [saved EXCEPT ![current] = "Running"]
              /\ kernel' = "user"
              /\ cpu' = RestoreRegs(raw)
              /\ UNCHANGED <<current, spaceVars>>
           \/ /\ PicksNext(ready, current)
              /\ state' = saved
              /\ kernel' = "user"
              /\ cpu' = RestoreRegs(raw)
              /\ UNCHANGED <<current, spaceVars>>
           \/ \E n \in ready \ {current} :
              /\ PicksNext(ready, n)
              /\ state' = [saved EXCEPT ![n] = "Running"]
              /\ current' = n
              /\ kernel' = "user"
              /\ cpu' = RestoreRegs(ToRaw(fr[n]))
              /\ satp' = Loads(n)
              /\ sscratch' = n

-----------------------------------------------------------------------------
(* System calls.  r is what the program has in its registers at the ecall. *)

\* A call the program makes: it runs in user mode and is not held on a
\* wait4 that is to be executed again.
Calls(r) ==
    /\ kernel = "user"
    /\ cpu.pc # "at"
    /\ fpu' = r.f

\* History: the call returns ret to a program with the registers it had.
Expects(r, ret) == [a1 |-> r.a1, sp |-> r.sp, f |-> r.f, ret |-> ret]
Remember(r, ret) == want' = [want EXCEPT ![current] = Expects(r, ret)]

\* Every call that returns at once and leaves the process table alone: a failed
\* clone or execve among them.
SysOther(r, ret) ==
    /\ Calls(r)
    /\ Remember(r, ret)
    /\ Schedule(state, frame, Return(SaveRegs(0, r), "past", ret))
    /\ UNCHANGED <<ppid, exitCode, nextPid, wstatus, waitFor>>

\* Calls that busy-wait in the kernel: read of stdin, epoll_pwait.
SpinBegin(r) ==
    /\ Calls(r)
    /\ Remember(r, 0)
    /\ kernel' = "spin"
    /\ cpu' = [pc |-> "past", a0 |-> 0, a1 |-> r.a1, sp |-> r.sp]
    /\ UNCHANGED <<tableVars, current, spaceVars, wstatus, waitFor>>

\* The byte or the network event arrives and the call returns.
SpinEnd ==
    /\ kernel = "spin"
    /\ Schedule(state, frame,
                Return(SaveRegs(0, cpu), "past", 0))
    /\ UNCHANGED <<ppid, exitCode, nextPid, fpu, wstatus, history>>

\* sys_clone and fork_process.  stack is 0 or the child's stack pointer.
SysClone(r, stack) ==
    LET child == nextPid
        new == [a1 |-> r.a1, sp |-> IF stack # 0 THEN stack ELSE r.sp, f |-> r.f]
        childTf == [pc |-> "past", a0 |-> 0, a1 |-> new.a1, sp |-> new.sp]
    IN  /\ Calls(r)
        /\ nextPid <= MaxPid
        /\ nextPid' = nextPid + 1
        /\ ppid' = [ppid EXCEPT ![child] = current]
        /\ exitCode' = [exitCode EXCEPT ![child] = 0]
        /\ want' = [want EXCEPT ![current] = Expects(r, child),
                                ![child] = Expects(new, 0)]
        /\ Schedule([state EXCEPT ![child] = "Ready"],
                    [frame EXCEPT ![child] = childTf],
                    Return(SaveRegs(0, r), "past", child))
        /\ UNCHANGED <<wstatus, waitFor>>

\* sys_execve succeeds: sepc and sp are the new program's; the argc put in
\* a0 is overwritten by the return value.  The new page table is loaded before
\* the handler returns, so satp is the current process's still.
SysExecve(r, stackTop) ==
    LET new == [a1 |-> r.a1, sp |-> stackTop, f |-> r.f]
    IN  /\ Calls(r)
        /\ Remember(new, 0)
        /\ Schedule(state, frame, Return(SaveRegs(0, new), "past", 0))
        /\ UNCHANGED <<ppid, exitCode, nextPid, wstatus, waitFor>>

\* Mutant: exit wakes nobody.
WakeNobody(st) == st

\* exit_process makes the parent Ready if it is Waiting.
WakeParent(st) ==
    [p \in Pids |-> IF p = ppid[current] /\ st[p] = "Waiting"
                    THEN "Ready" ELSE st[p]]

\* sys_exit and exit_process.  The registers are not seen again.
SysExit(code) ==
    /\ Calls(NoRegs)
    /\ Remember(NoRegs, 0)
    /\ exitCode' = [exitCode EXCEPT ![current] = code]
    /\ Schedule(WakeParent([state EXCEPT ![current] = "Zombie"]), frame,
                Return(SaveRegs(code, NoRegs), "past", 0))
    /\ UNCHANGED <<ppid, nextPid, wstatus, waitFor>>

\* sys_wait4's filter: a positive pid names one child.
Matches(arg, c) == arg > 0 => c = arg

\* Mutant: wait4 does not ask whose child the zombie is.
CollectableByAnyone(arg) == {c \in Pids : state[c] = "Zombie" /\ Matches(arg, c)}

\* The zombie children of the current process that wait4(arg) may collect.
Collectable(arg) ==
    {c \in Pids : /\ state[c] = "Zombie"
                  /\ ppid[c] = current
                  /\ Matches(arg, c)}

\* (code & 0xff) << 8.
ExitStatus(code) == (code % 256) * 256

\* A zombie is found: it is removed; wstatus, in a1, may be null.
Reap(arg, r) ==
    \E z \in Collectable(arg) :
        /\ \A c \in Collectable(arg) : z <= c
        /\ wstatus' = IF r.a1 = 0 THEN wstatus ELSE ExitStatus(exitCode[z])
        /\ ppid' = [ppid EXCEPT ![z] = 0]
        /\ exitCode' = [exitCode EXCEPT ![z] = 0]
        /\ Schedule([state EXCEPT ![z] = "None"], frame,
                    Return(SaveRegs(arg, r), "past", z))
        /\ Remember(r, z)
        /\ waitFor' = [waitFor EXCEPT ![current] = AnyChild]

\* No zombie and WNOHANG.
WaitNoHang(arg, r) ==
    /\ Collectable(arg) = {}
    /\ Schedule(state, frame, Return(SaveRegs(arg, r), "past", 0))
    /\ Remember(r, 0)
    /\ UNCHANGED <<ppid, exitCode, wstatus, waitFor>>

\* No zombie: sepc stays on the ecall, the process is Waiting, and a0, the
\* argument of the call to be repeated, is overwritten with -EAGAIN.
WaitBlock(arg, r) ==
    /\ Collectable(arg) = {}
    /\ Schedule([state EXCEPT ![current] = "Waiting"], frame,
                Return(SaveRegs(arg, r), "at", EAGAIN))
    /\ Remember(r, EAGAIN)
    /\ waitFor' = [waitFor EXCEPT ![current] = IF cpu.pc = "at" THEN @ ELSE arg]
    /\ UNCHANGED <<ppid, exitCode, wstatus>>

\* The program calls wait4.
SysWait4(r, arg) ==
    /\ Calls(r)
    /\ Reap(arg, r) \/ WaitNoHang(arg, r) \/ WaitBlock(arg, r)
    /\ UNCHANGED nextPid

\* The call is executed again, with the registers the process was resumed with.
SysWait4Again ==
    LET r == [a1 |-> cpu.a1, sp |-> cpu.sp, f |-> fpu]
    IN  /\ kernel = "user"
        /\ cpu.pc = "at"
        /\ Reap(cpu.a0, r) \/ WaitBlock(cpu.a0, r)
        /\ UNCHANGED <<nextPid, fpu>>

\* Any other trap (a page fault, an illegal instruction) and a kernel panic
\* end in an endless loop.
Fault ==
    /\ kernel \in {"user", "spin"}
    /\ kernel' = "hung"
    /\ UNCHANGED <<tableVars, current, cpu, fpu, spaceVars, wstatus, history>>

Halted ==
    /\ kernel \in {"off", "hung"}
    /\ UNCHANGED vars

Trap ==
    \/ \E r \in UserRegs :
        \/ \E ret \in Results : SysOther(r, ret)
        \/ SpinBegin(r)
        \/ \E stack \in Vals \cup {0} : SysClone(r, stack)
        \/ \E top \in Vals : SysExecve(r, top)
        \/ \E arg \in Pids \cup {AnyChild} : SysWait4(r, arg)
    \/ \E code \in ExitCodes : SysExit(code)
    \/ SysWait4Again
    \/ Fault

Next == Trap \/ SpinEnd \/ Halted

Spec == Init /\ [][Next]_vars

\* Scheduling is cooperative: programs are assumed to reach their next system
\* call, and what a busy-waiting call waits for to arrive.
FairSpec == Spec /\ WF_vars(Trap) /\ WF_vars(SpinEnd)

-----------------------------------------------------------------------------
(* Properties.                                                             *)

\* While the kernel serves user programs, the current process is one that may
\* run, and it alone is Running (do_schedule, exit_process and the wait4 arm
\* of rust_trap_handler together).
CurrentIsRunnable ==
    kernel \in {"user", "spin"} =>
        /\ state[current] \in {"Ready", "Running"}
        /\ \A p \in Pids : state[p] = "Running" => p = current

\* A program, and a call that touches its memory, always runs on its own page
\* table, and its next trap is taken on its own kernel stack, whatever exits
\* and switches came before: do_schedule, which returns early where it does
\* not switch, and the end of trap_vector.
RunsInOwnSpace ==
    kernel \in {"user", "spin"} => satp = current /\ sscratch = current

\* A process blocked in wait4 has no zombie child that its call would collect:
\* between wait4's scan and a later exit_process no wake-up is lost.
NoLostWakeup ==
    \A p, c \in Pids :
        ~ /\ state[p] = "Waiting"
          /\ state[c] = "Zombie"
          /\ ppid[c] = p
          /\ Matches(waitFor[p], c)

\* do_schedule powers the machine off only when no process can ever run again:
\* what is left is exited, or blocked for a child that no longer runs or never
\* existed.
PowerOffIsFinal ==
    kernel = "off" =>
        \A p \in Pids :
            \/ state[p] \in {"None", "Zombie"}
            \/ /\ state[p] = "Waiting"
               /\ \A c \in Pids :
                    ppid[c] = p /\ Matches(waitFor[p], c)
                        => state[c] \in {"None", "Waiting"}

\* However many processes ran in between, a program finds its integer
\* registers and stack pointer as it left them and the value of its own call
\* in a0; a forked child starts with its parent's registers, its own stack
\* pointer and 0 (trap_vector, do_schedule's copies, fork_process).
ContextPreserved ==
    kernel = "user" =>
        /\ cpu.a1 = want[current].a1
        /\ cpu.sp = want[current].sp
        /\ cpu.pc # "at" => cpu.a0 = want[current].ret

\* The same of the floating-point registers, which trap_vector never touches.
FpContextPreserved == kernel = "user" => fpu = want[current].f

\* A wait4 blocked for a child it names, which is in the table still, collects
\* no other child once it is executed again (rust_trap_handler's roll-back).
NamedWaitReapsNamedChild ==
    [][\A p, c, n \in Pids :
        /\ state[c] = "Zombie" /\ state'[c] = "None" /\ ppid[c] = p
        /\ waitFor[p] = n /\ ppid[n] = p /\ state[n] # "None"
        => c = n]_vars

\* A Ready process is eventually given the processor, unless the machine stops.
NoStarvation ==
    \A p \in Pids :
        state[p] = "Ready" ~> current = p \/ kernel \in {"off", "hung"}

\* A blocked wait4 with a child to collect returns, unless the machine stops.
WaitReturns ==
    \A p \in Pids :
        /\ frame[p].pc = "at"
        /\ \E c \in Pids : /\ state[c] = "Zombie"
                           /\ ppid[c] = p
                           /\ Matches(waitFor[p], c)
        ~> frame[p].pc # "at" \/ kernel \in {"off", "hung"}

\* Processes as their programs see them.
LifeOf(st, n) ==
    [p \in Pids |-> IF p >= n THEN "unborn"
                    ELSE IF st[p] = "None" THEN "reaped"
                    ELSE IF st[p] = "Zombie" THEN "zombie"
                    ELSE "alive"]
Life == LifeOf(state, nextPid)

Lifecycle == INSTANCE ProcLifecycle
             WITH life <- Life, parent <- ppid, code <- exitCode,
                  status <- wstatus

\* Every trap is one birth, one death, one collection or none of them: pids
\* are never reused, a process dies once and is collected once, by its own
\* parent and with its own exit code (fork_process, exit_process, sys_wait4).
ImplementsLifecycle == Lifecycle!Spec
=============================================================================
