---------------------------- MODULE SchedProofs ----------------------------
(***************************************************************************)
(* Proofs about Sched for every number of processes, every set of exit     *)
(* codes and every register content.  Lemma ScheduleFacts says once what   *)
(* do_schedule does to the states and frames a handler leaves; each action *)
(* then reduces to what its own handler changed before do_schedule.        *)
(***************************************************************************)
EXTENDS Sched, TLAPS

\* A leaf that names no prover is tried with Zenon, then with SMT.
USE ZenonT(15), SMTT(30)

TableState == ProcState \cup {"None"}

\* The frame trap_vector builds on the kernel stack.
RawFrame ==
    [pc : {"at", "past"}, a0 : Int, a1 : Vals, x2 : Int, orig_sp : Vals]

\* Pids from NEXT_PID on have never been used.
UnbornUntouched ==
    \A p \in Pids : p >= nextPid =>
        state[p] = "None" /\ ppid[p] = 0 /\ exitCode[p] = 0

\* A frame held on its ecall repeats wait4 with -EAGAIN for a pid.
HeldOnWait ==
    /\ cpu.pc = "at" => cpu.a0 = EAGAIN
    /\ \A p \in Pids : frame[p].pc = "at" => frame[p].a0 = EAGAIN

\* tf is a frame p can be resumed from.
Resumes(tf, w) ==
    /\ tf.a1 = w.a1
    /\ tf.sp = w.sp
    /\ tf.pc # "at" => tf.a0 = w.ret

\* Saved frames, and the registers of the hart, are the ones wanted; while a
\* call busy-waits, the current process's frame in the table is out of date.
FramesWanted ==
    /\ kernel \in {"user", "spin"} =>
        /\ Resumes(cpu, want[current])
        /\ \A p \in Pids \ {current} :
            state[p] \in {"Ready", "Waiting"} => Resumes(frame[p], want[p])
    /\ kernel = "spin" => cpu.pc = "past" /\ cpu.a0 = 0

\* When the machine is off nothing is runnable.
OffMeansIdle ==
    kernel = "off" =>
        \A p \in Pids : state[p] \in {"None", "Zombie", "Waiting"}

\* The inductive invariant.
IInv ==
    /\ TypeOK
    /\ CurrentIsRunnable
    /\ UnbornUntouched
    /\ HeldOnWait
    /\ NoLostWakeup
    /\ FramesWanted
    /\ OffMeansIdle
    /\ RunsInOwnSpace

-----------------------------------------------------------------------------

\* trap_vector's save, followed by the handler's return, is a raw frame.
LEMMA RawFrameType ==
    ASSUME NEW r, r.a1 \in Vals, r.sp \in Vals, NEW arg \in Int, NEW ret \in Int,
           NEW pc \in {"at", "past"}
    PROVE  /\ Return(SaveRegs(arg, r), pc, ret) \in RawFrame
           /\ ToTrapFrame(Return(SaveRegs(arg, r), pc, ret)) =
                [pc |-> pc, a0 |-> ret, a1 |-> r.a1, sp |-> r.sp]
<1>1. Return(SaveRegs(arg, r), pc, ret) =
        [pc |-> pc, a0 |-> ret, a1 |-> r.a1, x2 |-> KernelSp, orig_sp |-> r.sp]
  BY DEF Return, SaveRegs
<1>2. KernelSp \in Int
  BY DEF KernelSp
<1> QED BY <1>1, <1>2 DEF ToTrapFrame, RawFrame

\* What do_schedule does with the states st and frames fr a handler left.
LEMMA ScheduleFacts ==
    ASSUME TypeOK,
           NEW st \in [Pids -> TableState], NEW fr \in [Pids -> TrapFrame],
           NEW raw \in RawFrame,
           \A p \in Pids : st[p] = "Running" => p = current,
           st[current] # "None",
           Schedule(st, fr, raw)
    PROVE  /\ state' \in [Pids -> TableState]
           /\ frame' = [fr EXCEPT ![current] = ToTrapFrame(raw)]
           /\ frame' \in [Pids -> TrapFrame]
           /\ current' \in Pids
           /\ kernel' \in {"user", "off"}
           /\ cpu' \in TrapFrame
           /\ \A p \in Pids : /\ state'[p] = "Zombie" <=> st[p] = "Zombie"
                              /\ state'[p] = "None" <=> st[p] = "None"
                              /\ state'[p] = "Waiting" => st[p] = "Waiting"
           /\ kernel' = "user" =>
                /\ state'[current'] \in {"Ready", "Running"}
                /\ \A p \in Pids : state'[p] = "Running" => p = current'
                /\ cpu' = frame'[current']
           /\ kernel' = "off" =>
                /\ UNCHANGED <<current, cpu>>
                /\ \A p \in Pids : state'[p] \in {"None", "Zombie", "Waiting"}
<1> DEFINE saved == Preempt(st)
           ready == {p \in Pids : saved[p] = "Ready"}
<1>1. /\ saved \in [Pids -> TableState]
      /\ current \in Pids
      /\ \A p \in Pids : saved[p] = IF p = current /\ st[p] = "Running"
                                    THEN "Ready" ELSE st[p]
  BY DEF Preempt, TypeOK, TableState, ProcState
<1>2. \A p \in Pids : saved[p] # "Running"
  BY <1>1
<1>3. ToTrapFrame(raw) \in TrapFrame /\ RestoreRegs(raw) = ToTrapFrame(raw)
  BY DEF ToTrapFrame, RestoreRegs, RawFrame, TrapFrame
<1>4. \A n \in Pids : RestoreRegs(ToRaw(fr[n])) = fr[n]
  <2> TAKE n \in Pids
  <2>1. fr[n] \in TrapFrame
    OBVIOUS
  <2> QED BY <2>1 DEF RestoreRegs, ToRaw, TrapFrame
<1>5. frame' = [fr EXCEPT ![current] = ToTrapFrame(raw)]
  BY DEF Schedule
<1>6. /\ frame' \in [Pids -> TrapFrame]
      /\ frame'[current] = ToTrapFrame(raw)
      /\ \A p \in Pids \ {current} : frame'[p] = fr[p]
  BY <1>1, <1>3, <1>5
<1> HIDE DEF saved
<1>a. CASE ready = {} /\ saved[current] = "Zombie" /\ state' = saved
           /\ kernel' = "off" /\ UNCHANGED <<current, cpu>>
  BY <1>a, <1>1, <1>2, <1>5, <1>6 DEF TypeOK, TableState, ProcState
<1>b. CASE ready = {} /\ saved[current] # "Zombie"
           /\ state' = [saved EXCEPT ![current] = "Running"]
           /\ kernel' = "user" /\ cpu' = RestoreRegs(raw) /\ UNCHANGED current
  BY <1>b, <1>1, <1>2, <1>3, <1>5, <1>6 DEF TableState, ProcState
<1>c. CASE PicksNext(ready, current) /\ state' = saved
           /\ kernel' = "user" /\ cpu' = RestoreRegs(raw) /\ UNCHANGED current
  BY <1>c, <1>1, <1>2, <1>3, <1>5, <1>6 DEF PicksNext
<1>d. CASE \E n \in ready \ {current} :
              /\ PicksNext(ready, n)
              /\ state' = [saved EXCEPT ![n] = "Running"]
              /\ current' = n
              /\ kernel' = "user"
              /\ cpu' = RestoreRegs(ToRaw(fr[n]))
  <2> PICK n \in ready \ {current} :
              /\ state' = [saved EXCEPT ![n] = "Running"]
              /\ current' = n
              /\ kernel' = "user"
              /\ cpu' = RestoreRegs(ToRaw(fr[n]))
    BY <1>d
  <2>1. cpu' = frame'[current'] /\ cpu' \in TrapFrame
    BY <1>4, <1>6
  <2> QED BY <2>1, <1>1, <1>2, <1>5, <1>6 DEF TableState, ProcState
<1> QED BY <1>a, <1>b, <1>c, <1>d DEF Schedule, saved

\* do_schedule leaves the page table and the kernel stack of the process it
\* makes current.
LEMMA ScheduleSpace ==
    ASSUME TypeOK, RunsInOwnSpace, kernel \in {"user", "spin"},
           NEW st, NEW fr, NEW raw, Schedule(st, fr, raw)
    PROVE  satp' \in 0..MaxPid /\ sscratch' \in Pids /\ RunsInOwnSpace'
<1>1. /\ satp = current /\ sscratch = current
      /\ current \in Pids /\ Pids \subseteq 0..MaxPid
  BY SchedAssumption, SMTT(30) DEF RunsInOwnSpace, TypeOK, Pids
<1>2. \/ kernel' = "off" /\ satp' = 0 /\ sscratch' = sscratch
      \/ UNCHANGED <<current, satp, sscratch>>
      \/ \E n \in Pids : current' = n /\ satp' = n /\ sscratch' = n
  BY DEF Schedule, spaceVars, Loads
<1>3. 0 \in 0..MaxPid
  BY SchedAssumption
<1> QED BY <1>1, <1>2, <1>3 DEF RunsInOwnSpace

\* A handler that runs do_schedule keeps the invariant if what it hands over
\* (states, frames, its own frame) and what it stored satisfy it.
LEMMA HandlerKeepsIInv ==
    ASSUME IInv, kernel \in {"user", "spin"},
           NEW st \in [Pids -> TableState], NEW fr \in [Pids -> TrapFrame],
           NEW raw \in RawFrame,
           \A p \in Pids : st[p] = "Running" => p = current,
           st[current] # "None",
           want' \in [Pids -> ResumeRegs],
           Resumes(ToTrapFrame(raw), want'[current]),
           \A p \in Pids \ {current} :
                st[p] \in {"Ready", "Waiting"} => Resumes(fr[p], want'[p]),
           raw.pc = "at" => raw.a0 = EAGAIN,
           \A p \in Pids : fr[p].pc = "at" => fr[p].a0 = EAGAIN,
           nextPid' \in 1..(MaxPid + 1),
           ppid' \in [Pids -> 0..MaxPid], exitCode' \in [Pids -> Int],
           \A p \in Pids : p >= nextPid' =>
                st[p] = "None" /\ ppid'[p] = 0 /\ exitCode'[p] = 0,
           \A p, c \in Pids :
                ~ /\ st[p] = "Waiting"
                  /\ st[c] = "Zombie"
                  /\ ppid'[c] = p
                  /\ Matches(waitFor'[p], c),
           fpu' \in FpVals, wstatus' \in Int, waitFor' \in [Pids -> Int],
           Schedule(st, fr, raw)
    PROVE  IInv'
<1>0. TypeOK
  BY DEF IInv
<1>1. /\ state' \in [Pids -> TableState]
      /\ frame' = [fr EXCEPT ![current] = ToTrapFrame(raw)]
      /\ frame' \in [Pids -> TrapFrame]
      /\ current' \in Pids
      /\ kernel' \in {"user", "off"}
      /\ cpu' \in TrapFrame
  BY <1>0, ScheduleFacts
<1>2. \A p \in Pids : /\ state'[p] = "Zombie" <=> st[p] = "Zombie"
                      /\ state'[p] = "None" <=> st[p] = "None"
                      /\ state'[p] = "Waiting" => st[p] = "Waiting"
  BY <1>0, ScheduleFacts
<1>3. kernel' = "user" =>
        /\ state'[current'] \in {"Ready", "Running"}
        /\ \A p \in Pids : state'[p] = "Running" => p = current'
        /\ cpu' = frame'[current']
  BY <1>0, ScheduleFacts
<1>4. kernel' = "off" =>
        /\ UNCHANGED <<current, cpu>>
        /\ \A p \in Pids : state'[p] \in {"None", "Zombie", "Waiting"}
  BY <1>0, ScheduleFacts
<1>5. current \in Pids
  BY <1>0 DEF TypeOK
<1>6. /\ frame'[current] = ToTrapFrame(raw)
      /\ \A p \in Pids \ {current} : frame'[p] = fr[p]
  BY <1>1, <1>5
<1>7. ToTrapFrame(raw).pc = "at" => ToTrapFrame(raw).a0 = EAGAIN
  BY DEF ToTrapFrame
<1>h. satp' \in 0..MaxPid /\ sscratch' \in Pids /\ RunsInOwnSpace'
  BY <1>0, ScheduleSpace DEF IInv
<1>a. TypeOK'
  BY <1>1, <1>h DEF TypeOK, TableState
<1>b. CurrentIsRunnable'
  BY <1>1, <1>3 DEF CurrentIsRunnable
<1>c. UnbornUntouched'
  BY <1>2 DEF UnbornUntouched
<1>d. HeldOnWait'
  <2>1. \A p \in Pids : frame'[p].pc = "at" => frame'[p].a0 = EAGAIN
    BY <1>6, <1>7
  <2>2. cpu'.pc = "at" => cpu'.a0 = EAGAIN
    <3>1. CASE kernel' = "user"
      BY <3>1, <1>1, <1>3, <2>1
    <3>2. CASE kernel' = "off"
      BY <3>2, <1>4 DEF IInv, HeldOnWait
    <3> QED BY <3>1, <3>2, <1>1
  <2> QED BY <2>1, <2>2 DEF HeldOnWait
<1>e. NoLostWakeup'
  <2> SUFFICES ASSUME NEW p \in Pids, NEW c \in Pids,
                      state'[p] = "Waiting", state'[c] = "Zombie",
                      ppid'[c] = p, Matches(waitFor'[p], c)
               PROVE  FALSE
    BY DEF NoLostWakeup, Matches
  <2> QED BY <1>2
<1>f. FramesWanted'
  <2>1. \A p \in Pids :
            state'[p] \in {"Ready", "Waiting", "Running"}
                => st[p] \in {"Ready", "Waiting", "Running"}
    BY <1>1, <1>2 DEF TableState, ProcState
  <2>2. \A p \in Pids : state'[p] \in {"Ready", "Waiting", "Running"}
            => Resumes(frame'[p], want'[p])
    BY <2>1, <1>6
  <2>3. kernel' = "user" => Resumes(cpu', want'[current'])
    BY <2>2, <1>1, <1>3
  <2> QED BY <2>2, <2>3, <1>1 DEF FramesWanted, Resumes
<1>g. OffMeansIdle'
  BY <1>4 DEF OffMeansIdle
<1> QED BY <1>a, <1>b, <1>c, <1>d, <1>e, <1>f, <1>g, <1>h DEF IInv

-----------------------------------------------------------------------------
(* One lemma per action.                                                   *)

LEMMA ZeroIsInt == 0 \in Int
OBVIOUS

\* What the current program hands to a handler and gets back.
LEMMA ReturnFacts ==
    ASSUME NEW r, r.a1 \in Vals, r.sp \in Vals, r.f \in FpVals,
           NEW arg \in Int, NEW ret \in Int, NEW pc \in {"at", "past"}
    PROVE  /\ Expects(r, ret) \in ResumeRegs
           /\ Return(SaveRegs(arg, r), pc, ret) \in RawFrame
           /\ Return(SaveRegs(arg, r), pc, ret).pc = pc
           /\ Return(SaveRegs(arg, r), pc, ret).a0 = ret
           /\ Resumes(ToTrapFrame(Return(SaveRegs(arg, r), pc, ret)),
                      Expects(r, ret))
<1>1. /\ Return(SaveRegs(arg, r), pc, ret) \in RawFrame
      /\ ToTrapFrame(Return(SaveRegs(arg, r), pc, ret)) =
            [pc |-> pc, a0 |-> ret, a1 |-> r.a1, sp |-> r.sp]
  BY RawFrameType, SMTT(30)
<1>2. Resumes([pc |-> pc, a0 |-> ret, a1 |-> r.a1, sp |-> r.sp],
              Expects(r, ret))
  BY DEF Resumes, Expects
<1>3. Expects(r, ret) \in ResumeRegs
  BY DEF Expects, ResumeRegs
<1>4. /\ Return(SaveRegs(arg, r), pc, ret).pc = pc
      /\ Return(SaveRegs(arg, r), pc, ret).a0 = ret
  BY DEF Return
<1> QED BY <1>1, <1>2, <1>3, <1>4

LEMMA NoRegsType == NoRegs.a1 \in Vals /\ NoRegs.sp \in Vals /\ NoRegs.f \in FpVals
BY SchedAssumption DEF NoRegs

\* The current process after Remember, and what IInv says of the others.
LEMMA RememberFacts ==
    ASSUME IInv, kernel \in {"user", "spin"},
           NEW r, NEW ret \in Int, Expects(r, ret) \in ResumeRegs,
           Remember(r, ret)
    PROVE  /\ want' \in [Pids -> ResumeRegs]
           /\ want'[current] = Expects(r, ret)
           /\ \A p \in Pids \ {current} : want'[p] = want[p]
           /\ \A p \in Pids \ {current} :
                state[p] \in {"Ready", "Waiting"} => Resumes(frame[p], want'[p])
<1>1. want \in [Pids -> ResumeRegs] /\ current \in Pids
  BY DEF IInv, TypeOK
<1>2. want' = [want EXCEPT ![current] = Expects(r, ret)]
  BY DEF Remember
<1>3. \A p \in Pids \ {current} :
        state[p] \in {"Ready", "Waiting"} => Resumes(frame[p], want[p])
  BY DEF IInv, FramesWanted
<1> QED BY <1>1, <1>2, <1>3

\* Calls that leave the process table alone.
LEMMA PlainReturnKeepsIInv ==
    ASSUME IInv, kernel \in {"user", "spin"},
           NEW raw \in RawFrame, raw.pc = "past",
           want' \in [Pids -> ResumeRegs],
           Resumes(ToTrapFrame(raw), want'[current]),
           \A p \in Pids \ {current} : want'[p] = want[p],
           fpu' \in FpVals,
           Schedule(state, frame, raw),
           UNCHANGED <<ppid, exitCode, nextPid, wstatus, waitFor>>
    PROVE  IInv'
<1>1. /\ TypeOK /\ CurrentIsRunnable /\ UnbornUntouched /\ HeldOnWait
      /\ NoLostWakeup /\ FramesWanted
  BY DEF IInv
<1>2. /\ state \in [Pids -> TableState] /\ frame \in [Pids -> TrapFrame]
      /\ state[current] # "None"
      /\ \A p \in Pids : state[p] = "Running" => p = current
  BY <1>1 DEF TypeOK, CurrentIsRunnable, TableState
<1>3. \A p \in Pids \ {current} :
        state[p] \in {"Ready", "Waiting"} => Resumes(frame[p], want'[p])
  BY <1>1 DEF FramesWanted
<1>4. \A p \in Pids : p >= nextPid' =>
        state[p] = "None" /\ ppid'[p] = 0 /\ exitCode'[p] = 0
  BY <1>1 DEF UnbornUntouched
<1>5. \A p, c \in Pids :
        ~ /\ state[p] = "Waiting"
          /\ state[c] = "Zombie"
          /\ ppid'[c] = p
          /\ Matches(waitFor'[p], c)
  BY <1>1 DEF NoLostWakeup
<1>6. \A p \in Pids : frame[p].pc = "at" => frame[p].a0 = EAGAIN
  BY <1>1 DEF HeldOnWait
<1>7. /\ nextPid' \in 1..(MaxPid + 1)
      /\ ppid' \in [Pids -> 0..MaxPid] /\ exitCode' \in [Pids -> Int]
      /\ wstatus' \in Int /\ waitFor' \in [Pids -> Int]
  BY <1>1 DEF TypeOK
<1> QED BY <1>2, <1>3, <1>4, <1>5, <1>6, <1>7, HandlerKeepsIInv, SMTT(60)

LEMMA OtherKeepsIInv ==
    ASSUME IInv, NEW r \in UserRegs, NEW ret \in Results, SysOther(r, ret)
    PROVE  IInv'
<1>1. /\ kernel = "user" /\ fpu' = r.f
      /\ Remember(r, ret)
      /\ Schedule(state, frame, Return(SaveRegs(0, r), "past", ret))
      /\ UNCHANGED <<ppid, exitCode, nextPid, wstatus, waitFor>>
  BY DEF SysOther, Calls
<1>2. r.a1 \in Vals /\ r.sp \in Vals /\ r.f \in FpVals /\ ret \in Int
  BY SchedAssumption DEF UserRegs
<1> DEFINE raw == Return(SaveRegs(0, r), "past", ret)
<1>3. /\ Expects(r, ret) \in ResumeRegs
      /\ raw \in RawFrame /\ raw.pc = "past"
      /\ Resumes(ToTrapFrame(raw), Expects(r, ret))
  BY <1>2, ZeroIsInt, ReturnFacts, SMTT(30)
<1>4. /\ want' \in [Pids -> ResumeRegs]
      /\ want'[current] = Expects(r, ret)
      /\ \A p \in Pids \ {current} : want'[p] = want[p]
  BY <1>1, <1>2, <1>3, RememberFacts
<1> HIDE DEF raw
<1> QED BY <1>1, <1>2, <1>3, <1>4, PlainReturnKeepsIInv, SMTT(60) DEF raw

LEMMA ExecveKeepsIInv ==
    ASSUME IInv, NEW r \in UserRegs, NEW top \in Vals, SysExecve(r, top)
    PROVE  IInv'
<1> DEFINE new == [a1 |-> r.a1, sp |-> top, f |-> r.f]
           raw == Return(SaveRegs(0, new), "past", 0)
<1>1. /\ kernel = "user" /\ fpu' = r.f
      /\ Remember(new, 0)
      /\ Schedule(state, frame, raw)
      /\ UNCHANGED <<ppid, exitCode, nextPid, wstatus, waitFor>>
  BY DEF SysExecve, Calls
<1>2. new.a1 \in Vals /\ new.sp \in Vals /\ new.f \in FpVals /\ new.f = r.f
  BY DEF UserRegs
<1> HIDE DEF new
<1>3. /\ Expects(new, 0) \in ResumeRegs
      /\ raw \in RawFrame /\ raw.pc = "past"
      /\ Resumes(ToTrapFrame(raw), Expects(new, 0))
  BY <1>2, ZeroIsInt, ReturnFacts, SMTT(30)
<1>4. /\ want' \in [Pids -> ResumeRegs]
      /\ want'[current] = Expects(new, 0)
      /\ \A p \in Pids \ {current} : want'[p] = want[p]
  BY <1>1, <1>3, RememberFacts
<1> HIDE DEF raw
<1> QED BY <1>1, <1>2, <1>3, <1>4, PlainReturnKeepsIInv, SMTT(60)

LEMMA SpinBeginKeepsIInv ==
    ASSUME IInv, NEW r \in UserRegs, SpinBegin(r)
    PROVE  IInv'
<1>1. /\ kernel = "user" /\ fpu' = r.f
      /\ Remember(r, 0)
      /\ kernel' = "spin"
      /\ cpu' = [pc |-> "past", a0 |-> 0, a1 |-> r.a1, sp |-> r.sp]
      /\ UNCHANGED <<tableVars, current, spaceVars, wstatus, waitFor>>
  BY DEF SpinBegin, Calls
<1>2. r.a1 \in Vals /\ r.sp \in Vals /\ r.f \in FpVals
  BY DEF UserRegs
<1>3. Expects(r, 0) \in ResumeRegs
  BY <1>2, SMTT(30) DEF Expects, ResumeRegs
<1>4. /\ want' \in [Pids -> ResumeRegs]
      /\ want'[current] = Expects(r, 0)
      /\ \A p \in Pids \ {current} : want'[p] = want[p]
      /\ \A p \in Pids \ {current} :
            state[p] \in {"Ready", "Waiting"} => Resumes(frame[p], want'[p])
  BY <1>1, <1>3, RememberFacts
<1>5. Resumes(cpu', want'[current])
  BY <1>1, <1>4, SMTT(30) DEF Resumes, Expects
<1>6. cpu' \in TrapFrame
  BY <1>1, <1>2 DEF TrapFrame
<1>7. cpu'.pc = "past" /\ cpu'.a0 = 0
  BY <1>1
<1>8. UNCHANGED <<state, ppid, exitCode, frame, nextPid, current, satp, sscratch,
                  wstatus, waitFor>>
  BY <1>1 DEF tableVars, spaceVars
<1>9. /\ TypeOK /\ CurrentIsRunnable /\ UnbornUntouched /\ HeldOnWait
      /\ NoLostWakeup /\ RunsInOwnSpace
  BY DEF IInv
<1>a. TypeOK'
  BY <1>1, <1>2, <1>4, <1>6, <1>8, <1>9 DEF TypeOK
<1>b. CurrentIsRunnable' /\ UnbornUntouched' /\ NoLostWakeup'
  BY <1>1, <1>8, <1>9 DEF CurrentIsRunnable, UnbornUntouched, NoLostWakeup, Matches
<1>c. HeldOnWait'
  BY <1>7, <1>8, <1>9 DEF HeldOnWait
<1>d. FramesWanted' /\ OffMeansIdle'
  BY <1>1, <1>4, <1>5, <1>7, <1>8 DEF FramesWanted, OffMeansIdle, Resumes
<1>e. RunsInOwnSpace'
  BY <1>1, <1>8, <1>9 DEF RunsInOwnSpace
<1> QED BY <1>a, <1>b, <1>c, <1>d, <1>e DEF IInv

LEMMA SpinEndKeepsIInv ==
    ASSUME IInv, SpinEnd
    PROVE  IInv'
<1> DEFINE raw == Return(SaveRegs(0, cpu), "past", 0)
<1>1. /\ kernel = "spin"
      /\ Schedule(state, frame, raw)
      /\ UNCHANGED <<ppid, exitCode, nextPid, fpu, wstatus, waitFor, want>>
  BY DEF SpinEnd, history
<1>2. /\ cpu \in TrapFrame /\ want \in [Pids -> ResumeRegs] /\ fpu \in FpVals
      /\ cpu.pc = "past" /\ cpu.a0 = 0
      /\ Resumes(cpu, want[current])
  BY <1>1 DEF IInv, TypeOK, FramesWanted
<1>3. cpu.a1 \in Vals /\ cpu.sp \in Vals
  BY <1>2 DEF TrapFrame
<1>4. /\ raw \in RawFrame
      /\ ToTrapFrame(raw) =
            [pc |-> "past", a0 |-> 0, a1 |-> cpu.a1, sp |-> cpu.sp]
  BY <1>3, RawFrameType, SMTT(30)
<1>5. Resumes(ToTrapFrame(raw), want[current])
  BY <1>2, <1>4 DEF Resumes
<1>6. raw.pc = "past"
  BY DEF Return
<1> HIDE DEF raw
<1> QED BY <1>1, <1>2, <1>4, <1>5, <1>6, PlainReturnKeepsIInv, SMTT(60)

LEMMA CloneKeepsIInv ==
    ASSUME IInv, NEW r \in UserRegs, NEW stack \in Vals \cup {0},
           SysClone(r, stack)
    PROVE  IInv'
<1> DEFINE child == nextPid
           new == [a1 |-> r.a1, sp |-> IF stack # 0 THEN stack ELSE r.sp,
                   f |-> r.f]
           childTf == [pc |-> "past", a0 |-> 0, a1 |-> new.a1, sp |-> new.sp]
           raw == Return(SaveRegs(0, r), "past", child)
           st == [state EXCEPT ![child] = "Ready"]
           fr == [frame EXCEPT ![child] = childTf]
<1>1. /\ kernel = "user" /\ fpu' = r.f /\ nextPid <= MaxPid
      /\ nextPid' = nextPid + 1
      /\ ppid' = [ppid EXCEPT ![child] = current]
      /\ exitCode' = [exitCode EXCEPT ![child] = 0]
      /\ want' = [want EXCEPT ![current] = Expects(r, child),
                              ![child] = Expects(new, 0)]
      /\ Schedule(st, fr, raw)
      /\ UNCHANGED <<wstatus, waitFor>>
  BY DEF SysClone, Calls
<1>2. /\ TypeOK /\ CurrentIsRunnable /\ UnbornUntouched /\ HeldOnWait
      /\ NoLostWakeup /\ FramesWanted
  BY DEF IInv
<1>3. /\ r.a1 \in Vals /\ r.sp \in Vals /\ r.f \in FpVals
      /\ new.a1 \in Vals /\ new.sp \in Vals /\ new.f \in FpVals
  BY DEF UserRegs
<1> HIDE DEF new
<1>4. /\ child \in Pids /\ child \in Int /\ current \in Pids
      /\ current # child /\ state[child] = "None"
  <2>1. child \in Pids /\ child \in Int
    BY <1>1, <1>2, SchedAssumption, SMTT(30) DEF TypeOK, Pids
  <2>2. child >= nextPid
    BY <2>1, SMTT(30)
  <2>3. current \in Pids
    BY <1>2 DEF TypeOK
  <2>4. state[child] = "None"
    BY <1>2, <2>1, <2>2 DEF UnbornUntouched
  <2>5. state[current] # "None"
    BY <1>1, <1>2 DEF CurrentIsRunnable
  <2> QED BY <2>1, <2>3, <2>4, <2>5
<1>5. /\ raw \in RawFrame /\ raw.pc = "past"
      /\ Expects(r, child) \in ResumeRegs
      /\ Resumes(ToTrapFrame(raw), Expects(r, child))
  BY <1>3, <1>4, ZeroIsInt, ReturnFacts, SMTT(30)
<1>6. Expects(new, 0) \in ResumeRegs
  BY <1>3, SMTT(30) DEF Expects, ResumeRegs
<1>7. /\ childTf \in TrapFrame /\ childTf.pc = "past"
      /\ Resumes(childTf, Expects(new, 0))
  BY <1>3 DEF TrapFrame, Resumes, Expects
<1> HIDE DEF childTf, raw
<1>8. /\ want' \in [Pids -> ResumeRegs]
      /\ want'[current] = Expects(r, child)
      /\ want'[child] = Expects(new, 0)
      /\ \A p \in Pids \ {current, child} : want'[p] = want[p]
  BY <1>1, <1>2, <1>4, <1>5, <1>6 DEF TypeOK
<1>9. /\ st \in [Pids -> TableState] /\ st[child] = "Ready"
      /\ fr \in [Pids -> TrapFrame] /\ fr[child] = childTf
      /\ \A p \in Pids \ {child} : st[p] = state[p] /\ fr[p] = frame[p]
  BY <1>2, <1>4, <1>7 DEF TypeOK, TableState, ProcState
<1> HIDE DEF st, fr
<1>10. /\ \A p \in Pids : st[p] = "Running" => p = current
       /\ st[current] # "None"
  BY <1>1, <1>2, <1>4, <1>9 DEF CurrentIsRunnable
<1>11. \A p \in Pids \ {current} :
         st[p] \in {"Ready", "Waiting"} => Resumes(fr[p], want'[p])
  <2>1. \A p \in Pids \ {current} :
          state[p] \in {"Ready", "Waiting"} => Resumes(frame[p], want[p])
    BY <1>1, <1>2 DEF FramesWanted
  <2> QED BY <2>1, <1>7, <1>8, <1>9
<1>12. \A p \in Pids : fr[p].pc = "at" => fr[p].a0 = EAGAIN
  BY <1>2, <1>7, <1>9 DEF HeldOnWait
<1>13. /\ nextPid' \in 1..(MaxPid + 1)
       /\ ppid' \in [Pids -> 0..MaxPid] /\ exitCode' \in [Pids -> Int]
       /\ fpu' \in FpVals /\ wstatus' \in Int /\ waitFor' \in [Pids -> Int]
  <2>1. nextPid' \in 1..(MaxPid + 1) /\ current \in 0..MaxPid
    BY <1>1, <1>2, <1>4, SchedAssumption, SMTT(30) DEF TypeOK, Pids
  <2> QED BY <2>1, <1>1, <1>2, <1>3, <1>4, SMTT(30) DEF TypeOK
<1>14. \A p \in Pids : p >= nextPid' =>
         st[p] = "None" /\ ppid'[p] = 0 /\ exitCode'[p] = 0
  BY <1>1, <1>2, <1>4, <1>9, SMTT(30) DEF UnbornUntouched, Pids, TypeOK
<1>15. \A p, c \in Pids :
         ~ /\ st[p] = "Waiting"
           /\ st[c] = "Zombie"
           /\ ppid'[c] = p
           /\ Matches(waitFor'[p], c)
  BY <1>1, <1>2, <1>4, <1>9 DEF NoLostWakeup, TypeOK
<1>16. /\ Resumes(ToTrapFrame(raw), want'[current])
       /\ kernel \in {"user", "spin"}
       /\ Schedule(st, fr, raw)
       /\ raw \in RawFrame /\ raw.pc # "at"
  BY <1>1, <1>5, <1>8, SMTT(30)
<1> HIDE DEF child
<1> QED
  BY <1>16, <1>8, <1>9, <1>10, <1>11, <1>12, <1>13, <1>14, <1>15,
     HandlerKeepsIInv, SMTT(60)

LEMMA ExitKeepsIInv ==
    ASSUME IInv, NEW code \in ExitCodes, SysExit(code)
    PROVE  IInv'
<1> DEFINE raw == Return(SaveRegs(code, NoRegs), "past", 0)
           st == WakeParent([state EXCEPT ![current] = "Zombie"])
<1>1. /\ kernel = "user" /\ fpu' = NoRegs.f
      /\ Remember(NoRegs, 0)
      /\ exitCode' = [exitCode EXCEPT ![current] = code]
      /\ Schedule(st, frame, raw)
      /\ UNCHANGED <<ppid, nextPid, wstatus, waitFor>>
  BY DEF SysExit, Calls
<1>2. /\ TypeOK /\ CurrentIsRunnable /\ UnbornUntouched /\ HeldOnWait
      /\ NoLostWakeup /\ FramesWanted
  BY DEF IInv
<1>3. code \in Int /\ current \in Pids
  BY <1>2, SchedAssumption, SMTT(30) DEF TypeOK
<1>4. /\ raw \in RawFrame /\ raw.pc = "past"
      /\ Expects(NoRegs, 0) \in ResumeRegs
      /\ Resumes(ToTrapFrame(raw), Expects(NoRegs, 0))
  BY <1>3, NoRegsType, ZeroIsInt, ReturnFacts, SMTT(30)
<1> HIDE DEF raw
<1>5. /\ want' \in [Pids -> ResumeRegs]
      /\ want'[current] = Expects(NoRegs, 0)
      /\ \A p \in Pids \ {current} : want'[p] = want[p]
  BY <1>1, <1>4, RememberFacts
<1>6. /\ st \in [Pids -> TableState] /\ st[current] = "Zombie"
      /\ \A p \in Pids \ {current} :
            st[p] = IF p = ppid[current] /\ state[p] = "Waiting"
                    THEN "Ready" ELSE state[p]
  BY <1>2, <1>3 DEF TypeOK, TableState, ProcState, WakeParent
<1> HIDE DEF st
<1>7. /\ \A p \in Pids : st[p] = "Running" => p = current
      /\ st[current] # "None"
  BY <1>1, <1>2, <1>6 DEF CurrentIsRunnable
<1>8. \A p \in Pids \ {current} :
        st[p] \in {"Ready", "Waiting"} => Resumes(frame[p], want'[p])
  <2>1. \A p \in Pids \ {current} :
          state[p] \in {"Ready", "Waiting"} => Resumes(frame[p], want[p])
    BY <1>1, <1>2 DEF FramesWanted
  <2> QED BY <2>1, <1>5, <1>6
<1>9. \A p \in Pids : frame[p].pc = "at" => frame[p].a0 = EAGAIN
  BY <1>2 DEF HeldOnWait
<1>10. /\ nextPid' \in 1..(MaxPid + 1)
       /\ ppid' \in [Pids -> 0..MaxPid] /\ exitCode' \in [Pids -> Int]
       /\ wstatus' \in Int /\ waitFor' \in [Pids -> Int]
       /\ frame \in [Pids -> TrapFrame]
  BY <1>1, <1>2, <1>3 DEF TypeOK
<1>11. \A p \in Pids : p >= nextPid' =>
         st[p] = "None" /\ ppid'[p] = 0 /\ exitCode'[p] = 0
  <2>1. state[current] # "None"
    BY <1>1, <1>2 DEF CurrentIsRunnable
  <2> QED BY <2>1, <1>1, <1>2, <1>3, <1>6 DEF UnbornUntouched, TypeOK
<1>12. \A p, c \in Pids :
         ~ /\ st[p] = "Waiting"
           /\ st[c] = "Zombie"
           /\ ppid'[c] = p
           /\ Matches(waitFor'[p], c)
  BY <1>1, <1>2, <1>6 DEF NoLostWakeup
<1>13. fpu' \in FpVals
  BY <1>1, NoRegsType, SMTT(30)
<1> QED
  BY <1>1, <1>4, <1>5, <1>6, <1>7, <1>8, <1>9, <1>10, <1>11, <1>12, <1>13,
     HandlerKeepsIInv, SMTT(60)

\* wait4 finds a zombie.
LEMMA ReapKeepsIInv ==
    ASSUME IInv, kernel = "user", NEW arg \in Int,
           NEW r, r.a1 \in Vals, r.sp \in Vals, r.f \in FpVals,
           fpu' \in FpVals, UNCHANGED nextPid, Reap(arg, r)
    PROVE  IInv'
<1> PICK z \in Collectable(arg) :
        /\ wstatus' = IF r.a1 = 0 THEN wstatus ELSE ExitStatus(exitCode[z])
        /\ ppid' = [ppid EXCEPT ![z] = 0]
        /\ exitCode' = [exitCode EXCEPT ![z] = 0]
        /\ Schedule([state EXCEPT ![z] = "None"], frame,
                    Return(SaveRegs(arg, r), "past", z))
        /\ Remember(r, z)
        /\ waitFor' = [waitFor EXCEPT ![current] = AnyChild]
  BY ZenonT(30) DEF Reap
<1> DEFINE raw == Return(SaveRegs(arg, r), "past", z)
           st == [state EXCEPT ![z] = "None"]
<1>1. Schedule(st, frame, raw)
  OBVIOUS
<1>2. /\ TypeOK /\ CurrentIsRunnable /\ UnbornUntouched /\ HeldOnWait
      /\ NoLostWakeup /\ FramesWanted
  BY DEF IInv
<1>3. z \in Pids /\ z \in Int /\ state[z] = "Zombie" /\ current \in Pids
  BY <1>2, SMTT(30) DEF Collectable, TypeOK, Pids
<1>4. /\ raw \in RawFrame /\ raw.pc = "past"
      /\ Expects(r, z) \in ResumeRegs
      /\ Resumes(ToTrapFrame(raw), Expects(r, z))
  BY <1>3, ZeroIsInt, ReturnFacts, SMTT(30)
<1> HIDE DEF raw
<1>5. /\ want' \in [Pids -> ResumeRegs]
      /\ want'[current] = Expects(r, z)
      /\ \A p \in Pids \ {current} :
            state[p] \in {"Ready", "Waiting"} => Resumes(frame[p], want'[p])
  BY <1>3, <1>4, RememberFacts
<1>6. /\ st \in [Pids -> TableState] /\ st[z] = "None"
      /\ \A p \in Pids \ {z} : st[p] = state[p]
  BY <1>2, <1>3 DEF TypeOK, TableState
<1> HIDE DEF st
<1>7. /\ \A p \in Pids : st[p] = "Running" => p = current
      /\ st[current] # "None"
  BY <1>2, <1>3, <1>6 DEF CurrentIsRunnable
<1>8. \A p \in Pids \ {current} :
        st[p] \in {"Ready", "Waiting"} => Resumes(frame[p], want'[p])
  BY <1>5, <1>6
<1>9. \A p \in Pids : frame[p].pc = "at" => frame[p].a0 = EAGAIN
  BY <1>2 DEF HeldOnWait
<1>10. /\ nextPid' \in 1..(MaxPid + 1)
       /\ ppid' \in [Pids -> 0..MaxPid] /\ exitCode' \in [Pids -> Int]
       /\ waitFor' \in [Pids -> Int]
       /\ frame \in [Pids -> TrapFrame]
  BY <1>2, <1>3, SchedAssumption, SMTT(30) DEF TypeOK, AnyChild
<1>11. wstatus' \in Int
  <2>1. exitCode[z] \in Int /\ wstatus \in Int
    BY <1>2, <1>3 DEF TypeOK
  <2>2. ExitStatus(exitCode[z]) \in Int
    BY <2>1, SMTT(30) DEF ExitStatus
  <2> QED BY <2>1, <2>2
<1>12. \A p \in Pids : p >= nextPid' =>
         st[p] = "None" /\ ppid'[p] = 0 /\ exitCode'[p] = 0
  BY <1>2, <1>3, <1>6 DEF UnbornUntouched, TypeOK
<1>13. \A p, c \in Pids :
         ~ /\ st[p] = "Waiting"
           /\ st[c] = "Zombie"
           /\ ppid'[c] = p
           /\ Matches(waitFor'[p], c)
  <2> SUFFICES ASSUME NEW p \in Pids, NEW c \in Pids, st[p] = "Waiting",
                      st[c] = "Zombie", ppid'[c] = p, Matches(waitFor'[p], c)
               PROVE  FALSE
    OBVIOUS
  <2>1. p # current
    BY <1>2, <1>3, <1>6 DEF CurrentIsRunnable
  <2>2. waitFor'[p] = waitFor[p] /\ ppid[c] = p /\ state[p] = "Waiting"
        /\ state[c] = "Zombie"
    BY <2>1, <1>2, <1>6, SMTT(30) DEF TypeOK
  <2> QED BY <2>2, <1>2 DEF NoLostWakeup
<1>14. /\ Resumes(ToTrapFrame(raw), want'[current])
       /\ kernel \in {"user", "spin"}
       /\ raw \in RawFrame /\ raw.pc # "at"
       /\ want' \in [Pids -> ResumeRegs]
       /\ st \in [Pids -> TableState]
  BY <1>4, <1>5, <1>6
<1> QED
  BY <1>1, <1>7, <1>8, <1>9, <1>10, <1>11, <1>12, <1>13, <1>14,
     HandlerKeepsIInv, SMTT(60)

\* wait4 finds none and the caller does not want to wait.
LEMMA NoHangKeepsIInv ==
    ASSUME IInv, kernel = "user", NEW arg \in Int,
           NEW r, r.a1 \in Vals, r.sp \in Vals, r.f \in FpVals,
           fpu' \in FpVals, UNCHANGED nextPid, WaitNoHang(arg, r)
    PROVE  IInv'
<1> DEFINE raw == Return(SaveRegs(arg, r), "past", 0)
<1>1. /\ Schedule(state, frame, raw) /\ Remember(r, 0)
      /\ UNCHANGED <<ppid, exitCode, nextPid, wstatus, waitFor>>
  BY DEF WaitNoHang
<1>2. /\ Expects(r, 0) \in ResumeRegs
      /\ raw \in RawFrame /\ raw.pc = "past"
      /\ Resumes(ToTrapFrame(raw), Expects(r, 0))
  BY ZeroIsInt, ReturnFacts, SMTT(30)
<1>3. /\ want' \in [Pids -> ResumeRegs]
      /\ want'[current] = Expects(r, 0)
      /\ \A p \in Pids \ {current} : want'[p] = want[p]
  BY <1>1, <1>2, RememberFacts, SMTT(30)
<1> HIDE DEF raw
<1> QED BY <1>1, <1>2, <1>3, PlainReturnKeepsIInv, SMTT(60)

\* wait4 finds none and blocks.  A call executed again looks for any child,
\* so that it finds none rules out the child its program named as well.
LEMMA BlockKeepsIInv ==
    ASSUME IInv, kernel = "user", NEW arg \in Int,
           cpu.pc = "at" => arg = EAGAIN,
           NEW r, r.a1 \in Vals, r.sp \in Vals, r.f \in FpVals,
           fpu' \in FpVals, UNCHANGED nextPid, WaitBlock(arg, r)
    PROVE  IInv'
<1> DEFINE raw == Return(SaveRegs(arg, r), "at", EAGAIN)
           st == [state EXCEPT ![current] = "Waiting"]
<1>1. /\ Collectable(arg) = {}
      /\ Schedule(st, frame, raw)
      /\ Remember(r, EAGAIN)
      /\ waitFor' = [waitFor EXCEPT ![current] = IF cpu.pc = "at" THEN @ ELSE arg]
      /\ UNCHANGED <<ppid, exitCode, wstatus>>
  BY DEF WaitBlock
<1>2. /\ TypeOK /\ CurrentIsRunnable /\ UnbornUntouched /\ HeldOnWait
      /\ NoLostWakeup /\ FramesWanted
  BY DEF IInv
<1>3. current \in Pids /\ EAGAIN \in Int
  BY <1>2, SMTT(30) DEF TypeOK, EAGAIN
<1>4. /\ Expects(r, EAGAIN) \in ResumeRegs
      /\ raw \in RawFrame /\ raw.a0 = EAGAIN
      /\ Resumes(ToTrapFrame(raw), Expects(r, EAGAIN))
  BY <1>3, ZeroIsInt, ReturnFacts, SMTT(30)
<1> HIDE DEF raw
<1>5. /\ want' \in [Pids -> ResumeRegs]
      /\ want'[current] = Expects(r, EAGAIN)
      /\ \A p \in Pids \ {current} :
            state[p] \in {"Ready", "Waiting"} => Resumes(frame[p], want'[p])
  BY <1>1, <1>3, <1>4, RememberFacts
<1>6. /\ st \in [Pids -> TableState] /\ st[current] = "Waiting"
      /\ \A p \in Pids \ {current} : st[p] = state[p]
  BY <1>2, <1>3 DEF TypeOK, TableState, ProcState
<1> HIDE DEF st
<1>7. /\ \A p \in Pids : st[p] = "Running" => p = current
      /\ st[current] # "None"
  BY <1>2, <1>6 DEF CurrentIsRunnable
<1>8. \A p \in Pids \ {current} :
        st[p] \in {"Ready", "Waiting"} => Resumes(frame[p], want'[p])
  BY <1>5, <1>6
<1>9. \A p \in Pids : frame[p].pc = "at" => frame[p].a0 = EAGAIN
  BY <1>2 DEF HeldOnWait
<1>10. /\ nextPid' \in 1..(MaxPid + 1)
       /\ ppid' \in [Pids -> 0..MaxPid] /\ exitCode' \in [Pids -> Int]
       /\ wstatus' \in Int /\ waitFor' \in [Pids -> Int]
       /\ frame \in [Pids -> TrapFrame]
  BY <1>1, <1>2, <1>3 DEF TypeOK
<1>11. \A p \in Pids : p >= nextPid' =>
         st[p] = "None" /\ ppid'[p] = 0 /\ exitCode'[p] = 0
  <2>1. state[current] # "None"
    BY <1>2 DEF CurrentIsRunnable
  <2> QED BY <2>1, <1>1, <1>2, <1>6 DEF UnbornUntouched
<1>12. \A p, c \in Pids :
         ~ /\ st[p] = "Waiting"
           /\ st[c] = "Zombie"
           /\ ppid'[c] = p
           /\ Matches(waitFor'[p], c)
  <2> SUFFICES ASSUME NEW p \in Pids, NEW c \in Pids, st[p] = "Waiting",
                      st[c] = "Zombie", ppid[c] = p, Matches(waitFor'[p], c)
               PROVE  FALSE
    BY <1>1
  <2>1. state[c] = "Zombie"
    BY <1>6
  <2>2. CASE p # current
    <3>1. waitFor'[p] = waitFor[p] /\ state[p] = "Waiting"
      BY <2>2, <1>1, <1>2, <1>6 DEF TypeOK
    <3> QED BY <3>1, <2>1, <1>2 DEF NoLostWakeup
  <2>3. CASE p = current
    <3>1. ~ Matches(arg, c)
      BY <2>1, <2>3, <1>1 DEF Collectable
    <3>2. cpu.pc # "at"
      BY <3>1 DEF Matches, EAGAIN
    <3>3. waitFor'[p] = arg
      BY <3>2, <2>3, <1>1, <1>2 DEF TypeOK
    <3> QED BY <3>1, <3>3
  <2> QED BY <2>2, <2>3
<1>13. /\ Resumes(ToTrapFrame(raw), want'[current])
       /\ kernel \in {"user", "spin"}
       /\ Schedule(st, frame, raw)
       /\ raw \in RawFrame /\ raw.a0 = EAGAIN
       /\ want' \in [Pids -> ResumeRegs]
       /\ st \in [Pids -> TableState]
  BY <1>1, <1>4, <1>5, <1>6
<1> QED
  BY <1>7, <1>8, <1>9, <1>10, <1>11, <1>12, <1>13, HandlerKeepsIInv, SMTT(60)

LEMMA Wait4KeepsIInv ==
    ASSUME IInv, NEW r \in UserRegs, NEW arg \in Pids \cup {AnyChild},
           SysWait4(r, arg)
    PROVE  IInv'
<1>1. /\ kernel = "user" /\ cpu.pc # "at" /\ fpu' = r.f
      /\ Reap(arg, r) \/ WaitNoHang(arg, r) \/ WaitBlock(arg, r)
      /\ UNCHANGED nextPid
  BY DEF SysWait4, Calls
<1>2. r.a1 \in Vals /\ r.sp \in Vals /\ r.f \in FpVals /\ arg \in Int
  BY SMTT(30) DEF UserRegs, Pids, AnyChild
<1> QED BY <1>1, <1>2, ReapKeepsIInv, NoHangKeepsIInv, BlockKeepsIInv

LEMMA Wait4AgainKeepsIInv ==
    ASSUME IInv, SysWait4Again
    PROVE  IInv'
<1> DEFINE r == [a1 |-> cpu.a1, sp |-> cpu.sp, f |-> fpu]
<1>1. /\ kernel = "user" /\ cpu.pc = "at" /\ UNCHANGED <<nextPid, fpu>>
      /\ Reap(cpu.a0, r) \/ WaitBlock(cpu.a0, r)
  BY DEF SysWait4Again
<1>2. cpu \in TrapFrame /\ fpu \in FpVals /\ cpu.a0 = EAGAIN
  BY <1>1 DEF IInv, TypeOK, HeldOnWait
<1>3. r.a1 \in Vals /\ r.sp \in Vals /\ r.f \in FpVals /\ cpu.a0 \in Int
  BY <1>2 DEF TrapFrame
<1> HIDE DEF r
<1> QED BY <1>1, <1>2, <1>3, ReapKeepsIInv, BlockKeepsIInv

LEMMA FaultKeepsIInv ==
    ASSUME IInv, Fault
    PROVE  IInv'
<1>1. /\ kernel' = "hung"
      /\ UNCHANGED <<state, ppid, exitCode, frame, nextPid, current, cpu, fpu,
                     satp, sscratch, wstatus, waitFor, want>>
  BY DEF Fault, tableVars, spaceVars, history
<1>2. /\ TypeOK /\ UnbornUntouched /\ HeldOnWait /\ NoLostWakeup
  BY DEF IInv
<1>a. TypeOK'
  BY <1>1, <1>2 DEF TypeOK
<1>b. CurrentIsRunnable' /\ FramesWanted' /\ OffMeansIdle' /\ RunsInOwnSpace'
  BY <1>1 DEF CurrentIsRunnable, FramesWanted, OffMeansIdle, RunsInOwnSpace
<1>c. UnbornUntouched' /\ HeldOnWait' /\ NoLostWakeup'
  BY <1>1, <1>2, SMTT(30) DEF UnbornUntouched, HeldOnWait, NoLostWakeup, Matches
<1> QED BY <1>a, <1>b, <1>c DEF IInv

LEMMA StutterKeepsIInv ==
    ASSUME IInv, UNCHANGED vars
    PROVE  IInv'
<1>1. UNCHANGED <<state, ppid, exitCode, frame, nextPid, current, kernel, cpu,
                  fpu, satp, sscratch, wstatus, waitFor, want>>
  BY DEF vars, tableVars, spaceVars, history
<1>2. TypeOK'
  BY <1>1 DEF IInv, TypeOK
<1>3. CurrentIsRunnable' /\ UnbornUntouched' /\ HeldOnWait' /\ NoLostWakeup'
  BY <1>1 DEF IInv, CurrentIsRunnable, UnbornUntouched, HeldOnWait,
              NoLostWakeup, Matches
<1>4. FramesWanted' /\ OffMeansIdle' /\ RunsInOwnSpace'
  BY <1>1 DEF IInv, FramesWanted, Resumes, OffMeansIdle, RunsInOwnSpace
<1> QED BY <1>2, <1>3, <1>4 DEF IInv

LEMMA InitIInv == Init => IInv
<1> SUFFICES ASSUME Init PROVE IInv
  OBVIOUS
<1>1. 1 \in Pids /\ Pids \subseteq Int
  BY SchedAssumption DEF Pids
<1>2. NoFrame \in TrapFrame /\ NoRegs \in ResumeRegs
  BY SchedAssumption DEF NoFrame, NoRegs, TrapFrame, ResumeRegs
<1>a. TypeOK
  BY <1>1, <1>2, SchedAssumption
     DEF Init, TypeOK, ProcState, AnyChild
<1>b. CurrentIsRunnable /\ UnbornUntouched /\ NoLostWakeup
  BY <1>1 DEF Init, CurrentIsRunnable, UnbornUntouched, NoLostWakeup
<1>c. HeldOnWait /\ FramesWanted /\ OffMeansIdle /\ RunsInOwnSpace
  BY <1>1 DEF Init, HeldOnWait, FramesWanted, OffMeansIdle, RunsInOwnSpace,
              Resumes, NoFrame, NoRegs
<1> QED BY <1>a, <1>b, <1>c DEF IInv

LEMMA NextKeepsIInv == IInv /\ [Next]_vars => IInv'
<1> SUFFICES ASSUME IInv, [Next]_vars PROVE IInv'
  OBVIOUS
<1>1. CASE \E r \in UserRegs, ret \in Results : SysOther(r, ret)
  BY <1>1, OtherKeepsIInv
<1>2. CASE \E r \in UserRegs : SpinBegin(r)
  BY <1>2, SpinBeginKeepsIInv
<1>3. CASE \E r \in UserRegs, stack \in Vals \cup {0} : SysClone(r, stack)
  BY <1>3, CloneKeepsIInv
<1>4. CASE \E r \in UserRegs, top \in Vals : SysExecve(r, top)
  BY <1>4, ExecveKeepsIInv
<1>5. CASE \E r \in UserRegs, arg \in Pids \cup {AnyChild} : SysWait4(r, arg)
  BY <1>5, Wait4KeepsIInv
<1>6. CASE \E code \in ExitCodes : SysExit(code)
  BY <1>6, ExitKeepsIInv
<1>7. CASE SysWait4Again
  BY <1>7, Wait4AgainKeepsIInv
<1>8. CASE Fault
  BY <1>8, FaultKeepsIInv
<1>9. CASE SpinEnd
  BY <1>9, SpinEndKeepsIInv
<1>10. CASE Halted
  BY <1>10, StutterKeepsIInv DEF Halted
<1>11. CASE UNCHANGED vars
  BY <1>11, StutterKeepsIInv
<1> QED
  BY <1>1, <1>2, <1>3, <1>4, <1>5, <1>6, <1>7, <1>8, <1>9, <1>10, <1>11
     DEF Next, Trap

\* IInv holds in every reachable state, for every number of processes.
THEOREM Invariance == Spec => []IInv
BY InitIInv, NextKeepsIInv, PTL DEF Spec

-----------------------------------------------------------------------------
(* The properties.                                                         *)

\* Every variable keeps its type.
THEOREM TypeCorrect == Spec => []TypeOK
<1>1. IInv => TypeOK
  BY DEF IInv
<1> QED BY <1>1, Invariance, PTL

\* do_schedule always leaves a runnable process current and alone Running.
THEOREM CurrentAlwaysRunnable == Spec => []CurrentIsRunnable
<1>1. IInv => CurrentIsRunnable
  BY DEF IInv
<1> QED BY <1>1, Invariance, PTL

\* A program runs on its own page table and traps onto its own kernel stack.
THEOREM AlwaysRunsInOwnSpace == Spec => []RunsInOwnSpace
<1>1. IInv => RunsInOwnSpace
  BY DEF IInv
<1> QED BY <1>1, Invariance, PTL

\* No exit is missed by a parent blocked in wait4.
THEOREM WakeupsNeverLost == Spec => []NoLostWakeup
<1>1. IInv => NoLostWakeup
  BY DEF IInv
<1> QED BY <1>1, Invariance, PTL

\* Power-off strands no process that could run.
THEOREM PowerOffAlwaysFinal == Spec => []PowerOffIsFinal
<1>1. IInv => PowerOffIsFinal
  BY DEF IInv, OffMeansIdle, NoLostWakeup, PowerOffIsFinal
<1> QED BY <1>1, Invariance, PTL

\* Integer registers survive every context switch.
THEOREM ContextAlwaysPreserved == Spec => []ContextPreserved
<1>1. IInv => ContextPreserved
  BY DEF IInv, FramesWanted, Resumes, ContextPreserved
<1> QED BY <1>1, Invariance, PTL

-----------------------------------------------------------------------------
(* Sched implements ProcLifecycle.                                         *)

\* do_schedule is invisible: lives are as the handler left them.
LEMMA ScheduleKeepsLife ==
    ASSUME IInv, NEW st \in [Pids -> TableState],
           NEW fr \in [Pids -> TrapFrame], NEW raw \in RawFrame,
           \A p \in Pids : st[p] = "Running" => p = current,
           st[current] # "None",
           Schedule(st, fr, raw)
    PROVE  Life' = LifeOf(st, nextPid')
<1>1. TypeOK
  BY DEF IInv
<1>2. \A p \in Pids : /\ state'[p] = "Zombie" <=> st[p] = "Zombie"
                      /\ state'[p] = "None" <=> st[p] = "None"
  BY <1>1, ScheduleFacts
<1> QED BY <1>2 DEF Life, LifeOf

\* The current process is alive, and what IInv says of states and types.
LEMMA CurrentAlive ==
    ASSUME IInv, kernel \in {"user", "spin"}
    PROVE  /\ state \in [Pids -> TableState] /\ frame \in [Pids -> TrapFrame]
           /\ current \in Pids /\ current < nextPid
           /\ Life \in [Pids -> {"unborn", "alive", "zombie", "reaped"}]
           /\ Life[current] = "alive"
           /\ state[current] \in {"Ready", "Running"}
           /\ \A p \in Pids : state[p] = "Running" => p = current
<1>1. TypeOK /\ CurrentIsRunnable /\ UnbornUntouched
  BY DEF IInv
<1>2. /\ state \in [Pids -> TableState] /\ frame \in [Pids -> TrapFrame]
      /\ current \in Pids /\ current \in Int /\ nextPid \in Int
      /\ state[current] \in {"Ready", "Running"}
      /\ \A p \in Pids : state[p] = "Running" => p = current
  BY <1>1, SMTT(30) DEF TypeOK, TableState, CurrentIsRunnable, Pids
<1>3. ~ (current >= nextPid)
  BY <1>1, <1>2 DEF UnbornUntouched
<1>4. Life[current] = "alive"
  BY <1>2, <1>3 DEF Life, LifeOf
<1>5. Life \in [Pids -> {"unborn", "alive", "zombie", "reaped"}]
  BY DEF Life, LifeOf
<1> QED BY <1>2, <1>3, <1>4, <1>5

\* A call that leaves the table alone is no step of the lifecycle.
LEMMA PlainReturnStutters ==
    ASSUME IInv, kernel \in {"user", "spin"}, NEW raw \in RawFrame,
           Schedule(state, frame, raw),
           UNCHANGED <<ppid, exitCode, nextPid, wstatus>>
    PROVE  UNCHANGED <<Life, ppid, exitCode, wstatus>>
<1>1. Life' = LifeOf(state, nextPid')
  BY CurrentAlive, ScheduleKeepsLife
<1> QED BY <1>1 DEF Life

LEMMA CloneIsBirth ==
    ASSUME IInv, NEW r \in UserRegs, NEW stack \in Vals \cup {0},
           SysClone(r, stack)
    PROVE  Lifecycle!Next
<1> DEFINE child == nextPid
           new == [a1 |-> r.a1, sp |-> IF stack # 0 THEN stack ELSE r.sp,
                   f |-> r.f]
           childTf == [pc |-> "past", a0 |-> 0, a1 |-> new.a1, sp |-> new.sp]
           raw == Return(SaveRegs(0, r), "past", child)
           st == [state EXCEPT ![child] = "Ready"]
           fr == [frame EXCEPT ![child] = childTf]
<1>1. /\ kernel = "user" /\ nextPid <= MaxPid
      /\ nextPid' = nextPid + 1
      /\ ppid' = [ppid EXCEPT ![child] = current]
      /\ exitCode' = [exitCode EXCEPT ![child] = 0]
      /\ Schedule(st, fr, raw)
      /\ UNCHANGED wstatus
  BY DEF SysClone, Calls
<1>2. /\ state \in [Pids -> TableState] /\ frame \in [Pids -> TrapFrame]
      /\ current \in Pids /\ current < nextPid /\ Life[current] = "alive"
      /\ state[current] \in {"Ready", "Running"}
      /\ \A p \in Pids : state[p] = "Running" => p = current
  BY <1>1, CurrentAlive
<1>3. /\ nextPid \in Int /\ child \in Pids /\ exitCode \in [Pids -> Int]
      /\ exitCode[child] = 0
  BY <1>1, <1>2, SchedAssumption, SMTT(30) DEF IInv, TypeOK, Pids, UnbornUntouched
<1>4. r.a1 \in Vals /\ r.sp \in Vals /\ new.a1 \in Vals /\ new.sp \in Vals
  BY DEF UserRegs
<1> HIDE DEF new
<1>5. childTf \in TrapFrame
  BY <1>4 DEF TrapFrame
<1>6. raw \in RawFrame
  BY <1>3, <1>4, RawFrameType
<1> HIDE DEF childTf, raw
<1>7. /\ st \in [Pids -> TableState] /\ fr \in [Pids -> TrapFrame]
      /\ st[current] # "None"
      /\ \A p \in Pids : st[p] = "Running" => p = current
      /\ st[child] = "Ready"
      /\ \A p \in Pids \ {child} : st[p] = state[p]
  BY <1>2, <1>3, <1>5 DEF TableState, ProcState
<1> HIDE DEF st, fr
<1>8. Life' = LifeOf(st, nextPid')
  BY <1>1, <1>6, <1>7, ScheduleKeepsLife
<1>9. Life' = [Life EXCEPT ![child] = "alive"]
  <2>1. LifeOf(st, nextPid')[child] = "alive"
    BY <1>1, <1>3, <1>7, SMTT(30) DEF LifeOf
  <2>2. \A p \in Pids \ {child} : LifeOf(st, nextPid')[p] = Life[p]
    BY <1>1, <1>3, <1>7, SMTT(30) DEF Life, LifeOf, Pids
  <2>3. LifeOf(st, nextPid') = [p \in Pids |-> LifeOf(st, nextPid')[p]]
        /\ Life = [p \in Pids |-> Life[p]]
    BY DEF Life, LifeOf
  <2> QED BY <2>1, <2>2, <2>3, <1>3, <1>8
<1>10. Life[child] = "unborn"
  BY <1>3 DEF Life, LifeOf
<1>11. exitCode' = exitCode
  BY <1>1, <1>3
<1>12. Lifecycle!Birth(current, child)
  BY <1>1, <1>2, <1>9, <1>10, <1>11 DEF Lifecycle!Birth
<1> QED BY <1>2, <1>3, <1>12 DEF Lifecycle!Next, Lifecycle!Pids, Pids

LEMMA ExitIsDeath ==
    ASSUME IInv, NEW code \in ExitCodes, SysExit(code)
    PROVE  Lifecycle!Next
<1> DEFINE raw == Return(SaveRegs(code, NoRegs), "past", 0)
           st == WakeParent([state EXCEPT ![current] = "Zombie"])
<1>1. /\ kernel = "user"
      /\ exitCode' = [exitCode EXCEPT ![current] = code]
      /\ Schedule(st, frame, raw)
      /\ UNCHANGED <<ppid, nextPid, wstatus>>
  BY DEF SysExit, Calls
<1>2. /\ state \in [Pids -> TableState] /\ frame \in [Pids -> TrapFrame]
      /\ current \in Pids /\ current < nextPid /\ Life[current] = "alive"
      /\ \A p \in Pids : state[p] = "Running" => p = current
  BY <1>1, CurrentAlive
<1>3. raw \in RawFrame
  BY SchedAssumption, NoRegsType, RawFrameType, SMTT(30)
<1> HIDE DEF raw
<1>4. /\ st \in [Pids -> TableState] /\ st[current] = "Zombie"
      /\ \A p \in Pids \ {current} :
            st[p] = IF p = ppid[current] /\ state[p] = "Waiting"
                    THEN "Ready" ELSE state[p]
  BY <1>2 DEF TableState, ProcState, WakeParent
<1> HIDE DEF st
<1>5. Life' = LifeOf(st, nextPid')
  BY <1>1, <1>2, <1>3, <1>4, ScheduleKeepsLife
<1>6. nextPid \in Int /\ current \in Int
  BY <1>2, SMTT(30) DEF IInv, TypeOK, Pids
<1>7. Life' = [Life EXCEPT ![current] = "zombie"]
  BY <1>1, <1>2, <1>4, <1>5, <1>6, ZenonT(30) DEF Life, LifeOf
<1>8. Lifecycle!Death(current, code)
  BY <1>1, <1>2, <1>7 DEF Lifecycle!Death
<1> QED BY <1>2, <1>8 DEF Lifecycle!Next, Lifecycle!Pids, Pids

LEMMA ReapIsCollect ==
    ASSUME IInv, kernel = "user", NEW arg \in Int,
           NEW r, r.a1 \in Vals, r.sp \in Vals,
           UNCHANGED nextPid, Reap(arg, r)
    PROVE  Lifecycle!Next
<1> PICK z \in Collectable(arg) :
        /\ wstatus' = IF r.a1 = 0 THEN wstatus ELSE ExitStatus(exitCode[z])
        /\ ppid' = [ppid EXCEPT ![z] = 0]
        /\ exitCode' = [exitCode EXCEPT ![z] = 0]
        /\ Schedule([state EXCEPT ![z] = "None"], frame,
                    Return(SaveRegs(arg, r), "past", z))
  BY DEF Reap
<1> DEFINE raw == Return(SaveRegs(arg, r), "past", z)
           st == [state EXCEPT ![z] = "None"]
<1>1. Schedule(st, frame, raw)
  OBVIOUS
<1>2. /\ state \in [Pids -> TableState] /\ frame \in [Pids -> TrapFrame]
      /\ current \in Pids /\ current < nextPid /\ Life[current] = "alive"
      /\ state[current] \in {"Ready", "Running"}
      /\ \A p \in Pids : state[p] = "Running" => p = current
  BY CurrentAlive
<1>3. z \in Pids /\ z \in Int /\ state[z] = "Zombie" /\ ppid[z] = current
  BY DEF Collectable, Pids
<1>4. raw \in RawFrame
  BY <1>3, RawFrameType
<1> HIDE DEF raw
<1>5. /\ st \in [Pids -> TableState] /\ st[z] = "None"
      /\ \A p \in Pids \ {z} : st[p] = state[p]
      /\ st[current] # "None"
      /\ \A p \in Pids : st[p] = "Running" => p = current
  BY <1>2, <1>3 DEF TableState
<1> HIDE DEF st
<1>6. Life' = LifeOf(st, nextPid')
  BY <1>1, <1>2, <1>4, <1>5, ScheduleKeepsLife
<1>7. ~ (z >= nextPid) /\ nextPid \in Int
  BY <1>3, SMTT(30) DEF IInv, UnbornUntouched, TypeOK
<1>8. Life' = [Life EXCEPT ![z] = "reaped"] /\ Life[z] = "zombie"
  <2>1. Life[z] = "zombie"
    BY <1>3, <1>7 DEF Life, LifeOf
  <2>2. LifeOf(st, nextPid)[z] = "reaped"
    BY <1>3, <1>5, <1>7 DEF LifeOf
  <2>3. \A p \in Pids \ {z} : LifeOf(st, nextPid)[p] = Life[p]
    BY <1>5 DEF Life, LifeOf
  <2>4. LifeOf(st, nextPid) = [p \in Pids |-> LifeOf(st, nextPid)[p]]
        /\ Life = [p \in Pids |-> Life[p]]
    BY DEF Life, LifeOf
  <2>5. LifeOf(st, nextPid) = [Life EXCEPT ![z] = "reaped"]
    BY <2>2, <2>3, <2>4, <1>3
  <2> QED BY <2>1, <2>5, <1>6
<1>9. wstatus' \in {wstatus, Lifecycle!StatusWord(exitCode[z])}
  BY DEF ExitStatus, Lifecycle!StatusWord
<1>10. Lifecycle!Collect(current, z)
  BY <1>2, <1>3, <1>8, <1>9 DEF Lifecycle!Collect
<1> QED BY <1>2, <1>3, <1>10 DEF Lifecycle!Next, Lifecycle!Pids, Pids

\* A wait4 that collects nothing is no step of the lifecycle.
LEMMA BlockStutters ==
    ASSUME IInv, kernel = "user", NEW arg \in Int,
           NEW r, r.a1 \in Vals, r.sp \in Vals,
           UNCHANGED nextPid, WaitBlock(arg, r)
    PROVE  UNCHANGED <<Life, ppid, exitCode, wstatus>>
<1> DEFINE raw == Return(SaveRegs(arg, r), "at", EAGAIN)
           st == [state EXCEPT ![current] = "Waiting"]
<1>1. Schedule(st, frame, raw) /\ UNCHANGED <<ppid, exitCode, wstatus>>
  BY DEF WaitBlock
<1>2. /\ state \in [Pids -> TableState] /\ frame \in [Pids -> TrapFrame]
      /\ current \in Pids /\ state[current] \in {"Ready", "Running"}
      /\ \A p \in Pids : state[p] = "Running" => p = current
  BY CurrentAlive
<1>3. raw \in RawFrame
  BY RawFrameType DEF EAGAIN
<1> HIDE DEF raw
<1>4. /\ st \in [Pids -> TableState] /\ st[current] = "Waiting"
      /\ \A p \in Pids \ {current} : st[p] = state[p]
  BY <1>2 DEF TableState, ProcState
<1> HIDE DEF st
<1>5. Life' = LifeOf(st, nextPid)
  BY <1>1, <1>2, <1>3, <1>4, ScheduleKeepsLife
<1>6. Life' = Life
  BY <1>2, <1>4, <1>5 DEF Life, LifeOf
<1> QED BY <1>1, <1>6

LEMMA InitRefines == Init => Lifecycle!Init
<1> SUFFICES ASSUME Init PROVE Lifecycle!Init
  OBVIOUS
<1>1. Life = [p \in Pids |-> IF p = 1 THEN "alive" ELSE "unborn"]
  BY SchedAssumption DEF Init, Life, LifeOf, Pids
<1> QED BY <1>1 DEF Init, Lifecycle!Init, Lifecycle!Pids, Pids

LEMMA NextRefines ==
    IInv /\ [Next]_vars => [Lifecycle!Next]_(Lifecycle!lifeVars)
<1> SUFFICES ASSUME IInv, [Next]_vars
             PROVE  Lifecycle!Next \/ UNCHANGED <<Life, ppid, exitCode, wstatus>>
  BY DEF Lifecycle!lifeVars
<1>1. CASE \E r \in UserRegs, ret \in Results : SysOther(r, ret)
  <2> PICK r \in UserRegs, ret \in Results : SysOther(r, ret)
    BY <1>1
  <2>1. Return(SaveRegs(0, r), "past", ret) \in RawFrame
    BY SchedAssumption, RawFrameType, SMTT(30) DEF UserRegs
  <2> QED BY <2>1, PlainReturnStutters, SMTT(60) DEF SysOther, Calls
<1>2. CASE \E r \in UserRegs : SpinBegin(r)
  BY <1>2 DEF SpinBegin, tableVars, Life, LifeOf
<1>3. CASE \E r \in UserRegs, stack \in Vals \cup {0} : SysClone(r, stack)
  BY <1>3, CloneIsBirth
<1>4. CASE \E r \in UserRegs, top \in Vals : SysExecve(r, top)
  <2> PICK r \in UserRegs, top \in Vals : SysExecve(r, top)
    BY <1>4
  <2> DEFINE new == [a1 |-> r.a1, sp |-> top, f |-> r.f]
  <2>1. /\ kernel = "user"
        /\ Schedule(state, frame, Return(SaveRegs(0, new), "past", 0))
        /\ UNCHANGED <<ppid, exitCode, nextPid, wstatus>>
    BY DEF SysExecve, Calls
  <2>2. new.a1 \in Vals /\ new.sp \in Vals
    BY DEF UserRegs
  <2> HIDE DEF new
  <2>3. Return(SaveRegs(0, new), "past", 0) \in RawFrame
    BY <2>2, RawFrameType
  <2> QED BY <2>1, <2>3, PlainReturnStutters, SMTT(60)
<1>5. CASE \E r \in UserRegs, arg \in Pids \cup {AnyChild} : SysWait4(r, arg)
  <2> PICK r \in UserRegs, arg \in Pids \cup {AnyChild} : SysWait4(r, arg)
    BY <1>5
  <2>1. /\ kernel = "user" /\ UNCHANGED nextPid
        /\ Reap(arg, r) \/ WaitNoHang(arg, r) \/ WaitBlock(arg, r)
    BY DEF SysWait4, Calls
  <2>2. r.a1 \in Vals /\ r.sp \in Vals /\ arg \in Int
    BY SMTT(30) DEF UserRegs, Pids, AnyChild
  <2>3. CASE WaitNoHang(arg, r)
    <3>1. Return(SaveRegs(arg, r), "past", 0) \in RawFrame
      BY <2>2, RawFrameType
    <3>2. /\ Schedule(state, frame, Return(SaveRegs(arg, r), "past", 0))
          /\ UNCHANGED <<ppid, exitCode, nextPid, wstatus>>
      BY <2>1, <2>3 DEF WaitNoHang
    <3> QED BY <2>1, <3>1, <3>2, PlainReturnStutters, SMTT(30)
  <2>4. CASE Reap(arg, r)
    BY <2>1, <2>2, <2>4, ReapIsCollect
  <2>5. CASE WaitBlock(arg, r)
    BY <2>1, <2>2, <2>5, BlockStutters
  <2> QED BY <2>1, <2>3, <2>4, <2>5
<1>6. CASE \E code \in ExitCodes : SysExit(code)
  BY <1>6, ExitIsDeath
<1>7. CASE SysWait4Again
  <2> DEFINE r == [a1 |-> cpu.a1, sp |-> cpu.sp, f |-> fpu]
  <2>1. /\ kernel = "user" /\ UNCHANGED nextPid
        /\ Reap(cpu.a0, r) \/ WaitBlock(cpu.a0, r)
    BY <1>7 DEF SysWait4Again
  <2>2. r.a1 \in Vals /\ r.sp \in Vals /\ cpu.a0 \in Int
    BY DEF IInv, TypeOK, TrapFrame
  <2> HIDE DEF r
  <2> QED BY <2>1, <2>2, ReapIsCollect, BlockStutters, SMTT(60)
<1>8. CASE Fault
  BY <1>8 DEF Fault, tableVars, Life, LifeOf
<1>9. CASE SpinEnd
  <2>1. cpu.a1 \in Vals /\ cpu.sp \in Vals
    BY DEF IInv, TypeOK, TrapFrame
  <2>2. Return(SaveRegs(0, cpu), "past", 0) \in RawFrame
    BY <2>1, RawFrameType
  <2> QED BY <1>9, <2>2, PlainReturnStutters, SMTT(60) DEF SpinEnd
<1>10. CASE Halted \/ UNCHANGED vars
  BY <1>10 DEF Halted, vars, tableVars, Life, LifeOf
<1> QED
  BY <1>1, <1>2, <1>3, <1>4, <1>5, <1>6, <1>7, <1>8, <1>9, <1>10
     DEF Next, Trap

\* The trap handler, the scheduler and the process calls implement the
\* lifecycle that programs rely on.
THEOREM Refinement == Spec => ImplementsLifecycle
BY InitRefines, NextRefines, Invariance, PTL
   DEF Spec, ImplementsLifecycle, Lifecycle!Spec
=============================================================================
