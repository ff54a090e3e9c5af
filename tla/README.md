# A verification of the RVOS kernel in TLA+

RVOS is a small RISC-V kernel in Rust that runs a busybox shell and nginx. This
directory models its state machines in TLA+, checks them with TLC on small
instances, and proves the most important facts with TLAPS for instances of every
size. Source paths below are relative to the kernel's `src/` directory.

## The system

| Part | Source | Modules | State |
|---|---|---|---|
| trap entry and exit, scheduler | `trap.rs` | `Sched` | modelled, proved |
| process table, fork, exec, exit, wait4 | `proc.rs`, `syscall.rs` | `Sched`, `ProcLifecycle` | modelled, proved |
| pipes | `syscall.rs` (`PipeInner`) | `Pipe`, `PipeFifo` | modelled, proved |
| frames, page tables, kernel heap | `mm.rs` | `Memory` | modelled, proved |
| program loading, brk, mmap | `proc.rs`, `syscall.rs` | `Memory`, `AddrSpace` | modelled, proved |
| descriptors, file calls, RAM file system | `syscall.rs`, `fs.rs` | `Files`, `FileStore` | modelled, proved |
| sockets and epoll | `net.rs`, `syscall.rs` | `Net` | modelled, safety proved |
| console, line editing | `console.rs`, `syscall.rs` | `Console` | modelled, proved |
| clock | `syscall.rs`, `net.rs` | | not modelled |
| virtio driver | `virtio.rs` | | not modelled |
| boot, panic handler, firmware calls | `main.rs`, `sbi.rs`, `entry.asm` | | not modelled |
| calls that return constants | `syscall.rs` | | not modelled |

The kernel has one hart and runs with interrupts off. A system call, from the
`ecall` to the `sret`, is therefore one atomic step, and a step of every module
is one whole call. Programs interleave between calls only. Two calls wait inside
the kernel, a read of the console and `epoll_pwait`; `Sched` splits these into a
beginning and an end, between which no program runs, and `Console` and `Net` have
the single turns of the two loops.

What remains hard is what a long sequence of calls of several processes does to
tables that all of them share: the process table, the frames, the one
descriptor table, the one counter of mmap addresses, the eight sockets; and what
keys and packets do that come between any two turns of a waiting loop.

## Modules

For each part there is a module with the code's state as variables and an action
for each call. Three parts also have a module that says what the part promises,
without its mechanism, and the promise is checked, or proved, as a refinement.

**`Sched`** has one action per kind of trap. `SaveRegs`, `ToTrapFrame`, `ToRaw`
and `RestoreRegs` are the four places at which registers are copied between the
hart, the kernel stack and `PROC_TABLE`; the register file is abstracted to `a0`
(argument and result), `sp`, `a1` (all others) and `f` (floating point).
`Schedule` is `do_schedule` and is part of every action. `WaitBlock` is the arm
of `rust_trap_handler` that rolls `sepc` back, `SysWait4Again` the call that is
then executed again, with the registers as they are. A trap that is not a call
ends in the handler's endless loop (`kernel = "hung"`), and an exit that leaves
nothing to run in power-off (`"off"`). `satp` and `sscratch` name the process whose
page table is loaded and whose kernel stack the next trap uses. `waitFor` and
`want` are history.

**`ProcLifecycle`** is the promise: processes are born of a live parent, die once
with a code, and are collected once, by their parent, with that code.

**`Pipe`** is `PipeInner` with `head`, `tail` and the buffer; a write and a read
of many bytes is one step in closed form. **`MCPipe`** has the byte loops of the
code as recursive functions and compares the closed forms with them.
**`PipeFifo`** is a bounded queue.

**`Memory`** has the bump allocator of frames (`next`), a page table per process
(`pt`, `writable`, the leaf tables it has), the contents of frames, the kernel
heap, breaks and `MMAP_BASE`. `Exec`, `Fork`, `SysBrk`, `Mmap`, `MmapFixed` and
`Exit` are the calls. `Need` counts the frames a call takes, tables included, and
`Shortfall` says what becomes of it when they run out half way: the `expect` of
`map` panics, the `?` of `exec_process` returns an error and loses what was
taken, `sys_brk` goes on. **`AddrSpace`** is the promise: private arrays of pages.

**`Files`** has `FD_TABLE`, the RAM file system, the pipes (as the queues they
implement), `FAKE_FDS` and `FAKE_FD_NEXT`. Because `writev` and `sendfile` are
built from `sys_read` and `sys_write`, these are operators from a kernel value to
a kernel value (`ReadFrom`, `WriteTo`), and `Call` makes a step of the result;
`Turn` is one turn of the loop of `writev`. A call does not say which process makes it, as the code has one table for all.
**`FileStore`** is the promise: plain files with bytes and a size, of which a call
changes one stretch of one.

**`Net`** has the eight slots of smoltcp's socket set, `FD_TO_HANDLE`,
`LISTEN_FD` and the fake descriptors. smoltcp and the peers are external: a
socket is a TCP state with a receive and a send buffer, and a peer connects,
acknowledges, sends, closes and resets. Every function of `net.rs` polls the
stack before it looks at a socket, so a peer's step may come before any call;
what `poll_network` gets rid of is a nondeterministic subset of what is buffered.

**`Console`** is the loop of `sys_read` on the console. A step is a turn of the loop
that finds a byte (`ReadTurn`, which erases or stores), one that finds none
(`ReadSpins`), the beginning of a read, a write of a program between reads, or a
key. The UART's receive register (`rx`) and the terminal are external; the
terminal is a row split at the cursor (`row.left`, `row.right`), on which a byte
draws, goes back, or moves over cells to a tab stop. `keys` and `base` are history:
what this read has taken, and what was left of the cursor when it began.

The `MC` modules hold constants for TLC only, except for `MCPipe` (above).

## Runs

| Run | Checks | Instance |
|---|---|---|
| `sched_traps` | `CurrentIsRunnable`, `RunsInOwnSpace`, `NoLostWakeup`, `PowerOffIsFinal`, `ContextPreserved`, `ImplementsLifecycle` | 3 pids, two values per register |
| `sched_live` | `NoStarvation`, `WaitReturns` | 3 pids, fairness |
| `pipe_fifo` | `ImplementsFifo`, `WriteIsItsLoop`, `ReadIsItsLoop` | 4 slots, up to 4 bytes a call |
| `mem_space` | `FramesExclusive`, `BrkIsBacked`, `MmapRegionFree`, `ImplementsAddrSpace` | 2 pids, 6 pages, 21 frames |
| `files_io` | `CursorFaithful`, `WritevIsWrite`, `ImplementsFileStore` | a static and a dynamic file, 4 descriptors |
| `files_calls` | `StdioReserved`, `WritevIsWrite`, `ListingComplete` | a tree that grows to 4 paths, a pipe of 2 bytes, fake descriptors |
| `net_sockets` | `HandlesExclusive` | 3 slots, 4 descriptors, 2 clients that may reset |
| `net_server` | `SlotsOwned`, `EventsAreOpen`, `ListensAgain` | 4 slots, 3 clients, fairness |
| `console` | `LineIsEdited`, `ScreenShowsLine`, `PromptKept` | 5 keys of every kind, reads of 0, 1 and 3 bytes |

`TypeOK` is checked in the first run of each module as well. The comment before each
property in its module says what it means and which code it is about.

Why the bounds are enough for the cases of interest:

- Three pids give a parent with two children, or a chain of three: a wake-up by
  the wrong child, an orphan, a zombie of somebody else, a pid collected while its
  sibling exits, a switch that is not a return to where one came from. Two values
  per register tell a program's own register from another's.
- A ring of four slots wraps several times with chunks of up to four bytes, and is
  full and empty at every position.
- 21 frames hold two processes and run out inside every call: between the page
  tables and the pages, between two pages, before the kernel stack. The leaf
  tables span three pages, so a call may or may not need a new one. In this run
  the heap lies outside the frames, so that the exhaustion of frames can be seen;
  `mem_heap` has the layout of the code.
- A pipe that holds two bytes, and chunks of one and two, have writes that fit, that
  fit in part and that do not fit. `Width` is 6 or 8 for 2^64, so offsets wrap. The
  tree has a root with one name; `mkdirat` adds a name before it and one beside
  it, which moves or does not move the entries of a listing half done.
- Three slots are exhausted by two connections and a second `listen`; four leave
  one slot to be reused by the third client.
- Five keys fill a buffer of three and leave two, erase more than was typed, and
  put a tab between erases; tab stops at every third cell are reached from each
  position. The prompt is one character, and keys may be typed before the read.

Deadlock is checked in every run. A machine that is off, hung or panicked takes
a stuttering step named `Halted`, so a deadlock is a call that none of the
code's branches covers.

### Fairness

`sched_live` assumes `WF(Trap)` and `WF(SpinEnd)`: a running program eventually
makes a system call, and what a busy-waiting call waits for arrives. There is no
timer interrupt, so the first is what cooperative scheduling asks of programs
(the kernel's README, "Cooperative scheduling only"). Nothing is assumed about
which process runs; that is what `NoStarvation` shows of round robin.

`net_server` assumes that the server calls `accept` when `epoll_pwait` goes on
reporting its listening descriptor, which is nginx's loop. Nothing is assumed
about the peers.

### Where the code and what is said of it disagree

Each of these runs has one property, taken from a line of the documentation or a
comment, which the code violates; `PROJECT.json` quotes it.

| Run | The code |
|---|---|
| `sched_named_wait` | a blocked `wait4(pid)` is executed again with -11 for its pid and collects any child |
| `mem_heap` | the frame allocator's range contains the kernel heap |
| `net_reset` | a reset before `accept` leaves the server deaf (liveness, under the fairness of `net_server`) |

Six more configurations, which are not among the runs, show behaviours of the code
that a user of the kernel should know of. TLC violates the one property of each.

| Configuration, module | Property | The code |
|---|---|---|
| `SchedFp.cfg`, `MCSched` | `FpContextPreserved` | floating-point registers are not saved |
| `MemoryMmap.cfg`, `MCMemory` | `MmapCompletes` | a mapping without write permission stops the kernel when it zeroes it |
| `FilesEof.cfg`, `MCFiles` | `EofMeansClosed` | an empty pipe reads as end of file while a writer has it open |
| `NetSlots.cfg`, `MCNet` | `AcceptsAll` | the eighth simultaneous connection panics the kernel |
| `NetEof.cfg`, `MCNet` | `EofReported` | after the peer's FIN, `recv` returns -11 for ever |
| `NetFlush.cfg`, `MCNet` | `NothingLost` | `close` drops what `send` has accepted |

Others can be read off a definition, and have no run: a read from beyond the end of
a file panics (`ReadInode`); writes to 1 and 2 go to the console whatever `dup2` put
there (`WriteTo`); there is one descriptor table for all processes (`Files` has
one); a file that gets the number 100 shares it with a fake descriptor (`Alloc`,
`NewFake`); a control character is stored but not echoed, so that erasing it takes
a cell of the prompt (`Echoed`, `Erase`).

## Proofs

TLAPS proves the following for every value of the constants that satisfies the
assumptions named in the modules (`SchedAssumption`, `PipeAssumption`,
`MemoryAssumption`, `ProgramAssumption`, `MapsAssumption`, `BootAssumption`,
`NetAssumption`, `ConsoleAssumption` and `FilesAssumption`; they give the constants
their types, `BootAssumption` says that the first program fits into memory,
`FilesAssumption` that a path is in the map once and that two buffers of a program
are together shorter than 2^64, and TLC evaluates them in each run).

| Module | Theorems |
|---|---|
| `SchedProofs` | `TypeCorrect`, `CurrentAlwaysRunnable`, `AlwaysRunsInOwnSpace`, `WakeupsNeverLost`, `PowerOffAlwaysFinal`, `ContextAlwaysPreserved`, `Refinement` (to `ProcLifecycle`) |
| `PipeProofs` | `TypeCorrect`, `Refinement` (to `PipeFifo`) |
| `MemoryProofs` | `TypeCorrect`, `FramesAlwaysExclusive`, `BrkAlwaysBacked`, `MmapRegionAlwaysFree`, `Refinement` (to `AddrSpace`) |
| `NetProofs` | `TypeCorrect`, `HandlesAlwaysExclusive`; for the server, `SlotsAlwaysOwned`, `EventsAlwaysOpen` |
| `ConsoleProofs` | `TypeCorrect`, `PromptAlwaysKept`, `ScreenAlwaysShowsLine`, `LineAlwaysEdited` |
| `FilesProofs` | `TypeCorrect`, `StdioAlwaysReserved`, `CursorAlwaysFaithful`, `ListingAlwaysComplete`, `WritevAlwaysWrite`, `FilesImplementStore` |

**`SchedProofs`.** The invariant joins the properties with four facts. Pids not
yet given out have no entry. A frame that rests on its `ecall` holds -11 in `a0`,
so the call to be executed again takes any child, and a waiting process that was
woken finds the zombie that woke it. The saved frame of each process that is not
current, and the registers of the hart, are those wanted; without it
`ContextPreserved`, which speaks of the current process only, says nothing of the
one that runs next. When the machine is off nothing is runnable. `ScheduleFacts`
says once what `do_schedule` does; each action is reduced to what its handler
changes before it.

**`PipeProofs`.** The queue is the stretch of the buffer from tail to head, with
wrap-around. The proof shows that a write appends to this stretch what fits, and
that a read takes a prefix off it, with `Size - 1` the capacity.

**`MemoryProofs`** counts frames first, shows that the frames of one call are new
and distinct, and then takes one call after the other. The invariant is the conjunction of the checked
properties with: a process that is not born has no pages. Fork needs it, because
`AddrSpace` lets a child have memory only if it had none before. `MmapRegionFree`
is needed for `FramesExclusive` across mmap, which maps without looking.

**`NetProofs`.** `HandlesExclusive` needs that no number from `FAKE_FD_NEXT` on
has a handle yet, since `accept` gives the next number the old handle. A fresh
slot belongs to no descriptor because those that belong to one are not empty. The
least element of a set of naturals, needed for the first free slot, comes from
the well-foundedness of the subset ordering of finite sets. For the server
(`ServerSpec`) `SlotsOwned` is strengthened by two facts: only open descriptors
have a handle, and before `listen` none has. With the second, `listen` cannot
orphan a slot; with `HandlesExclusive`, `close` empties the slot of no other
descriptor. Peers may reset here, which the run for liveness excludes.

**`ConsoleProofs`.** `PromptKept` counts cells: every byte of the buffer that was
echoed takes at least one cell of the row (`Room`), so an erase with a byte left
finds a cell that is not the prompt's. A tab takes several cells and is erased by
one, which keeps the inequality. `ScreenShowsLine` needs that the row is exactly
prompt and buffer as long as only printable characters and erases were typed
(`Aligned`), and that the cells right of the cursor are always blank, which erasing
restores and tabs rely on.

`LineIsEdited` says by counting, and without a loop, which keys a read returns: a key
is kept when no stretch after it has more erases than bytes. Its invariant `EInv`
adds what makes one more key follow from those before: after a kept key, the bytes
less the erases are exactly the bytes kept behind it, so the next erase takes the
last kept byte and no other; and every byte of the buffer has its key.

**`FilesProofs`** rests on `FilesKernel` (what reading, writing, seeking and listing
do to a kernel value) and `FilesVector` (`sys_writev`). The invariant is said of
any kernel value (`KernelOK`), so that a `sendfile` or `writev` can be followed from
one part to the next; `IInv` says it of the state. Beyond the checked properties it
has: a file that is not static is one `fs::init` made, which is what makes it one of
the writable files of `FileStore`; and a listing is under way in directories only,
which are empty as files, so that a read in between cannot move its offset.

- `ListingAlwaysComplete` follows the number of an entry, the rank of the first
  position in the map's order at which its name is seen. A new path either adds a
  name, which can only move others back, or moves the first position of a name
  that is there to the front; `NamesTogether` says that it then passes over no other
  name. Without it the theorem is false of the code: with `/b-x` and `/b/y` in the
  map but not `/b`, a listing of the root that has given `b-x` never gives `b` if
  `/b` is made then. `fs::init` makes every directory above a file, but
  `sys_mkdirat` does not ask for a parent.
- `WritevAlwaysWrite` goes by what the descriptor names. For a pipe, what of two
  buffers fits into the room left is a prefix of the two together; for a file, two
  patches side by side are one; and the offset after the first is where the second
  begins. Where one panics so does the other.
- `FilesImplementStore` shows of each call that it leaves all bytes alone, makes one
  empty file, or changes one stretch of one file that is not static (`Stretch`).
  `writev` is two such writes, so `VectorIsWrite` is used to make them one step.

Only model-checked: the three liveness properties, which are out of TLAPS's reach,
and the agreement of `Pipe` with its byte loops, which needs induction over the
turns of a loop, as would `sys_writev` of more than two buffers.

## What the models leave out

- **Registers and words.** 29 integer registers are one, a page holds one value,
  the words of a program's first stack are one value, a file's bytes are 0 or 1.
- **Page tables** have a root and one level of leaves instead of three levels, and
  frames of one call are numbered pages first; the order in which a call asks for
  frames is kept where it matters, for what happens when there are too few.
  Segments of one program share no page. `MAP_FIXED` is used only within memory a
  program was given before, as its linker does.
- **The kernel heap** is charged for the copies of programs that exec makes. The
  buffers of each read and write, which are never freed either, are not counted.
- **Permissions.** `readable` and `writable` of `OpenFile` are never looked at by
  the code. An inode is its path, as none is ever removed. The length of directory
  records is abstracted to how many fit. `ListingComplete` is for trees with
  `NamesTogether` (see Proofs), which the run's tree has. `writev` has two buffers.
- **Calls without effect.** The stat family, `fcntl`, `ioctl`, `ppoll` and some
  thirty stubs return constants or read state that is modelled; to the scheduler
  they are `SysOther`.
- **The console.** A key is a byte; escape sequences are the bytes they consist of,
  stored like other control characters. A row has no right margin. The space bar
  is a printable character like any other and is left out, so that a blank cell is
  one that nothing was typed into.
- **TCP** is smoltcp's. Retransmission, windows and timers are in the choice of
  what a poll sends and of when a peer's step is seen. One port is listened on.
  The cookies of `EPOLL_DATA` are handed back as they are.

## Not modelled

- **The clock** (`sys_clock_gettime`, `get_time_ms`) divides the timer's ticks by
  constants and keeps no state; a model would say the divisions again. The second
  field of the first is tenths of microseconds, where its comment says microseconds.
- **`virtio.rs`** leaves the work to the virtio-drivers crate. It probes devices,
  translates addresses by identity and takes DMA pages from the frame allocator
  at boot; the packets it moves are the peers' steps of `Net`.
- **`main.rs`, `sbi.rs`, `entry.asm`, `linker.ld`** initialise in one order and pass
  registers to the firmware. What they leave behind is `Init` of each module, and
  the panic handler is the state in which a module's machine is not up.
- **Stubs** return constants, and are `SysOther` of `Sched`.
- **The parts together.** `Sched`, `Memory`, `Files`, `Net` and `Console` share no
  variable except the current process, and a call of one is a step in which the
  others stand still, save for fork, exec and exit: `Sched` has their process half
  and `Memory` their memory half. No call blocks on a pipe or on a file, so a
  composition of `Sched` and `Files` has only the interleavings that `Files` has
  already, whose calls come in any order.
