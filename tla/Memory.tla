------------------------------- MODULE Memory -------------------------------
(***************************************************************************)
(* Frames, page tables and address spaces: src/mm.rs, the memory half of   *)
(* src/proc.rs (exec_process, fork_process, load_elf_into), and sys_brk    *)
(* and sys_mmap in src/syscall.rs.                                         *)
(*                                                                         *)
(* A page holds one value of Vals.  The three levels of an SV39 table are  *)
(* two here: the root, and one table for each region of Span pages.  Of    *)
(* the frames one call takes, the model gives the lowest to the pages and  *)
(* the others to the tables, which the code interleaves; the order decides *)
(* only what becomes of a call that finds no frame, and there it is kept.  *)
(***************************************************************************)
EXTENDS Integers, FiniteSets

CONSTANTS MaxPid,       \* bound on NEXT_PID
          NumPages,     \* virtual pages of a process
          Span,         \* pages one leaf table maps
          PageSize,
          BaseFrames,   \* root and tables of the kernel's identity map
          StackPages,   \* nine pages in the code
          MmapBase,     \* the page of 0x5000_0000
          MmapEnd,      \* bound on MMAP_BASE
          End,          \* first frame past PAGE_ALLOCATOR.end
          HeapLo, HeapHi,   \* frames HeapLo, ..., HeapHi - 1 are the kernel heap
          HeapSize,     \* what the heap can hold, in pages
          Programs,     \* files exec may be given
          Shell,        \* the program of process 1
          BrkAddrs,     \* addresses programs pass to brk
          Maps,         \* mappings programs ask for
          FixedAt,      \* pages they ask for with MAP_FIXED
          Stores,       \* pages programs write to
          Vals,         \* contents of a page
          Args,         \* contents of a stack page that holds arguments
          FileData      \* what a file-backed mapping holds

Pids == 1..MaxPid
VPages == 0..(NumPages - 1)
Frames == 1..(End - 1)
None == 0
KStackFrames == 2
Region(v) == v \div Span

ASSUME MemoryAssumption ==
    /\ MaxPid \in Nat \ {0}
    /\ NumPages \in Nat \ {0}
    /\ Span \in Nat \ {0}
    /\ PageSize \in Nat \ {0}
    /\ BaseFrames \in Nat \ {0}
    /\ StackPages \subseteq VPages
    /\ MmapBase \in VPages
    /\ MmapEnd \in MmapBase..NumPages
    /\ End \in Nat \ {0}
    /\ HeapLo \in Nat /\ HeapHi \in Nat /\ HeapSize \in Nat
    /\ BrkAddrs \subseteq 0..(MmapBase * PageSize)
    /\ FixedAt \subseteq VPages
    /\ Stores \subseteq VPages
    /\ Vals \subseteq Nat /\ 0 \in Vals /\ FileData \in Vals
    /\ Args \subseteq Vals
    /\ StackPages \cap 0..(MmapEnd - 1) = {}

\* A program: whether it is an ELF file, the pages of its read-only and of
\* its writable segments, what they hold, and its size in pages.
ASSUME ProgramAssumption ==
    /\ Shell \in Programs
    /\ \A prog \in Programs :
          /\ prog.elf \in BOOLEAN
          /\ prog.text \subseteq 0..(MmapBase - 1)
          /\ prog.data \subseteq 0..(MmapBase - 1)
          /\ prog.text \cap prog.data = {}
          /\ prog.end \in 1..MmapBase
          /\ \A v \in prog.text \cup prog.data : v < prog.end
          /\ prog.holds \in Vals
          /\ prog.size \in Nat

\* A mapping: its pages, whether it is writable, and how many pages of it a
\* file fills, -1 for an anonymous mapping.
ASSUME MapsAssumption ==
    \A g \in Maps : /\ g.n \in Nat \ {0}
                    /\ g.rw \in BOOLEAN
                    /\ g.file \in -1..g.n

VARIABLES
    next,       \* PAGE_ALLOCATOR.current
    kframes,    \* the frames of page tables and kernel stacks, and lost ones
    heap,       \* pages of HEAP_ALLOCATOR in use
    content,    \* content[f]: what frame f holds
    alive,      \* the processes that have not exited
    nextPid,    \* NEXT_PID
    pt,         \* pt[p][v]: the frame p's page table gives page v, or None
    writable,   \* writable[p]: the pages with flag W
    tables,     \* tables[p]: the regions p's page table has a leaf table for
    brk,        \* PROC_TABLE[p].brk, in bytes
    brkStart,   \* history: the page p's heap starts at
    mmapBase,   \* MMAP_BASE, in pages
    machine     \* "up", "panic", "hung" (a fault), "corrupt" (heap overwritten)

spaceVars == <<pt, writable, tables, brk, brkStart>>
vars == <<next, kframes, heap, content, alive, nextPid, spaceVars, mmapBase, machine>>

TypeOK ==
    /\ next \in 1..End
    /\ kframes \subseteq 1..(next - 1)
    /\ heap \in 0..HeapSize
    /\ content \in [Frames -> Vals]
    /\ alive \subseteq Pids
    /\ nextPid \in 1..(MaxPid + 1)
    /\ pt \in [Pids -> [VPages -> Frames \cup {None}]]
    /\ writable \in [Pids -> SUBSET VPages]
    /\ tables \in [Pids -> SUBSET {Region(v) : v \in VPages}]
    /\ brk \in [Pids -> 0..(MmapBase * PageSize)]
    /\ brkStart \in [Pids -> 0..MmapBase]
    /\ mmapBase \in MmapBase..MmapEnd
    /\ machine \in {"up", "panic", "hung", "corrupt"}

-----------------------------------------------------------------------------
(* The frame allocator and map.                                            *)

\* What mapping the pages ps asks alloc_page for: the pages, and the leaf
\* tables that find_pte_create misses.
Need(tabs, ps) ==
    {<<"page", v>> : v \in ps}
        \cup {<<"table", r>> : r \in {Region(v) : v \in ps} \ tabs}

\* The order of the requests when the pages come in the order ord: each page
\* is followed by its table, if it is the first to need it.
Asks(ps, ord, d) ==
    IF d[1] = "page" THEN 2 * ord[d[2]]
    ELSE LET first == CHOOSE v \in ps :
                        /\ Region(v) = d[2]
                        /\ \A w \in ps : Region(w) = d[2] => ord[v] <= ord[w]
         IN 2 * ord[first] + 1

Rank(need, ps, ord, d) ==
    Cardinality({e \in need : Asks(ps, ord, e) < Asks(ps, ord, d)})

\* What a call comes to that wants base frames for a root and its identity
\* map, then need, and finds n frames: alloc_page()? fails the call, and map
\* panics ("out of memory mapping page").
Shortfall(n, base, need, ps, ord) ==
    IF n < base
    THEN IF n = 0 THEN "up" ELSE "panic"
    ELSE IF \E d \in need : d[1] = "table" /\ Rank(need, ps, ord, d) = n - base
         THEN "panic" ELSE "up"

Ascending == [v \in VPages |-> v]

\* exec maps the stack from its top down, then the segments.
ExecOrder ==
    [v \in VPages |-> IF v \in StackPages THEN NumPages - 1 - v ELSE NumPages + v]

FramesFrom(n, ps, ord) ==
    [v \in ps |-> n + Cardinality({w \in ps : ord[w] < ord[v]})]

\* Mutant: the allocator gives its last frame out again.
FreshStale(ps, ord) == FramesFrom(next - 1, ps, ord)

\* The frames the pages ps get, taken in the order ord.
Fresh(ps, ord) == FramesFrom(next, ps, ord)

\* Writing val[v] to each page v of the mapping m.
Fill(old, m, val) ==
    [f \in Frames |-> IF \E v \in DOMAIN m : m[v] = f
                      THEN val[CHOOSE v \in DOMAIN m : m[v] = f]
                      ELSE old[f]]

\* k frames are taken, and zeroed, whatever becomes of the call: those of
\* the mapping m for user pages.  Frames of the kernel heap hold the kernel's
\* own data.
Take(k, m, outcome) ==
    /\ next' = next + k
    /\ kframes' = kframes \cup
          {f \in next..(next + k - 1) : \A v \in DOMAIN m : m[v] # f}
    /\ machine' = IF \E f \in next..(next + k - 1) : HeapLo <= f /\ f < HeapHi
                  THEN "corrupt" ELSE outcome

NoPages == [v \in {} |-> None]
Mapped(p) == {v \in VPages : pt[p][v] # None}
View(p) == [v \in VPages |-> IF pt[p][v] = None THEN -1 ELSE content[pt[p][v]]]
Overlay(m, old) == [v \in VPages |-> IF v \in DOMAIN m THEN m[v] ELSE old[v]]
Runs(p) == p \in alive /\ machine = "up"

-----------------------------------------------------------------------------
(* Loading a program.                                                      *)

ImagePages(prog) == StackPages \cup prog.text \cup prog.data

\* load_elf_into and build_stack: the segments, arguments at the top of the
\* stack, zero below.
Image(prog, args) ==
    [v \in VPages |-> IF v \in prog.text \cup prog.data THEN prog.holds
                      ELSE IF v \notin StackPages THEN -1
                      ELSE IF \A w \in StackPages : w <= v THEN args ELSE 0]

\* Mutant: exec loads the program into the page table p has.
InstallOver(p, prog, args) ==
    LET ps == ImagePages(prog)
        m  == Fresh(ps, ExecOrder)
    IN  /\ content' = Fill(content, m, Image(prog, args))
        /\ pt' = [pt EXCEPT ![p] = Overlay(m, pt[p])]
        /\ writable' = [writable EXCEPT ![p] = @ \cup StackPages \cup prog.data]
        /\ tables' = [tables EXCEPT ![p] = @ \cup {Region(v) : v \in ps}]
        /\ brk' = [brk EXCEPT ![p] = prog.end * PageSize]
        /\ brkStart' = [brkStart EXCEPT ![p] = prog.end]

\* exec_process and init_user_proc end by giving p the new space.
Install(p, prog, args) ==
    LET ps == ImagePages(prog)
        m  == Fresh(ps, ExecOrder)
    IN  /\ content' = Fill(content, m, Image(prog, args))
        /\ pt' = [pt EXCEPT ![p] = Overlay(m, [v \in VPages |-> None])]
        /\ writable' = [writable EXCEPT ![p] = StackPages \cup prog.data]
        /\ tables' = [tables EXCEPT ![p] = {Region(v) : v \in ps}]
        /\ brk' = [brk EXCEPT ![p] = prog.end * PageSize]
        /\ brkStart' = [brkStart EXCEPT ![p] = prog.end]

\* Boot leaves the shell loaded as process 1; the machine has room for it.
ASSUME BootAssumption ==
    /\ Shell.elf
    /\ Shell.size <= HeapSize
    /\ 1 + BaseFrames + Cardinality(Need({}, ImagePages(Shell))) + KStackFrames <= End
    /\ 0 \in Args

Init ==
    LET ps == ImagePages(Shell)
        m  == FramesFrom(1, ps, ExecOrder)
    IN  /\ next = 1 + BaseFrames + Cardinality(Need({}, ps)) + KStackFrames
        /\ kframes = {f \in 1..(next - 1) : \A v \in ps : m[v] # f}
        /\ heap = Shell.size
        /\ content = Fill([f \in Frames |-> 0], m, Image(Shell, 0))
        /\ alive = {1}
        /\ nextPid = 2
        /\ pt = [p \in Pids |-> IF p = 1 THEN Overlay(m, [v \in VPages |-> None])
                                ELSE [v \in VPages |-> None]]
        /\ writable = [p \in Pids |-> IF p = 1 THEN StackPages \cup Shell.data ELSE {}]
        /\ tables = [p \in Pids |-> IF p = 1 THEN {Region(v) : v \in ps} ELSE {}]
        /\ brk = [p \in Pids |-> IF p = 1 THEN Shell.end * PageSize ELSE 0]
        /\ brkStart = [p \in Pids |-> IF p = 1 THEN Shell.end ELSE 0]
        /\ mmapBase = MmapBase
        /\ machine = "up"

\* sys_execve: a new table with the stack, a copy of the file on the heap
\* (align_elf), the segments.  A failure keeps the frames it took, and the
\* caller's space.
Exec(p, prog, args) ==
    LET left  == End - next
        stack == Need({}, StackPages)
        need  == Need({}, ImagePages(prog))
        costS == BaseFrames + Cardinality(stack)
        cost  == BaseFrames + Cardinality(need)
    IN
    /\ Runs(p)
    /\ \/ /\ left < costS
          /\ Take(left, NoPages, Shortfall(left, BaseFrames, stack, StackPages, ExecOrder))
          /\ UNCHANGED <<heap, content, spaceVars>>
       \/ /\ left >= costS
          /\ heap + prog.size > HeapSize
          /\ Take(costS, NoPages, "up")
          /\ UNCHANGED <<heap, content, spaceVars>>
       \/ /\ left >= costS
          /\ heap + prog.size <= HeapSize
          /\ heap' = heap + prog.size
          /\ \/ /\ ~prog.elf
                /\ Take(costS, NoPages, "up")
                /\ UNCHANGED <<content, spaceVars>>
             \/ /\ prog.elf
                /\ left < cost
                /\ Take(left, NoPages, Shortfall(left, BaseFrames, need,
                                        ImagePages(prog), ExecOrder))
                /\ UNCHANGED <<content, spaceVars>>
             \/ /\ prog.elf
                /\ left >= cost
                /\ Take(cost, Fresh(ImagePages(prog), ExecOrder), "up")
                /\ Install(p, prog, args)
    /\ UNCHANGED <<alive, nextPid, mmapBase>>

-----------------------------------------------------------------------------
(* Fork, brk, mmap.                                                        *)

\* fork_process: clone_user_space copies every user page, with its flags,
\* to a new frame; then the kernel stack.
Fork(p) ==
    LET left == End - next
        ps   == Mapped(p)
        need == Need({}, ps)
        cost == BaseFrames + Cardinality(need)
        m    == Fresh(ps, Ascending)
    IN
    /\ Runs(p)
    /\ nextPid <= MaxPid
    /\ \/ /\ left < cost
          /\ Take(left, NoPages, Shortfall(left, BaseFrames, need, ps, Ascending))
          /\ UNCHANGED <<content, alive, nextPid, spaceVars>>
       \/ /\ cost <= left
          /\ left < cost + KStackFrames
          /\ Take(cost, NoPages, "up")
          /\ UNCHANGED <<content, alive, nextPid, spaceVars>>
       \/ /\ cost + KStackFrames <= left
          /\ Take(cost + KStackFrames, m, "up")
          /\ content' = Fill(content, m, View(p))
          /\ pt' = [pt EXCEPT ![nextPid] = Overlay(m, [v \in VPages |-> None])]
          /\ writable' = [writable EXCEPT ![nextPid] = writable[p]]
          /\ tables' = [tables EXCEPT ![nextPid] = {Region(v) : v \in ps}]
          /\ brk' = [brk EXCEPT ![nextPid] = brk[p]]
          /\ brkStart' = [brkStart EXCEPT ![nextPid] = brkStart[p]]
          /\ alive' = alive \cup {nextPid}
          /\ nextPid' = nextPid + 1
    /\ UNCHANGED <<heap, mmapBase>>

\* Mutant: what alloc_page returns is not looked at.
GotAll(p, ps) == ps

\* The loop sys_brk and sys_mmap share, over the pages ps the table does not
\* translate: a page that gets no frame is passed over in silence.
Got(p, ps) ==
    LET need == Need(tables[p], ps)
    IN  IF Cardinality(need) <= End - next THEN ps
        ELSE {v \in ps : Rank(need, ps, Ascending, <<"page", v>>) < End - next}

TakeFor(p, ps, m, outcome) ==
    LET need == Need(tables[p], ps)
        left == End - next
    IN  IF Cardinality(need) <= left THEN Take(Cardinality(need), m, outcome)
        ELSE Take(left, m,
                  IF Shortfall(left, 0, need, ps, Ascending) = "panic"
                  THEN "panic" ELSE outcome)

PageUp(a) == (a + PageSize - 1) \div PageSize

\* Mutant: the heap grows from the page after the break's.
BrkPagesLate(p, addr) ==
    {v \in (PageUp(brk[p]) + 1)..(PageUp(addr) - 1) : pt[p][v] = None}

\* The pages sys_brk maps: none when the break does not rise.
BrkPages(p, addr) ==
    {v \in PageUp(brk[p])..(PageUp(addr) - 1) : pt[p][v] = None}

SysBrk(p, addr) ==
    LET got == Got(p, BrkPages(p, addr))
        m   == Fresh(got, Ascending)
    IN
    /\ Runs(p)
    /\ addr # 0
    /\ TakeFor(p, BrkPages(p, addr), m, "up")
    /\ content' = Fill(content, m, [v \in got |-> 0])
    /\ pt' = [pt EXCEPT ![p] = Overlay(m, pt[p])]
    /\ writable' = [writable EXCEPT ![p] = @ \cup got]
    /\ tables' = [tables EXCEPT ![p] = @ \cup {Region(v) : v \in got}]
    /\ brk' = [brk EXCEPT ![p] = addr]
    /\ UNCHANGED <<heap, alive, nextPid, brkStart, mmapBase>>

\* Mutant: MMAP_BASE stays where it is.
AdvanceNot(n) == mmapBase

\* MMAP_BASE is one for all processes.
Advance(n) == mmapBase + n

\* sys_mmap of g from page at.  It maps what is not mapped, zeroes the range
\* through the new mapping, which faults in the kernel where a page is
\* missing or has no W flag, and copies the file from a buffer on the heap.
MapRange(p, at, g) ==
    LET range == at..(at + g.n - 1)
        ps    == {v \in range : pt[p][v] = None}
        got   == Got(p, ps)
        m     == Fresh(got, Ascending)
        new   == Overlay(m, pt[p])
        w     == IF g.rw THEN writable[p] \cup got ELSE writable[p]
        fault == \E v \in range : new[v] = None \/ v \notin w
        buf   == IF g.file = -1 THEN 0 ELSE g.n
        ends  == IF fault THEN "hung"
                 ELSE IF heap + buf > HeapSize THEN "panic" ELSE "up"
    IN
    /\ TakeFor(p, ps, m, ends)
    /\ pt' = [pt EXCEPT ![p] = new]
    /\ writable' = [writable EXCEPT ![p] = w]
    /\ tables' = [tables EXCEPT ![p] = @ \cup {Region(v) : v \in got}]
    /\ content' = IF ends = "up"
                  THEN Fill(content, [v \in range |-> new[v]],
                            [v \in range |-> IF v < at + g.file THEN FileData ELSE 0])
                  ELSE Fill(content, m, [v \in got |-> 0])
    /\ heap' = IF ends = "up" THEN heap + buf ELSE heap
    /\ UNCHANGED <<alive, nextPid, brk, brkStart>>

\* Without MAP_FIXED the kernel chooses the address.
Mmap(p, g) ==
    /\ Runs(p)
    /\ mmapBase + g.n <= MmapEnd
    /\ mmapBase' = Advance(g.n)
    /\ MapRange(p, mmapBase, g)

\* With MAP_FIXED the program does, in memory it was given before.
MmapFixed(p, at, g) ==
    /\ Runs(p)
    /\ at + g.n <= mmapBase
    /\ MapRange(p, at, g)
    /\ UNCHANGED mmapBase

-----------------------------------------------------------------------------
(* Programs.                                                               *)

Store(p, v, x) ==
    /\ Runs(p)
    /\ v \in Mapped(p) \cap writable[p]
    /\ content' = [content EXCEPT ![pt[p][v]] = x]
    /\ UNCHANGED <<next, kframes, heap, alive, nextPid, spaceVars, mmapBase, machine>>

\* rust_trap_handler loops for ever on a page fault.
StoreFault(p, v) ==
    /\ Runs(p)
    /\ v \notin Mapped(p) \cap writable[p]
    /\ machine' = "hung"
    /\ UNCHANGED <<next, kframes, heap, content, alive, nextPid, spaceVars, mmapBase>>

\* exit_process and wait4 free nothing.
Exit(p) ==
    /\ Runs(p)
    /\ alive' = alive \ {p}
    /\ UNCHANGED <<next, kframes, heap, content, nextPid, spaceVars, mmapBase, machine>>

Halted ==
    /\ machine # "up" \/ alive = {}
    /\ UNCHANGED vars

Next ==
    \/ \E p \in Pids :
        \/ Fork(p)
        \/ \E prog \in Programs, args \in Args : Exec(p, prog, args)
        \/ \E addr \in BrkAddrs : SysBrk(p, addr)
        \/ \E g \in Maps : Mmap(p, g) \/ \E at \in FixedAt : MmapFixed(p, at, g)
        \/ \E v \in Stores : StoreFault(p, v) \/ \E x \in Vals : Store(p, v, x)
        \/ Exit(p)
    \/ Halted

Spec == Init /\ [][Next]_vars

-----------------------------------------------------------------------------
(* Properties.                                                             *)

\* The frames of user pages are never shared, between processes or within
\* one, none holds a page table, and none is still to be handed out: alloc_page, clone_user_space and
\* exec_process, through any sequence of forks, execs and failures.
FramesExclusive ==
    \A p, q \in Pids : \A v \in Mapped(p), w \in Mapped(q) :
        /\ pt[p][v] < next
        /\ pt[p][v] \notin kframes
        /\ pt[p][v] = pt[q][w] => p = q /\ v = w

\* As long as frames are left, every page between the end of the program and
\* its break is mapped, however often the break was moved, copied by fork or
\* reset by exec: sys_brk reports success without looking.
BrkIsBacked ==
    machine = "up" /\ next < End =>
        \A p \in alive : \A v \in brkStart[p]..(PageUp(brk[p]) - 1) :
            pt[p][v] # None

\* An mmap that chooses its own address never lands on memory any process has
\* mapped, though MMAP_BASE is shared and exec does not reset it.
MmapRegionFree ==
    \A p \in Pids : \A v \in mmapBase..(MmapEnd - 1) : pt[p][v] = None

\* The frames handed out never belong to the kernel heap: the layout of
\* init and init_heap.
HeapNotHandedOut == machine # "corrupt"

\* An mmap for which there are frames and memory completes: sys_mmap zeroes
\* the range through the mapping it has just made.
MmapCompletes ==
    [][\A p \in Pids, g \in Maps : Mmap(p, g) /\ next' < End => machine' # "hung"]_vars

\* The address spaces of AddrSpace.
Space == INSTANCE AddrSpace
             WITH mem <- [p \in Pids |-> View(p)],
                  Images <- {Image(prog, args) : prog \in {g \in Programs : g.elf},
                                                 args \in Args}

\* Frames, tables and failures implement private address spaces: a step of
\* one process changes no page of another, fork copies, exec leaves nothing
\* behind and a failed call changes no memory.
ImplementsAddrSpace == Space!Spec
=============================================================================
