-------------------------------- MODULE Files --------------------------------
(***************************************************************************)
(* Descriptors and what they name: FD_TABLE, FAKE_FDS and the calls on     *)
(* them in src/syscall.rs, over the RAM file system of src/fs.rs.  Calls   *)
(* run with interrupts off, so each is one step.  All processes share      *)
(* these tables: the copy fork_process makes is looked at by no call.      *)
(*                                                                         *)
(* An inode is its path: INODE_MAP only grows, and a path is created once. *)
(* The ring of a pipe is the queue it implements (module Pipe).  Network   *)
(* sockets are in module Net; here a fake descriptor is an NSCD connection *)
(* or anything else.                                                       *)
(***************************************************************************)
EXTENDS Integers, Sequences, FiniteSets

CONSTANTS MaxFd,        \* bound on descriptor numbers
          FakeBase,     \* first fake descriptor, 100 in the code
          MaxFake,      \* bound on FAKE_FD_NEXT
          Width,        \* 2^64
          MaxSize,      \* the largest Vec the kernel heap has room for
          PipeSize,     \* bytes a pipe holds, 4095 in the code
          MaxPipes,     \* bound on NEXT_PIPE_ID
          NscdSize,     \* length of an NSCD answer
          Order,        \* every path, in the order of the BTreeMap
          Boot,         \* the files fs::init creates
          Chunks,       \* what programs write
          Counts,       \* how much they read, or list, at a time
          Seeks,        \* offsets they seek to, signed
          Targets,      \* descriptors they duplicate to
          Typed,        \* what is typed at the console
          None          \* no path, no pipe, no open file

Paths == {Order[i] : i \in DOMAIN Order}
Fds == 0..MaxFd
Stdio == 0..2
Byte == 0..255
Segments == {".", ".."} \cup UNION {{path[i] : i \in DOMAIN path} : path \in Paths}
File == [static : BOOLEAN, bytes : Seq(Byte)]

OpenFiles == [inode : Paths \cup {None}, offset : 0..(Width - 1),
              pipe : Nat \cup {None}, writable : BOOLEAN,
              since : 0..(Width - 1), seen : Seq(Byte),
              due : SUBSET Segments, out : SUBSET Segments]

ASSUME FilesAssumption ==
    /\ MaxFd \in Nat /\ MaxFd > 2
    /\ FakeBase \in Nat /\ MaxFake \in Nat /\ FakeBase > 2
    /\ Width \in Nat /\ MaxSize \in 1..(Width - 1)
    /\ PipeSize \in Nat /\ MaxPipes \in Nat /\ NscdSize \in Nat
    /\ Order \in Seq(Seq(STRING)) /\ Len(Order) + 2 < Width
    /\ \A i, j \in DOMAIN Order : Order[i] = Order[j] => i = j
    /\ Boot \in [DOMAIN Boot -> File] /\ DOMAIN Boot \subseteq Paths
    /\ \A path \in DOMAIN Boot : Len(Boot[path].bytes) <= MaxSize
    /\ None \notin Paths \cup OpenFiles \cup Nat
    /\ \A c \in Chunks : c \in Seq(Byte) /\ 2 * Len(c) < Width
    /\ Typed \subseteq Seq(Byte)
    /\ Counts \subseteq 0..(Width - 1) /\ Seeks \subseteq Int /\ Targets \subseteq Fds

VARIABLES files,    \* FD_TABLE: files[fd] is an OpenFile or None
          data,     \* FS: the files there are, static or not, and their bytes
          pipes,    \* PIPES: what pipe i holds
          fakes,    \* FAKE_FDS: bytes left to read of an NSCD answer, -1 for others
          fakeNext, \* FAKE_FD_NEXT
          machine   \* "up" or "panic"

vars == <<files, data, pipes, fakes, fakeNext, machine>>

Open == {fd \in Fds : files[fd] # None}
Static(path) == data[path].static
Size(path) == IF path \in DOMAIN data THEN Len(data[path].bytes) ELSE 0
Least(a, b) == IF a <= b THEN a ELSE b

-----------------------------------------------------------------------------
(* Directories.  A path is the sequence of its names.                      *)

Under(dir, path) == Len(path) > Len(dir) /\ SubSeq(path, 1, Len(dir)) = dir
NameIn(dir, path) == path[Len(dir) + 1]

\* The positions in Order at which a name of dir is seen first.
Firsts(dir) ==
    {i \in DOMAIN Order :
        /\ Order[i] \in DOMAIN data
        /\ Under(dir, Order[i])
        /\ NameIn(dir, Order[i]) \notin {".", ".."}
        /\ \A j \in 1..(i - 1) :
              Order[j] \in DOMAIN data /\ Under(dir, Order[j])
                  => NameIn(dir, Order[j]) # NameIn(dir, Order[i])}

\* read_dir's entries: ".", "..", and each name once.
Entries(dir) ==
    LET at == Firsts(dir)
        nth(n) == CHOOSE i \in at : Cardinality({j \in at : j < i}) = n - 3
    IN  [n \in 1..(Cardinality(at) + 2) |->
            CASE n = 1 -> "."
              [] n = 2 -> ".."
              [] OTHER -> NameIn(dir, Order[nth(n)])]

\* A file of length 0 is a directory.
IsDir(path) == path \in DOMAIN data /\ Size(path) = 0

Names(path) ==
    IF IsDir(path) THEN {Entries(path)[n] : n \in DOMAIN Entries(path)} ELSE {}

-----------------------------------------------------------------------------
(* Open files.  readable is never consulted; writable only by properties.  *)
(* since, seen, due and out are history: where the descriptor was placed   *)
(* last, what was read of a static file since then, the names of the       *)
(* directory at that time and those listed since.                          *)

OpenFile(path, pipe, writable) ==
    [inode |-> path, offset |-> 0, pipe |-> pipe, writable |-> writable,
     since |-> 0, seen |-> <<>>, due |-> Names(path), out |-> {}]

Placed(of, off) ==
    [of EXCEPT !.offset = off, !.since = off, !.seen = <<>>,
               !.due = IF off = 0 THEN Names(of.inode) ELSE {}, !.out = {}]

Console == OpenFile(None, None, TRUE)

\* inode 0 without a pipe is the console.
IsConsole(of) == of # None /\ of.inode = None /\ of.pipe = None

TypeOK ==
    /\ files \in [Fds -> OpenFiles \cup {None}]
    /\ data \in [DOMAIN data -> File] /\ DOMAIN data \subseteq Paths
    /\ \A fd \in Open :
          /\ files[fd].inode \in DOMAIN data \cup {None}
          /\ files[fd].pipe \in DOMAIN pipes \cup {None}
          /\ files[fd].inode = None \/ files[fd].pipe = None
    /\ \A path \in DOMAIN data : Size(path) <= MaxSize
    /\ pipes \in Seq(Seq(Byte))
    /\ \A i \in DOMAIN pipes : Len(pipes[i]) <= PipeSize
    /\ fakes \in [DOMAIN fakes -> Nat \cup {-1}]
    /\ fakeNext \in Nat /\ DOMAIN fakes \subseteq FakeBase..(fakeNext - 1)
    /\ machine \in {"up", "panic"}

Init ==
    /\ data = Boot
    /\ files = [fd \in Fds |-> IF fd \in Stdio THEN Console ELSE None]
    /\ pipes = <<>>
    /\ fakes = [fd \in {} |-> -1]
    /\ fakeNext = FakeBase
    /\ machine = "up"

-----------------------------------------------------------------------------
(* The kernel as a value, so that calls can be composed.                   *)

Kernel == [files |-> files, data |-> data, pipes |-> pipes, fakes |-> fakes,
           machine |-> machine, ret |-> 0, got |-> <<>>]

\* A call that leaves the kernel as k.
Call(k) ==
    /\ machine = "up"
    /\ files' = k.files
    /\ data' = k.data
    /\ pipes' = k.pipes
    /\ fakes' = k.fakes
    /\ machine' = k.machine

Returns(k, n) == [k EXCEPT !.ret = n]
Panics(k) == [k EXCEPT !.machine = "panic"]

\* Mutant: the offset moves by what was asked for.
ReadInodeSkips(k, fd, count) ==
    LET of    == k.files[fd]
        bytes == k.data[of.inode].bytes
        n     == Least(Len(bytes) - of.offset, count)
        part  == SubSeq(bytes, of.offset + 1, of.offset + n)
    IN  IF of.offset > Len(bytes) THEN Panics(k)
        ELSE [k EXCEPT !.ret = n, !.got = part,
                       !.files[fd].offset = @ + count, !.files[fd].seen = @ \o part]

\* read_inode at the offset: the slice from an offset beyond the end panics.
ReadInode(k, fd, count) ==
    LET of    == k.files[fd]
        bytes == k.data[of.inode].bytes
        n     == Least(Len(bytes) - of.offset, count)
        part  == SubSeq(bytes, of.offset + 1, of.offset + n)
    IN  IF of.offset > Len(bytes) THEN Panics(k)
        ELSE IF n = 0 THEN Returns(k, 0)
        ELSE [k EXCEPT !.ret = n, !.got = part,
                       !.files[fd] = IF k.data[of.inode].static
                                     THEN [of EXCEPT !.offset = @ + n, !.seen = @ \o part]
                                     ELSE Placed(of, of.offset + n)]

\* Mutant: a write ends the file.
WriteInodeCuts(k, path, off, chunk) ==
    LET bytes == k.data[path].bytes
        end   == (off + Len(chunk)) % Width
    IN  IF k.data[path].static THEN Returns(k, 0)
        ELSE IF end > MaxSize \/ off > end THEN Panics(k)
        ELSE [k EXCEPT !.ret = Len(chunk), !.data[path] =
                [static |-> FALSE, bytes |->
                    [i \in 1..end |-> IF off < i THEN chunk[i - off]
                                      ELSE IF i <= Len(bytes) THEN bytes[i] ELSE 0]]]

\* write_inode at an offset: a static file takes nothing, a gap is filled
\* with zeros.  What the heap has no room for panics, and so does an end that
\* wraps around.
WriteInode(k, path, off, chunk) ==
    LET bytes == k.data[path].bytes
        end   == (off + Len(chunk)) % Width
        long  == IF end > Len(bytes) THEN end ELSE Len(bytes)
    IN  IF k.data[path].static THEN Returns(k, 0)
        ELSE IF long > MaxSize \/ off > end THEN Panics(k)
        ELSE [k EXCEPT !.ret = Len(chunk), !.data[path] =
                [static |-> FALSE, bytes |->
                    [i \in 1..long |-> IF off < i /\ i <= end THEN chunk[i - off]
                                       ELSE IF i <= Len(bytes) THEN bytes[i] ELSE 0]]]

\* sys_read.  A console read waits for what is typed next.
ReadFrom(k, fd, count, line) ==
    LET of == IF fd \in Fds THEN k.files[fd] ELSE None
    IN  IF IsConsole(of)
        THEN [k EXCEPT !.ret = Least(Len(line), count),
                       !.got = SubSeq(line, 1, Least(Len(line), count))]
        ELSE IF fd \in DOMAIN k.fakes /\ k.fakes[fd] # -1
        THEN LET n == Least(k.fakes[fd], count)
             IN  [k EXCEPT !.ret = n, !.got = [i \in 1..n |-> 0],
                           !.fakes[fd] = k.fakes[fd] - n]
        ELSE IF of = None THEN Returns(k, -1)
        ELSE IF of.pipe # None
        THEN LET queue == k.pipes[of.pipe]
                 n     == Least(Len(queue), count)
             IN  [k EXCEPT !.ret = n, !.got = SubSeq(queue, 1, n),
                           !.pipes[of.pipe] = SubSeq(queue, n + 1, Len(queue))]
        ELSE ReadInode(k, fd, count)

\* Mutant: a write leaves the offset where it was.
MovedNot(of, n) == of

Moved(of, n) == Placed(of, of.offset + n)

\* Mutant: a pipe takes all of a chunk or nothing.
AcceptsWhole(queue, chunk) ==
    IF Len(queue) + Len(chunk) <= PipeSize THEN Len(chunk) ELSE 0

Accepts(queue, chunk) == Least(PipeSize - Len(queue), Len(chunk))

\* sys_write.  Descriptors 1 and 2 are the console, whatever they name.
WriteTo(k, fd, chunk) ==
    LET of == IF fd \in Fds THEN k.files[fd] ELSE None
    IN  IF fd \in {1, 2} THEN Returns(k, Len(chunk))
        ELSE IF of = None THEN Returns(k, -1)
        ELSE IF of.pipe # None
        THEN LET queue == k.pipes[of.pipe]
                 n     == Accepts(queue, chunk)
             IN  [k EXCEPT !.ret = n, !.pipes[of.pipe] = queue \o SubSeq(chunk, 1, n)]
        ELSE IF of.inode = None THEN Returns(k, 0)
        ELSE LET w == WriteInode(k, of.inode, of.offset, chunk)
             IN  IF w.machine = "up" /\ w.ret > 0
                 THEN [w EXCEPT !.files[fd] = Moved(of, w.ret)] ELSE w

-----------------------------------------------------------------------------
(* Calls that read and write.                                              *)

SysRead(fd, count, line) == Call(ReadFrom(Kernel, fd, count, line))

SysWrite(fd, chunk) == Call(WriteTo(Kernel, fd, chunk))

\* One turn of sys_writev's loop, from the total so far.
Turn(s, fd, chunk) ==
    LET w == WriteTo(s.k, fd, chunk)
    IN  IF s.done \/ chunk = <<>> \/ s.k.machine # "up" THEN s
        ELSE IF w.ret < 0
        THEN [k |-> s.k, total |-> IF s.total = 0 THEN w.ret ELSE s.total, done |-> TRUE]
        ELSE [k |-> w, total |-> s.total + w.ret, done |-> w.ret < Len(chunk)]

\* sys_writev: a write for each buffer, until one comes short.
WriteVector(k, fd, iov) ==
    LET turn[i \in 0..Len(iov)] ==
            IF i = 0 THEN [k |-> k, total |-> 0, done |-> FALSE]
            ELSE Turn(turn[i - 1], fd, iov[i])
        last == turn[Len(iov)]
    IN  Returns(last.k, last.total)

SysWritev(fd, iov) == Call(WriteVector(Kernel, fd, iov))

\* sys_sendfile: what was read goes to one write; what that does not take is
\* gone.
SysSendfile(out, in, count, line) ==
    LET r == ReadFrom(Kernel, in, count, line)
    IN  Call(IF r.ret <= 0 \/ r.machine # "up" THEN r ELSE WriteTo(r, out, r.got))

\* sys_pread64 changes nothing, unless it panics.
SysPread(fd, off) ==
    /\ fd \in Open
    /\ files[fd].inode # None
    /\ off % Width > Size(files[fd].inode)
    /\ Call(Panics(Kernel))

SysPwrite(fd, chunk, off) ==
    /\ fd \in Open
    /\ files[fd].inode # None
    /\ Call(WriteInode(Kernel, files[fd].inode, off % Width, chunk))

\* Mutant: an offset may become negative.
TargetSigned(of, off, whence) ==
    off + (CASE whence = 0 -> 0
             [] whence = 1 -> of.offset
             [] whence = 2 -> Size(of.inode))

\* sys_lseek, by whence; the sum is a usize.
Target(of, off, whence) ==
    (off + (CASE whence = 0 -> 0
              [] whence = 1 -> of.offset
              [] whence = 2 -> Size(of.inode))) % Width

SysLseek(fd, off, whence) ==
    /\ fd \in Open
    /\ files[fd].inode # None     \* nothing reads the offset of another
    /\ Call([Kernel EXCEPT !.files[fd] = Placed(@, Target(@, off, whence))])

\* Mutant: the last entry that fits is passed over.
ListSkips(of, fits) ==
    LET names == Entries(of.inode)
        upto  == Least(Len(names), of.offset + fits)
    IN  IF ~IsDir(of.inode) \/ upto <= of.offset THEN of
        ELSE [of EXCEPT !.offset = upto,
                        !.out = @ \cup {names[n] : n \in (of.offset + 1)..(upto - 1)}]

\* read_dir: the entries from the offset on that fit; the offset counts
\* entries.  When none fits, or none is left, nothing changes.
List(of, fits) ==
    LET names == Entries(of.inode)
        upto  == Least(Len(names), of.offset + fits)
    IN  IF ~IsDir(of.inode) \/ upto <= of.offset THEN of
        ELSE [of EXCEPT !.offset = upto, !.since = upto, !.seen = <<>>,
                        !.out = @ \cup {names[n] : n \in (of.offset + 1)..upto}]

SysGetdents(fd, fits) ==
    /\ fd \in Open
    /\ Call([Kernel EXCEPT !.files[fd] = List(@, fits)])

-----------------------------------------------------------------------------
(* Calls on the tables.                                                    *)

\* FdTable::alloc: the lowest free slot.
Alloc(fs, of) ==
    LET fd == CHOOSE i \in Fds : fs[i] = None /\ \A j \in 0..(i - 1) : fs[j] # None
    IN  [fs EXCEPT ![fd] = of]

Room(n) == Cardinality(Open) + n <= Cardinality(Fds)

SysOpenat(path) ==
    /\ path \in DOMAIN data
    /\ Room(1)
    /\ Call([Kernel EXCEPT !.files = Alloc(@, OpenFile(path, None, TRUE))])
    /\ UNCHANGED fakeNext

SysPipe2 ==
    LET id == Len(pipes) + 1
    IN  /\ id <= MaxPipes
        /\ Room(2)
        /\ Call([Kernel EXCEPT
                      !.pipes = Append(@, <<>>),
                      !.files = Alloc(Alloc(@, OpenFile(None, id, FALSE)),
                                      OpenFile(None, id, TRUE))])
        /\ UNCHANGED fakeNext

\* Mutant: any descriptor can be closed.
ClosedAny(k, fd) == IF fd \in Fds THEN [k EXCEPT !.files[fd] = None] ELSE k

\* sys_close: a fake descriptor goes first.
Closed(k, fd) ==
    IF fd \in Stdio THEN Returns(k, -1)
    ELSE IF fd \in DOMAIN k.fakes
    THEN [k EXCEPT !.fakes = [f \in DOMAIN @ \ {fd} |-> @[f]]]
    ELSE IF fd \in Fds THEN [k EXCEPT !.files[fd] = None] ELSE k

SysClose(fd) ==
    /\ Call(Closed(Kernel, fd))
    /\ UNCHANGED fakeNext

\* sys_dup2: a copy of the OpenFile, offset included; fake descriptors
\* cannot be duplicated.
SysDup2(old, new) ==
    /\ old \in Open
    /\ Call([Kernel EXCEPT !.files[new] = files[old]])
    /\ UNCHANGED fakeNext

SysMkdirat(path) ==
    /\ path \notin DOMAIN data
    /\ Call([Kernel EXCEPT !.data =
                  [q \in DOMAIN @ \cup {path} |->
                      IF q = path THEN [static |-> TRUE, bytes |-> <<>>] ELSE @[q]]])
    /\ UNCHANGED fakeNext

\* sys_socket for AF_UNIX, sys_eventfd2, sys_epoll_create1; left is -1 for
\* what is not an NSCD connection.
NewFake(left) ==
    /\ fakeNext < MaxFake
    /\ fakeNext' = fakeNext + 1
    /\ Call([Kernel EXCEPT !.fakes =
                  [f \in DOMAIN @ \cup {fakeNext} |-> IF f = fakeNext THEN left ELSE @[f]]])

\* sys_socket for a domain it does not know.
LostFake ==
    /\ fakeNext < MaxFake
    /\ fakeNext' = fakeNext + 1
    /\ Call(Returns(Kernel, -1))

\* sys_sendto on an NSCD connection puts the whole answer there to be read.
SysSendto(fd) ==
    /\ fd \in DOMAIN fakes
    /\ fakes[fd] # -1
    /\ Call([Kernel EXCEPT !.fakes[fd] = NscdSize])
    /\ UNCHANGED fakeNext

Halted ==
    /\ machine # "up"
    /\ UNCHANGED vars

Transfer ==
    \/ \E fd \in Fds \cup DOMAIN fakes, count \in Counts, line \in Typed :
            SysRead(fd, count, line)
    \/ \E fd \in Fds, chunk \in Chunks :
          \/ SysWrite(fd, chunk)
          \/ \E more \in Chunks : SysWritev(fd, <<chunk, more>>)
          \/ \E off \in Seeks : SysPwrite(fd, chunk, off)
    \/ \E out \in Fds, in \in Fds, count \in Counts, line \in Typed :
            SysSendfile(out, in, count, line)
    \/ \E fd \in Fds, off \in Seeks :
            SysPread(fd, off) \/ \E whence \in 0..2 : SysLseek(fd, off, whence)
    \/ \E fd \in Fds, fits \in Counts : SysGetdents(fd, fits)

Next ==
    \/ Transfer /\ UNCHANGED fakeNext
    \/ \E path \in Paths : SysOpenat(path) \/ SysMkdirat(path)
    \/ SysPipe2
    \/ \E fd \in Fds \cup DOMAIN fakes : SysClose(fd) \/ SysSendto(fd)
    \/ \E old \in Fds, new \in Targets : SysDup2(old, new)
    \/ LostFake \/ \E left \in {-1, 0} : NewFake(left)
    \/ Halted

Spec == Init /\ [][Next]_vars

-----------------------------------------------------------------------------
(* Properties.                                                             *)

\* Descriptors 0, 1 and 2 stay open whatever is closed, duplicated onto them
\* or opened, so that a file never gets one of these numbers: sys_close,
\* FdTable::alloc and dup2.
StdioReserved == Stdio \subseteq Open

\* Since it was last placed, a descriptor of a static file has delivered
\* exactly the bytes it has moved over, whatever other descriptors, copies
\* of it made by dup2, short reads and sendfile did in between: sys_read,
\* sys_sendfile and OpenFile.offset.
CursorFaithful ==
    \A fd \in Open :
        LET of == files[fd]
        IN  of.inode # None /\ Static(of.inode) =>
                /\ Len(of.seen) = of.offset - of.since
                /\ \A i \in DOMAIN of.seen :
                      of.seen[i] = data[of.inode].bytes[of.since + i]

\* The paths of one name of a directory stand together in Order, so that a
\* new path of a name is first seen where the name was.  In the order of the
\* BTreeMap "/b-x" stands between "/b" and "/b/y": it holds when no directory
\* is missing above a file, which fs::init sees to, or when no name has a
\* byte that sorts before the slash.
NamesTogether ==
    \A dir \in Paths : \A i, j, m \in DOMAIN Order :
        /\ i < j /\ j < m
        /\ Under(dir, Order[i]) /\ Under(dir, Order[j]) /\ Under(dir, Order[m])
        /\ NameIn(dir, Order[i]) = NameIn(dir, Order[m])
        => NameIn(dir, Order[j]) = NameIn(dir, Order[i])

\* A name that was in a directory when its listing began is listed or still
\* ahead of the offset, although the offset counts entries and mkdirat adds
\* some between two calls of getdents64: read_dir.
ListingComplete ==
    \A fd \in Open :
        LET of == files[fd]
        IN  of.due # {} /\ Static(of.inode) =>
                \A name \in of.due \ of.out :
                    \E n \in (of.offset + 1)..Len(Entries(of.inode)) :
                        Entries(of.inode)[n] = name

\* Writing two buffers with writev stores, and returns, what one write of
\* their concatenation does, to a file, a full pipe, the console or a
\* descriptor that is closed: sys_writev.
WritevIsWrite ==
    machine = "up" =>
        \A fd \in Fds, c, d \in Chunks :
            c \o d # <<>> =>
                LET v == WriteVector(Kernel, fd, <<c, d>>)
                    w == WriteTo(Kernel, fd, c \o d)
                IN  IF v.machine = "up" THEN v = w ELSE w.machine = v.machine

\* The files of FileStore.
Store == INSTANCE FileStore
            WITH Logs <- {path \in DOMAIN Boot : ~Boot[path].static},
                 store <- [path \in Paths |-> [i \in 0..(MaxSize - 1) |->
                              IF i < Size(path) THEN data[path].bytes[i + 1] ELSE 0]],
                 size <- [path \in Paths |->
                              IF path \in DOMAIN data THEN Size(path) ELSE -1]

\* Reads, writes and seeks through any number of descriptors implement plain
\* files: a call writes one stretch of one file, gaps read as zeros, no
\* other byte changes and no file shrinks (write_inode and its callers).
ImplementsFileStore == Store!Spec

\* An empty pipe with an open write end does not read as the end of file.
EofMeansClosed ==
    \A fd \in Open :
        files[fd].pipe # None /\ ReadFrom(Kernel, fd, 1, <<>>).ret = 0 =>
            \A g \in Open : files[g].pipe = files[fd].pipe => ~files[g].writable
==============================================================================
