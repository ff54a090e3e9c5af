---------------------------- MODULE FilesProofs -----------------------------
(***************************************************************************)
(* The theorems about Files, for every number of descriptors and pipes,    *)
(* every tree of files and all buffers.  Each call keeps the invariant of  *)
(* FilesKernel, and is a step of FileStore or leaves all files alone.      *)
(***************************************************************************)
EXTENDS FilesVector

\* A leaf that names no prover is tried with Zenon, then with SMT.
USE ZenonT(30), SMTT(30)

-----------------------------------------------------------------------------
(* One lemma for each call.                                                *)

LEMMA ReadKeeps ==
    ASSUME IInv, UNCHANGED fakeNext, NEW fd, NEW count \in Counts, NEW line \in Typed,
           SysRead(fd, count, line)
    PROVE  IInv'
<1>1. count \in 0..(Width - 1) /\ line \in Seq(Byte)
  BY FilesAssumption
<1>2. KernelOK(ReadFrom(Kernel, fd, count, line))
  BY <1>1, KernelNow, InvParts, ReadFromOK
<1> QED BY <1>2, CallKeeps DEF SysRead

LEMMA WriteKeeps ==
    ASSUME IInv, UNCHANGED fakeNext, NEW fd \in Fds, NEW chunk \in Chunks,
           SysWrite(fd, chunk)
    PROVE  IInv'
<1>1. chunk \in Seq(Byte) /\ Len(chunk) < Width
  BY ChunkFacts
<1>2. Kernel.machine = "up"
  BY KernelUp DEF SysWrite, Call
<1>3. KernelOK(WriteTo(Kernel, fd, chunk))
  BY <1>1, <1>2, KernelNow, InvParts, WriteToOK
<1> QED BY <1>3, CallKeeps DEF SysWrite

LEMMA WritevKeeps ==
    ASSUME IInv, UNCHANGED fakeNext, NEW fd \in Fds, NEW c \in Chunks, NEW d \in Chunks,
           SysWritev(fd, <<c, d>>)
    PROVE  IInv'
<1>1. c \in Seq(Byte) /\ Len(c) < Width /\ d \in Seq(Byte) /\ Len(d) < Width
  BY ChunkFacts
<1>2. KernelOK(WriteVector(Kernel, fd, <<c, d>>))
  BY <1>1, KernelNow, InvParts, WriteVectorOK
<1> QED BY <1>2, CallKeeps DEF SysWritev

LEMMA PwriteKeeps ==
    ASSUME IInv, UNCHANGED fakeNext, NEW fd, NEW chunk \in Chunks, NEW off \in Seeks,
           SysPwrite(fd, chunk, off)
    PROVE  IInv'
<1> DEFINE path == files[fd].inode
           o == off % Width
<1>1. chunk \in Seq(Byte) /\ Len(chunk) < Width
  BY ChunkFacts
<1>2. machine = "up" /\ fd \in Open /\ path # None
  BY DEF SysPwrite, Call
<1>3. path \in DOMAIN data
  BY <1>2, InvParts DEF FileOK
<1>4. o \in 0..(Width - 1)
  <2>1. off \in Int /\ Width \in Nat /\ Width > 0
    BY FilesAssumption, Numbers, SMTT(30)
  <2> QED BY <2>1, ModFacts
<1>5. Call(WriteInode(Kernel, path, o, chunk))
  BY DEF SysPwrite
<1> HIDE DEF path, o
<1>6. path \in DOMAIN Kernel.data
  BY <1>2, <1>3, KernelUp
<1>7. KernelOK(WriteInode(Kernel, path, o, chunk))
  BY <1>1, <1>4, <1>6, KernelNow, WriteInodeOK
<1> QED BY <1>5, <1>7, CallKeeps

LEMMA PreadKeeps ==
    ASSUME IInv, UNCHANGED fakeNext, NEW fd, NEW off, SysPread(fd, off)
    PROVE  IInv'
<1>1. KernelOK(Panics(Kernel))
  BY KernelNow, PanicsOK
<1> QED BY <1>1, CallKeeps DEF SysPread

LEMMA SendfileKeeps ==
    ASSUME IInv, UNCHANGED fakeNext, NEW out \in Fds, NEW in \in Fds,
           NEW count \in Counts, NEW line \in Typed, SysSendfile(out, in, count, line)
    PROVE  IInv'
<1> DEFINE r == ReadFrom(Kernel, in, count, line)
<1>1. count \in 0..(Width - 1) /\ line \in Seq(Byte)
  BY FilesAssumption
<1>2. KernelOK(r)
  BY <1>1, KernelNow, InvParts, ReadFromOK
<1>3. Call(r) \/ (r.machine = "up" /\ Call(WriteTo(r, out, r.got)))
  BY DEF SysSendfile
<1> HIDE DEF r
<1>4. r.got \in Seq(Byte) /\ Len(r.got) < Width
  BY <1>2, KernelParts
<1>5. CASE Call(r)
  BY <1>2, <1>5, CallKeeps
<1>6. CASE r.machine = "up" /\ Call(WriteTo(r, out, r.got))
  <2>1. KernelOK(WriteTo(r, out, r.got))
    BY <1>2, <1>4, <1>6, InvParts, WriteToOK
  <2> QED BY <1>6, <2>1, CallKeeps
<1> QED BY <1>3, <1>5, <1>6

LEMMA LseekKeeps ==
    ASSUME IInv, UNCHANGED fakeNext, NEW fd, NEW off \in Seeks, NEW whence \in 0..2,
           SysLseek(fd, off, whence)
    PROVE  IInv'
<1> DEFINE of == files[fd]
           to == Target(of, off, whence)
           x  == Placed(of, to)
<1>1. /\ fd \in Open /\ of.inode # None
      /\ files' = [files EXCEPT ![fd] = x] /\ data' = data /\ pipes' = pipes
      /\ fakes' = fakes /\ machine' = machine
  BY DEF SysLseek, Call, Kernel
<1>2. off \in Int
  BY FilesAssumption
<1>3. to \in 0..(Width - 1)
  BY <1>1, <1>2, TargetRange
<1> HIDE DEF to
<1>4. FileOK(x, data, pipes)
  BY <1>1, <1>3, InvParts, PlacedOK
<1> HIDE DEF x
<1>5. FilesOK(files', data', pipes')
  BY <1>1, <1>4, InvParts, SetFile
<1> QED BY <1>1, <1>5, InvParts, StateKeeps

LEMMA GetdentsKeeps ==
    ASSUME IInv, UNCHANGED fakeNext, NEW fd, NEW fits \in Counts, SysGetdents(fd, fits)
    PROVE  IInv'
<1> DEFINE x == List(files[fd], fits)
<1>1. /\ fd \in Open
      /\ files' = [files EXCEPT ![fd] = x] /\ data' = data /\ pipes' = pipes
      /\ fakes' = fakes /\ machine' = machine
  BY DEF SysGetdents, Call, Kernel
<1>2. fits \in 0..(Width - 1)
  BY FilesAssumption
<1>3. FileOK(x, data, pipes)
  BY <1>1, <1>2, InvParts, ListOK
<1> HIDE DEF x
<1>4. FilesOK(files', data', pipes')
  BY <1>1, <1>3, InvParts, SetFile
<1> QED BY <1>1, <1>4, InvParts, StateKeeps

LEMMA NewFileOK ==
    ASSUME NEW path \in Paths \cup {None}, NEW pipe \in Nat \cup {None}, NEW wr \in BOOLEAN,
           NEW ps, DataOK(data), path \in DOMAIN data \cup {None},
           pipe \in DOMAIN ps \cup {None}, path = None \/ pipe = None
    PROVE  FileOK(OpenFile(path, pipe, wr), data, ps)
<1> DEFINE of == OpenFile(path, pipe, wr)
           d  == Names(path)
<1>1. d \in SUBSET Segments
  BY NamesFacts
<1>2. 0 \in 0..(Width - 1) /\ <<>> \in Seq(Byte)
  BY Numbers, SMTT(30)
<1>3. of = [inode |-> path, offset |-> 0, pipe |-> pipe, writable |-> wr,
            since |-> 0, seen |-> <<>>, due |-> d, out |-> {}]
  BY DEF OpenFile
<1> HIDE DEF of, d
<1>4. of \in OpenFiles
  BY <1>1, <1>2, <1>3 DEF OpenFiles
<1>5. /\ of.inode = path /\ of.pipe = pipe /\ of.seen = <<>> /\ of.since = 0
      /\ of.offset = 0 /\ of.out = {} /\ of.due = d
  BY <1>3
<1>6. FileOK(of, data, ps)
  BY <1>4, <1>5, FreshOK DEF d
<1> QED BY <1>6 DEF of

LEMMA AllocOK ==
    ASSUME NEW fs, NEW dt, NEW ps, FilesOK(fs, dt, ps), NEW of, FileOK(of, dt, ps)
    PROVE  FilesOK(Alloc(fs, of), dt, ps)
<1> DEFINE i == CHOOSE j \in Fds : fs[j] = None /\ \A m \in 0..(j - 1) : fs[m] # None
<1>1. Alloc(fs, of) = [fs EXCEPT ![i] = of]
  BY DEF Alloc
<1> HIDE DEF i
<1>2. FilesOK([fs EXCEPT ![i] = of], dt, ps)
  BY SetFile
<1> QED BY <1>1, <1>2

LEMMA OpenatKeeps ==
    ASSUME IInv, NEW path, SysOpenat(path)
    PROVE  IInv'
<1> DEFINE x == OpenFile(path, None, TRUE)
<1>1. /\ path \in DOMAIN data /\ fakeNext' = fakeNext
      /\ files' = Alloc(files, x) /\ data' = data /\ pipes' = pipes
      /\ fakes' = fakes /\ machine' = machine
  BY DEF SysOpenat, Call, Kernel
<1>2. path \in Paths
  BY <1>1, InvParts DEF DataOK
<1>3. FileOK(x, data, pipes)
  BY <1>1, <1>2, InvParts, NewFileOK
<1> HIDE DEF x
<1>4. FilesOK(files', data', pipes')
  BY <1>1, <1>3, InvParts, AllocOK
<1> QED BY <1>1, <1>4, InvParts, StateKeeps

LEMMA Pipe2Keeps ==
    ASSUME IInv, SysPipe2
    PROVE  IInv'
<1> DEFINE id == Len(pipes) + 1
           ps == Append(pipes, <<>>)
           r  == OpenFile(None, id, FALSE)
           w  == OpenFile(None, id, TRUE)
           fs == Alloc(files, r)
<1>1. /\ fakeNext' = fakeNext
      /\ files' = Alloc(fs, w) /\ data' = data /\ pipes' = ps
      /\ fakes' = fakes /\ machine' = machine
  BY DEF SysPipe2, Call, Kernel
<1>2. pipes \in Seq(Seq(Byte)) /\ \A i \in DOMAIN pipes : Len(pipes[i]) <= PipeSize
  BY InvParts DEF PipesOK
<1>3. Len(pipes) \in Nat /\ DOMAIN pipes = 1..Len(pipes) /\ <<>> \in Seq(Byte)
  BY <1>2, LenProperties, SMTT(30)
<1>4. /\ ps \in Seq(Seq(Byte)) /\ Len(ps) = id /\ ps[id] = <<>>
      /\ \A i \in 1..Len(pipes) : ps[i] = pipes[i]
  BY <1>2, <1>3, AppendProperties, SMTT(30)
<1>5. DOMAIN ps = 1..id
  BY <1>4, LenProperties
<1>6. /\ id \in Nat /\ id \in 1..id /\ 1..Len(pipes) \subseteq 1..id
      /\ \A i \in 1..id : i = id \/ i \in 1..Len(pipes)
  BY <1>3, SMTT(30)
<1>7. Len(<<>>) <= PipeSize
  BY Numbers, SMTT(30)
<1> HIDE DEF ps, id
<1>8. PipesOK(ps) /\ DOMAIN pipes \subseteq DOMAIN ps
  <2>1. \A i \in DOMAIN ps : Len(ps[i]) <= PipeSize
    BY <1>2, <1>3, <1>4, <1>5, <1>6, <1>7
  <2> QED BY <1>3, <1>4, <1>5, <1>6, <2>1 DEF PipesOK
<1>9. FilesOK(files, data, ps)
  BY <1>8, InvParts, PipesChange
<1>10. FileOK(r, data, ps) /\ FileOK(w, data, ps)
  BY <1>5, <1>6, InvParts, NewFileOK
<1> HIDE DEF r, w
<1>11. FilesOK(fs, data, ps)
  BY <1>9, <1>10, AllocOK
<1> HIDE DEF fs
<1>12. FilesOK(files', data', pipes')
  BY <1>1, <1>10, <1>11, AllocOK
<1> QED BY <1>1, <1>8, <1>12, InvParts, StateKeeps

LEMMA CloseKeeps ==
    ASSUME IInv, NEW fd, SysClose(fd)
    PROVE  IInv'
<1>1. fakeNext' = fakeNext /\ Call(Closed(Kernel, fd))
  BY DEF SysClose
<1>2. CASE fd \in Stdio
  <2>1. Closed(Kernel, fd) = Returns(Kernel, -1)
    BY <1>2 DEF Closed
  <2>2. KernelOK(Returns(Kernel, -1))
    BY KernelNow, ReturnsOK
  <2> QED BY <1>1, <2>1, <2>2, CallKeeps
<1>3. CASE fd \notin Stdio /\ fd \in DOMAIN fakes
  <2>1. Kernel.fakes = fakes
    BY DEF Kernel
  <2>2. Closed(Kernel, fd) = [Kernel EXCEPT !.fakes = [f \in DOMAIN fakes \ {fd} |-> fakes[f]]]
    BY <1>3, <2>1 DEF Closed
  <2>3. /\ files' = files /\ data' = data /\ pipes' = pipes /\ machine' = machine
        /\ fakes' = [f \in DOMAIN fakes \ {fd} |-> fakes[f]]
    BY <1>1, <2>2 DEF Call, Kernel
  <2>4. FakesOK(fakes', fakeNext')
    BY <1>1, <2>3, InvParts DEF FakesOK
  <2>5. FilesOK(files', data', pipes') /\ DataOK(data') /\ PipesOK(pipes')
        /\ fakeNext' \in Nat /\ FakeBase <= fakeNext' /\ machine' \in {"up", "panic"}
    BY <1>1, <2>3, InvParts
  <2> QED BY <2>4, <2>5, StateKeeps
<1>4. CASE fd \notin Stdio /\ fd \notin DOMAIN fakes /\ fd \in Fds
  <2>1. Closed(Kernel, fd) = [Kernel EXCEPT !.files[fd] = None]
    BY <1>4 DEF Closed, Kernel
  <2>2. /\ files' = [files EXCEPT ![fd] = None] /\ data' = data /\ pipes' = pipes
        /\ fakes' = fakes /\ machine' = machine
    BY <1>1, <2>1 DEF Call, Kernel
  <2>3. FilesOK(files', data', pipes')
    <3>1. files \in [Fds -> OpenFiles \cup {None}] /\ \A i \in Stdio : files[i] # None
      BY InvParts DEF FilesOK
    <3>2. /\ files' \in [Fds -> OpenFiles \cup {None}]
          /\ \A i \in Fds : files'[i] = IF i = fd THEN None ELSE files[i]
      BY <2>2, <3>1
    <3>3. \A i \in Stdio : files'[i] # None
      BY <1>4, <3>1, <3>2, Numbers
    <3> QED BY <2>2, <3>2, <3>3, InvParts DEF FilesOK
  <2> QED BY <1>1, <2>2, <2>3, InvParts, StateKeeps
<1>5. CASE fd \notin Stdio /\ fd \notin DOMAIN fakes /\ fd \notin Fds
  <2>1. Closed(Kernel, fd) = Kernel
    BY <1>5 DEF Closed, Kernel
  <2> QED BY <1>1, <2>1, KernelNow, CallKeeps
<1> QED BY <1>2, <1>3, <1>4, <1>5

LEMMA Dup2Keeps ==
    ASSUME IInv, NEW old, NEW new, SysDup2(old, new)
    PROVE  IInv'
<1> DEFINE x == files[old]
<1>1. /\ old \in Open /\ fakeNext' = fakeNext
      /\ files' = [files EXCEPT ![new] = x] /\ data' = data /\ pipes' = pipes
      /\ fakes' = fakes /\ machine' = machine
  BY DEF SysDup2, Call, Kernel
<1>2. FileOK(x, data, pipes)
  BY <1>1, InvParts
<1> HIDE DEF x
<1>3. FilesOK(files', data', pipes')
  BY <1>1, <1>2, InvParts, SetFile
<1> QED BY <1>1, <1>3, InvParts, StateKeeps

LEMMA MkdiratKeeps ==
    ASSUME IInv, NEW path \in Paths, SysMkdirat(path)
    PROVE  IInv'
<1> DEFINE x == [static |-> TRUE, bytes |-> <<>>]
           du == [q \in DOMAIN data \cup {path} |-> IF q = path THEN x ELSE data[q]]
<1>1. /\ path \notin DOMAIN data /\ fakeNext' = fakeNext
      /\ files' = files /\ data' = du /\ pipes' = pipes
      /\ fakes' = fakes /\ machine' = machine
  BY DEF SysMkdirat, Call, Kernel
<1>2. <<>> \in Seq(Byte) /\ Len(<<>>) <= MaxSize
  BY Numbers, SMTT(30)
<1>3. x \in File /\ x.bytes = <<>> /\ x.static = TRUE
  BY <1>2 DEF File
<1> HIDE DEF x
<1>4. /\ DOMAIN du = DOMAIN data \cup {path} /\ du[path] = x
      /\ \A q \in DOMAIN data : du[q] = data[q]
  BY <1>1
<1>5. DataOK(data) /\ data \in [DOMAIN data -> File]
  BY InvParts DEF DataOK
<1>6. du \in [DOMAIN data \cup {path} -> File]
  BY <1>3, <1>5
<1> HIDE DEF du
<1>7. DataOK(du)
  BY <1>2, <1>3, <1>4, <1>5, <1>6 DEF DataOK
<1>8. FilesOK(files, du, pipes)
  BY <1>1, <1>4, InvParts, DataGrows
<1> QED BY <1>1, <1>7, <1>8, InvParts, StateKeeps

LEMMA NewFakeKeeps ==
    ASSUME IInv, NEW left \in {-1, 0}, NewFake(left)
    PROVE  IInv'
<1> DEFINE fk == [f \in DOMAIN fakes \cup {fakeNext} |-> IF f = fakeNext THEN left ELSE fakes[f]]
<1>1. /\ fakeNext' = fakeNext + 1
      /\ files' = files /\ data' = data /\ pipes' = pipes
      /\ fakes' = fk /\ machine' = machine
  BY DEF NewFake, Call, Kernel
<1>2. FakesOK(fakes, fakeNext) /\ fakeNext \in Nat /\ FakeBase <= fakeNext
  BY InvParts
<1>3. left \in Nat \cup {-1} /\ fakeNext' \in Nat /\ FakeBase <= fakeNext'
  BY <1>1, <1>2, Numbers, SMTT(30)
<1>4. FakeBase..(fakeNext - 1) \cup {fakeNext} \subseteq FakeBase..(fakeNext' - 1)
  BY <1>1, <1>2, Numbers, SMTT(30)
<1>5. fk \in [DOMAIN fakes \cup {fakeNext} -> Nat \cup {-1}]
  BY <1>2, <1>3 DEF FakesOK
<1> HIDE DEF fk
<1>6. FakesOK(fakes', fakeNext')
  <2>1. DOMAIN fk = DOMAIN fakes \cup {fakeNext} /\ DOMAIN fakes \subseteq FakeBase..(fakeNext - 1)
    BY <1>2, <1>5 DEF FakesOK
  <2>2. DOMAIN fk \subseteq FakeBase..(fakeNext' - 1)
    BY <1>4, <2>1
  <2> QED BY <1>1, <1>5, <2>1, <2>2 DEF FakesOK
<1> QED BY <1>1, <1>3, <1>6, InvParts, StateKeeps

LEMMA LostFakeKeeps ==
    ASSUME IInv, LostFake
    PROVE  IInv'
<1>1. /\ fakeNext' = fakeNext + 1
      /\ files' = files /\ data' = data /\ pipes' = pipes
      /\ fakes' = fakes /\ machine' = machine
  BY DEF LostFake, Call, Kernel, Returns
<1>2. FakesOK(fakes, fakeNext) /\ fakeNext \in Nat /\ FakeBase <= fakeNext
  BY InvParts
<1>3. /\ fakeNext' \in Nat /\ FakeBase <= fakeNext'
      /\ FakeBase..(fakeNext - 1) \subseteq FakeBase..(fakeNext' - 1)
  BY <1>1, <1>2, Numbers, SMTT(30)
<1>4. FakesOK(fakes', fakeNext')
  BY <1>1, <1>2, <1>3 DEF FakesOK
<1> QED BY <1>1, <1>3, <1>4, InvParts, StateKeeps

LEMMA SendtoKeeps ==
    ASSUME IInv, NEW fd, SysSendto(fd)
    PROVE  IInv'
<1>1. /\ fakeNext' = fakeNext
      /\ files' = files /\ data' = data /\ pipes' = pipes
      /\ fakes' = [fakes EXCEPT ![fd] = NscdSize] /\ machine' = machine
  BY DEF SysSendto, Call, Kernel
<1>2. FakesOK(fakes', fakeNext')
  BY <1>1, InvParts, FakesChange, Numbers
<1> QED BY <1>1, <1>2, InvParts, StateKeeps

-----------------------------------------------------------------------------
(* The theorems.                                                           *)

LEMMA InitEstablishes == Init => IInv
<1> SUFFICES ASSUME Init PROVE IInv
  OBVIOUS
<1>1. /\ data = Boot /\ pipes = <<>> /\ fakes = [fd \in {} |-> -1]
      /\ files = [fd \in Fds |-> IF fd \in Stdio THEN Console ELSE None]
      /\ fakeNext = FakeBase /\ machine = "up"
  BY DEF Init
<1>2. DataOK(data)
  BY <1>1, FilesAssumption DEF DataOK
<1>3. PipesOK(pipes)
  <2>1. <<>> \in Seq(Seq(Byte)) /\ DOMAIN <<>> = {}
    BY SMTT(30)
  <2> QED BY <1>1, <2>1 DEF PipesOK
<1>4. FakesOK(fakes, fakeNext) /\ fakeNext \in Nat /\ FakeBase <= fakeNext
  <2>1. fakeNext \in Nat /\ FakeBase <= fakeNext
    BY <1>1, Numbers, SMTT(30)
  <2> QED BY <1>1, <2>1 DEF FakesOK
<1>5. FileOK(Console, data, pipes)
  <2>1. TRUE \in BOOLEAN
    OBVIOUS
  <2> QED BY <1>2, <2>1, NewFileOK DEF Console
<1>6. Console \in OpenFiles /\ Console # None
  BY <1>5, NoneFacts DEF FileOK
<1>7. FilesOK(files, data, pipes)
  <2> HIDE DEF Console
  <2>1. files \in [Fds -> OpenFiles \cup {None}]
    BY <1>1, <1>6
  <2>2. \A fd \in Fds : files[fd] = IF fd \in Stdio THEN Console ELSE None
    BY <1>1
  <2>3. \A fd \in Stdio : files[fd] # None
    BY <1>6, <2>2, Numbers
  <2>4. \A fd \in Fds : files[fd] # None => FileOK(files[fd], data, pipes)
    BY <1>5, <2>2
  <2> QED BY <2>1, <2>3, <2>4 DEF FilesOK
<1> QED BY <1>1, <1>2, <1>3, <1>4, <1>7 DEF IInv

LEMMA StutterKeeps ==
    ASSUME IInv, UNCHANGED vars
    PROVE  IInv'
<1>1. /\ files' = files /\ data' = data /\ pipes' = pipes /\ fakes' = fakes
      /\ fakeNext' = fakeNext /\ machine' = machine
  BY DEF vars
<1> QED BY <1>1, InvParts, StateKeeps

LEMMA NextKeeps == IInv /\ [Next]_vars => IInv'
<1> SUFFICES ASSUME IInv, [Next]_vars PROVE IInv'
  OBVIOUS
<1>1. CASE Transfer /\ UNCHANGED fakeNext
  <2>1. CASE \E fd \in Fds \cup DOMAIN fakes, count \in Counts, line \in Typed :
                SysRead(fd, count, line)
    BY <1>1, <2>1, ReadKeeps
  <2>2. ASSUME NEW fd \in Fds, NEW chunk \in Chunks,
               \/ SysWrite(fd, chunk)
               \/ \E more \in Chunks : SysWritev(fd, <<chunk, more>>)
               \/ \E off \in Seeks : SysPwrite(fd, chunk, off)
        PROVE  IInv'
    BY <1>1, <2>2, WriteKeeps, WritevKeeps, PwriteKeeps
  <2>3. CASE \E out \in Fds, in \in Fds, count \in Counts, line \in Typed :
                SysSendfile(out, in, count, line)
    BY <1>1, <2>3, SendfileKeeps
  <2>4. CASE \E fd \in Fds, off \in Seeks :
                SysPread(fd, off) \/ \E whence \in 0..2 : SysLseek(fd, off, whence)
    BY <1>1, <2>4, PreadKeeps, LseekKeeps
  <2>5. CASE \E fd \in Fds, fits \in Counts : SysGetdents(fd, fits)
    BY <1>1, <2>5, GetdentsKeeps
  <2> QED BY <1>1, <2>1, <2>2, <2>3, <2>4, <2>5 DEF Transfer
<1>2. CASE \E path \in Paths : SysOpenat(path) \/ SysMkdirat(path)
  BY <1>2, OpenatKeeps, MkdiratKeeps
<1>3. CASE SysPipe2
  BY <1>3, Pipe2Keeps
<1>4. CASE \E fd \in Fds \cup DOMAIN fakes : SysClose(fd) \/ SysSendto(fd)
  BY <1>4, CloseKeeps, SendtoKeeps
<1>5. CASE \E old \in Fds, new \in Targets : SysDup2(old, new)
  BY <1>5, Dup2Keeps
<1>6. CASE LostFake \/ \E left \in {-1, 0} : NewFake(left)
  BY <1>6, LostFakeKeeps, NewFakeKeeps
<1>7. CASE Halted \/ UNCHANGED vars
  BY <1>7, StutterKeeps DEF Halted
<1> QED BY <1>1, <1>2, <1>3, <1>4, <1>5, <1>6, <1>7 DEF Next

LEMMA InvAlways == Spec => []IInv
BY InitEstablishes, NextKeeps, PTL DEF Spec

LEMMA InvType == IInv => TypeOK
<1> SUFFICES ASSUME IInv PROVE TypeOK
  OBVIOUS
<1>1. files \in [Fds -> OpenFiles \cup {None}]
  BY InvParts DEF FilesOK
<1>2. /\ data \in [DOMAIN data -> File] /\ DOMAIN data \subseteq Paths
      /\ \A path \in DOMAIN data : Size(path) <= MaxSize
  BY InvParts DEF DataOK, Size
<1>3. \A fd \in Open : /\ files[fd].inode \in DOMAIN data \cup {None}
                       /\ files[fd].pipe \in DOMAIN pipes \cup {None}
                       /\ files[fd].inode = None \/ files[fd].pipe = None
  BY InvParts DEF FileOK
<1>4. pipes \in Seq(Seq(Byte)) /\ \A i \in DOMAIN pipes : Len(pipes[i]) <= PipeSize
  BY InvParts DEF PipesOK
<1>5. /\ fakes \in [DOMAIN fakes -> Nat \cup {-1}]
      /\ fakeNext \in Nat /\ DOMAIN fakes \subseteq FakeBase..(fakeNext - 1)
  BY InvParts DEF FakesOK
<1> QED BY <1>1, <1>2, <1>3, <1>4, <1>5, InvParts DEF TypeOK

\* Descriptors name files and pipes there are, offsets are usize values, no
\* file is longer than the heap has room for and no pipe fuller than its
\* ring, whatever is read, written, seeked, opened and closed.
THEOREM TypeCorrect == Spec => []TypeOK
BY InvAlways, InvType, PTL

\* No call closes descriptor 0, 1 or 2, so openat, pipe2 and FdTable::alloc
\* never give these numbers to a file.
THEOREM StdioAlwaysReserved == Spec => []StdioReserved
<1>1. IInv => StdioReserved
  BY Numbers DEF IInv, FilesOK, StdioReserved, Open
<1> QED BY <1>1, InvAlways, PTL

\* Through any interleaving of reads, seeks, duplicates, sendfile and writes
\* by any number of descriptors, what a descriptor of a static file has
\* delivered since it was placed is what lies between there and its offset.
THEOREM CursorAlwaysFaithful == Spec => []CursorFaithful
<1>1. IInv => CursorFaithful
  BY InvParts DEF FileOK, Cursor, CursorFaithful, Static
<1> QED BY <1>1, InvAlways, PTL

\* mkdirat never moves a name that a listing still owes to before its offset,
\* if the paths of each name of a directory stand together in the map.
THEOREM ListingAlwaysComplete == ASSUME NamesTogether PROVE Spec => []ListingComplete
<1>1. IInv => ListingComplete
  <2> SUFFICES ASSUME IInv, NEW fd \in Open, files[fd].due # {}, Static(files[fd].inode),
                      NEW name \in files[fd].due \ files[fd].out
               PROVE  \E n \in (files[fd].offset + 1)..Len(Entries(files[fd].inode)) :
                         Entries(files[fd].inode)[n] = name
    BY DEF ListingComplete
  <2>1. Listed(files[fd], data)
    BY InvParts DEF FileOK
  <2>2. Ahead(DOMAIN data, files[fd].inode, name, files[fd].offset)
    BY <2>1 DEF Listed, Static
  <2> QED BY <2>2, EntriesOfData DEF Ahead
<1> QED BY <1>1, InvAlways, PTL

\* Writing two buffers with writev is writing their concatenation, to
\* whatever descriptor: sys_writev, for buffers of any size that a program can
\* hold.
THEOREM WritevAlwaysWrite == Spec => []WritevIsWrite
BY InvAlways, InvWritev, PTL

-----------------------------------------------------------------------------
(* The refinement: every call writes one stretch of one writable file,     *)
(* makes one empty file, or leaves all files alone.                        *)

\* One stretch of one file gets new bytes.
Stretch(dt, du) ==
    \E path \in DOMAIN dt, off \in Nat, chunk \in Seq(Byte) :
        /\ ~dt[path].static
        /\ off + Len(chunk) <= MaxSize
        /\ du = [dt EXCEPT ![path] =
                    [static |-> FALSE, bytes |-> Patched(dt[path].bytes, off, chunk)]]

LEMMA StretchOf ==
    ASSUME NEW k, NEW path \in DOMAIN k.data, NEW off \in Nat, NEW chunk \in Seq(Byte),
           ~k.data[path].static, off + Len(chunk) <= MaxSize,
           NEW du, du = WithData(k, path, Patched(k.data[path].bytes, off, chunk))
    PROVE  Stretch(k.data, du)
BY DEF Stretch, WithData

LEMMA WriteInodeData ==
    ASSUME NEW k, KernelOK(k), NEW path \in DOMAIN k.data,
           NEW off \in 0..(Width - 1), NEW chunk \in Seq(Byte), Len(chunk) < Width
    PROVE  LET w == WriteInode(k, path, off, chunk)
           IN  w.data = k.data \/ Stretch(k.data, w.data)
<1> DEFINE w  == WriteInode(k, path, off, chunk)
           du == WithData(k, path, Patched(k.data[path].bytes, off, chunk))
           st == k.data[path].static
           n  == Len(chunk)
<1>1. /\ st => w = K(k.files, k.data, k.pipes, k.fakes, k.machine, 0, k.got)
      /\ ~st /\ off + n > MaxSize =>
            w = K(k.files, k.data, k.pipes, k.fakes, "panic", k.ret, k.got)
      /\ ~st /\ off + n <= MaxSize =>
            w = K(k.files, du, k.pipes, k.fakes, k.machine, n, k.got)
  BY WriteForm
<1>2. n \in Nat /\ off \in Nat
  BY LenProperties, Numbers, SMTT(30)
<1>3. off + n > MaxSize \/ off + n <= MaxSize
  <2> HIDE DEF n
  <2> QED BY <1>2, Numbers, SMTT(30)
<1>4. ~st /\ off + n <= MaxSize => Stretch(k.data, du)
  <2> HIDE DEF du
  <2> QED BY <1>2, StretchOf DEF du
<1> HIDE DEF w, du, st, n
<1>5. \E dt, m, r : /\ w = K(k.files, dt, k.pipes, k.fakes, m, r, k.got)
                    /\ dt = k.data \/ Stretch(k.data, dt)
  BY <1>1, <1>3, <1>4
<1>6. PICK dt, m, r : /\ w = K(k.files, dt, k.pipes, k.fakes, m, r, k.got)
                      /\ dt = k.data \/ Stretch(k.data, dt)
  BY <1>5
<1>7. w.data = dt
  BY <1>6, SMTT(30) DEF K
<1> QED BY <1>6, <1>7 DEF w

\* A write that panics has stored nothing.
LEMMA WriteToData ==
    ASSUME NEW k, KernelOK(k), k.machine = "up", NEW fd \in Fds,
           NEW chunk \in Seq(Byte), Len(chunk) < Width
    PROVE  LET w == WriteTo(k, fd, chunk)
           IN  w.data = k.data \/ (w.machine = "up" /\ Stretch(k.data, w.data))
<1> DEFINE w == WriteTo(k, fd, chunk)
           len == Len(chunk)
<1>0. IsKernel(k)
  BY KernelParts
<1>1. CASE \/ fd \in {1, 2} \/ k.files[fd] = None
           \/ k.files[fd].pipe = None /\ k.files[fd].inode = None
  <2>1. \E n : w = Returns(k, n)
    BY <1>1, WriteElsewhere
  <2>p. PICK n : w = Returns(k, n)
    BY <2>1
  <2> HIDE DEF w
  <2>2. w.data = k.data
    <3>1. Returns(k, n).data = k.data
      BY <1>0, ReturnsFields
    <3> QED BY <2>p, <3>1
  <2> QED BY <2>2 DEF w
<1>2. CASE fd \notin {1, 2} /\ k.files[fd] # None /\ k.files[fd].pipe # None
  <2> DEFINE p  == k.files[fd].pipe
             n  == Accepts(k.pipes[p], chunk)
             ps == [k.pipes EXCEPT ![p] = k.pipes[p] \o SubSeq(chunk, 1, n)]
  <2>1. w = K(k.files, k.data, ps, k.fakes, k.machine, n, k.got)
    BY <1>2, WritePipe
  <2> HIDE DEF w, n, ps
  <2>2. w.data = k.data
    BY <2>1, SMTT(30) DEF K
  <2> QED BY <2>2 DEF w
<1>3. CASE fd \notin {1, 2} /\ k.files[fd] # None /\ k.files[fd].pipe = None /\ k.files[fd].inode # None
  <2> DEFINE of   == k.files[fd]
             path == of.inode
             off  == of.offset
             du   == WithData(k, path, Patched(k.data[path].bytes, off, chunk))
             st   == k.data[path].static
             gs   == [k.files EXCEPT ![fd] = Moved(of, len)]
  <2>1. /\ path \in DOMAIN k.data /\ off \in Nat
        /\ st => w = K(k.files, k.data, k.pipes, k.fakes, "up", 0, k.got)
        /\ ~st /\ off + len > MaxSize =>
             w = K(k.files, k.data, k.pipes, k.fakes, "panic", k.ret, k.got)
        /\ ~st /\ off + len <= MaxSize /\ len = 0 =>
             w = K(k.files, du, k.pipes, k.fakes, "up", 0, k.got)
        /\ ~st /\ off + len <= MaxSize /\ len > 0 =>
             w = K(gs, du, k.pipes, k.fakes, "up", len, k.got)
    BY <1>3, WriteFile
  <2>2. len \in Nat
    BY LenProperties
  <2>3. (off + len > MaxSize \/ off + len <= MaxSize) /\ (len = 0 \/ len > 0)
    <3> HIDE DEF off, len
    <3> QED BY <2>1, <2>2, Numbers, SMTT(30)
  <2>4. ~st /\ off + len <= MaxSize => Stretch(k.data, du)
    <3>1. path \in DOMAIN k.data /\ off \in Nat
      BY <2>1
    <3> HIDE DEF du, path, off
    <3> QED BY <3>1, StretchOf DEF du
  <2> HIDE DEF w, du, st, off, gs, len
  <2>5. \E fs, dt, m, r : /\ w = K(fs, dt, k.pipes, k.fakes, m, r, k.got)
                          /\ dt = k.data \/ (m = "up" /\ Stretch(k.data, dt))
    BY <2>1, <2>3, <2>4
  <2>6. PICK fs, dt, m, r : /\ w = K(fs, dt, k.pipes, k.fakes, m, r, k.got)
                            /\ dt = k.data \/ (m = "up" /\ Stretch(k.data, dt))
    BY <2>5
  <2>7. w.data = dt /\ w.machine = m
    BY <2>6, SMTT(30) DEF K
  <2> QED BY <2>6, <2>7 DEF w
<1> QED BY <1>1, <1>2, <1>3

\* sys_writev writes one stretch, although it makes two writes: the second
\* goes on where the first ended, or panics and stores nothing.
LEMMA WriteVectorData ==
    ASSUME NEW k, KernelOK(k), k.machine = "up", k.ret \in Nat, DataOK(data), NEW fd \in Fds,
           NEW c \in Seq(Byte), Len(c) < Width, NEW d \in Seq(Byte), Len(d) < Width,
           Len(c \o d) < Width
    PROVE  LET v == WriteVector(k, fd, <<c, d>>)
           IN  v.data = k.data \/ Stretch(k.data, v.data)
<1> DEFINE v  == WriteVector(k, fd, <<c, d>>)
           s0 == Start(k)
           s1 == Turn(s0, fd, c)
           s2 == Turn(s1, fd, d)
<1>0. s0.k = k /\ TurnOK(s0)
  BY DEF TurnOK, Start
<1>1. TurnOK(s1) /\ TurnOK(s2)
  <2> HIDE DEF s0
  <2>1. TurnOK(s1)
    BY <1>0, TurnKeeps
  <2> HIDE DEF s1
  <2> QED BY <2>1, TurnKeeps
<1>2. v = Returns(s2.k, s2.total)
  BY VectorOfTwo
<1>3. v.data = s2.k.data /\ v.machine = s2.k.machine
  <2>1. IsKernel(s2.k)
    BY <1>1, KernelParts DEF TurnOK
  <2> HIDE DEF v, s2
  <2> QED BY <1>2, <2>1, ReturnsFields
\* A turn leaves the data, or it is a write.
<1>4. ASSUME NEW s, TurnOK(s), NEW x \in Seq(Byte), Len(x) < Width
      PROVE  LET t == Turn(s, fd, x)
             IN  \/ t.k = s.k
                 \/ s.k.machine = "up" /\
                    (t.k.data = s.k.data \/ (t.k.machine = "up" /\ Stretch(s.k.data, t.k.data)))
  <2> DEFINE w == WriteTo(s.k, fd, x)
             t == Turn(s, fd, x)
             e == w.ret < Len(x)
             n == s.total + w.ret
             n0 == IF s.total = 0 THEN w.ret ELSE s.total
  <2>1. CASE s.done \/ x = <<>> \/ s.k.machine # "up"
    <3>1. t = s
      BY <2>1, TurnSkipped
    <3> QED BY <3>1
  <2>2. CASE ~(s.done \/ x = <<>> \/ s.k.machine # "up") /\ w.ret < 0
    <3>1. t = [k |-> s.k, total |-> n0, done |-> TRUE]
      BY <2>2 DEF Turn
    <3> HIDE DEF t, n0
    <3>2. t.k = s.k
      BY <3>1
    <3> QED BY <3>2 DEF t
  <2>3. CASE ~(s.done \/ x = <<>> \/ s.k.machine # "up") /\ ~(w.ret < 0)
    <3>1. t = [k |-> w, total |-> n, done |-> e]
      BY <2>3 DEF Turn
    <3>2. s.k.machine = "up" /\ (w.data = s.k.data \/ (w.machine = "up" /\ Stretch(s.k.data, w.data)))
      <4>1. KernelOK(s.k) /\ s.k.machine = "up"
        BY <1>4, <2>3 DEF TurnOK
      <4> DEFINE ks == s.k
      <4> HIDE DEF ks
      <4>2. WriteTo(ks, fd, x).data = ks.data
            \/ (WriteTo(ks, fd, x).machine = "up" /\ Stretch(ks.data, WriteTo(ks, fd, x).data))
        BY <1>4, <4>1, WriteToData DEF ks
      <4> QED BY <4>1, <4>2 DEF ks
    <3> HIDE DEF t, w, e, n
    <3>3. t.k = w
      BY <3>1
    <3> QED BY <3>2, <3>3 DEF t
  <2> QED BY <2>1, <2>2, <2>3
<1>5. CASE c \o d = <<>>
  <2>1. c = <<>> /\ d = <<>>
    <3>1. Len(c \o d) = Len(c) + Len(d) /\ Len(c) \in Nat /\ Len(d) \in Nat
      BY Joined, LenProperties
    <3>2. Len(c \o d) = 0
      BY <1>5, SMTT(30)
    <3>3. Len(c) = 0 /\ Len(d) = 0
      BY <3>1, <3>2, SMTT(30)
    <3> QED BY <3>3, EmptySeq
  <2>2. s2 = s0
    BY <2>1, TurnSkipped
  <2> HIDE DEF s0, s1, s2, v
  <2> QED BY <1>0, <1>3, <2>2 DEF v
<1>6. CASE c \o d # <<>> /\ v.machine = "up"
  <2> DEFINE e == c \o d
  <2>1. v = WriteTo(k, fd, e)
    BY <1>6, VectorIsWrite
  <2>2. e \in Seq(Byte) /\ Len(e) < Width
    BY Joined
  <2> HIDE DEF e, v
  <2>3. v.data = k.data \/ Stretch(k.data, v.data)
    BY <2>1, <2>2, WriteToData
  <2> QED BY <2>3 DEF v
<1>7. CASE v.machine # "up"
  <2>1. \/ s1.k = s0.k
        \/ s1.k.data = s0.k.data \/ Stretch(s0.k.data, s1.k.data)
    <3> HIDE DEF s0
    <3> QED BY <1>0, <1>4
  <2>2. s2.k = s1.k \/ s2.k.data = s1.k.data
    <3> HIDE DEF s1
    <3>1. \/ s2.k = s1.k
          \/ s2.k.data = s1.k.data \/ s2.k.machine = "up"
      BY <1>1, <1>4
    <3> HIDE DEF s2, v
    <3> QED BY <1>3, <1>7, <3>1
  <2> HIDE DEF s0, s1, s2, v
  <2>3. v.data = k.data \/ Stretch(k.data, v.data)
    BY <1>0, <1>3, <2>1, <2>2
  <2> QED BY <2>3 DEF v
<1> QED BY <1>5, <1>6, <1>7

(* The files of FileStore, as a function of the data.                      *)

SizeIn(dt, path) == IF path \in DOMAIN dt THEN Len(dt[path].bytes) ELSE 0

StoreIn(dt) ==
    [path \in Paths |-> [i \in 0..(MaxSize - 1) |->
        IF i < SizeIn(dt, path) THEN dt[path].bytes[i + 1] ELSE 0]]

SizesIn(dt) ==
    [path \in Paths |-> IF path \in DOMAIN dt THEN SizeIn(dt, path) ELSE -1]

LEMMA StoreWrite ==
    ASSUME NEW path, NEW off, NEW end, path \in DOMAIN Boot, ~Boot[path].static, off <= end,
           \A q \in Paths \ {path} : StoreIn(data')[q] = StoreIn(data)[q],
           \A i \in (0..(MaxSize - 1)) \ (off..(end - 1)) :
               StoreIn(data')[path][i] = StoreIn(data)[path][i],
           SizesIn(data') = [SizesIn(data) EXCEPT ![path] = IF @ < end THEN end ELSE @]
    PROVE  Store!Write(path, off, end)
BY DEF Store!Write, Store!Cells, StoreIn, SizesIn, SizeIn, Size

LEMMA StoreCreate ==
    ASSUME NEW path, SizesIn(data)[path] = -1,
           SizesIn(data') = [SizesIn(data) EXCEPT ![path] = 0],
           StoreIn(data') = StoreIn(data)
    PROVE  Store!Create(path)
BY DEF Store!Create, StoreIn, SizesIn, SizeIn, Size

LEMMA StoreSame ==
    ASSUME data' = data
    PROVE  UNCHANGED Store!vars
BY DEF Store!vars, Size

LEMMA StretchStep ==
    ASSUME DataOK(data), Stretch(data, data')
    PROVE  Store!Next
<1>1. PICK path \in DOMAIN data, off \in Nat, chunk \in Seq(Byte) :
        /\ ~data[path].static
        /\ off + Len(chunk) <= MaxSize
        /\ data' = [data EXCEPT ![path] =
                      [static |-> FALSE, bytes |-> Patched(data[path].bytes, off, chunk)]]
  BY DEF Stretch
<1> DEFINE b    == data[path].bytes
           n    == Len(chunk)
           end  == off + n
           P    == Patched(b, off, chunk)
           x    == [static |-> FALSE, bytes |-> P]
           N    == Len(b)
           long == IF end > N THEN end ELSE N
<1>2. b \in Seq(Byte) /\ N \in Nat /\ N <= MaxSize /\ n \in Nat
  BY BytesOf, LenProperties
<1>3. /\ off <= end /\ end <= MaxSize /\ end \in Nat /\ off \in 0..MaxSize /\ end \in 0..MaxSize
      /\ long \in Nat /\ long <= MaxSize
  <2>1. off + n <= MaxSize
    BY <1>1
  <2> HIDE DEF n, N
  <2> QED BY <1>2, <2>1, Numbers, SMTT(30)
<1>4. path \in Paths /\ path \in DOMAIN Boot /\ ~Boot[path].static
  BY <1>1 DEF DataOK
<1>5. P \in Seq(Byte) /\ Len(P) = long
  <2> HIDE DEF b
  <2> QED BY <1>2, PatchedFacts
<1>6. \A i \in 1..long : P[i] = IF off < i /\ i <= end THEN chunk[i - off]
                                ELSE IF i <= N THEN b[i] ELSE 0
  <2> HIDE DEF n, N, b
  <2> QED BY DEF Patched, n, N
<1> HIDE DEF P
<1>7. x.bytes = P
  OBVIOUS
<1>8. /\ DOMAIN data' = DOMAIN data /\ data'[path] = x
      /\ \A q \in DOMAIN data : q # path => data'[q] = data[q]
  <2>1. data' = [data EXCEPT ![path] = x]
    BY <1>1 DEF P
  <2> HIDE DEF x
  <2> QED BY <2>1
<1> HIDE DEF x, b, n, N
<1>9. SizeIn(data, path) = N /\ SizeIn(data', path) = long
  BY <1>5, <1>7, <1>8 DEF SizeIn, N, b
<1>10. \A q \in Paths \ {path} : /\ SizeIn(data', q) = SizeIn(data, q)
                                 /\ q \in DOMAIN data => data'[q] = data[q]
  BY <1>8 DEF SizeIn
<1>11. ASSUME NEW q \in Paths \ {path}
       PROVE  StoreIn(data')[q] = StoreIn(data)[q]
  <2> DEFINE A(i) == IF i < SizeIn(data', q) THEN data'[q].bytes[i + 1] ELSE 0
             B(i) == IF i < SizeIn(data, q) THEN data[q].bytes[i + 1] ELSE 0
  <2>1. /\ StoreIn(data')[q] = [i \in 0..(MaxSize - 1) |-> A(i)]
        /\ StoreIn(data)[q] = [i \in 0..(MaxSize - 1) |-> B(i)]
    BY DEF StoreIn
  <2>2. ASSUME NEW i \in 0..(MaxSize - 1) PROVE A(i) = B(i)
    <3>1. CASE q \in DOMAIN data
      BY <1>10, <3>1
    <3>2. CASE q \notin DOMAIN data
      <4>1. SizeIn(data, q) = 0 /\ SizeIn(data', q) = 0
        BY <1>10, <3>2 DEF SizeIn
      <4>2. ~(i < 0)
        BY <1>3, SMTT(30)
      <4> QED BY <4>1, <4>2
    <3> QED BY <3>1, <3>2
  <2> HIDE DEF A, B
  <2> QED BY <2>1, <2>2, SMTT(30)
<1>12. ASSUME NEW i \in (0..(MaxSize - 1)) \ (off..(end - 1))
       PROVE  StoreIn(data')[path][i] = StoreIn(data)[path][i]
  <2>1. /\ StoreIn(data')[path][i] = IF i < long THEN P[i + 1] ELSE 0
        /\ StoreIn(data)[path][i] = IF i < N THEN b[i + 1] ELSE 0
    BY <1>4, <1>7, <1>8, <1>9 DEF StoreIn, b
  <2> DEFINE j == i + 1
  <2>2. /\ i < long => j \in 1..long
        /\ ~(off < j /\ j <= end)
        /\ i < N <=> j <= N
        /\ i < N => i < long
    BY <1>1, <1>2, <1>3, SMTT(30)
  <2> HIDE DEF j, long, end
  <2>3. i < long => P[j] = IF j <= N THEN b[j] ELSE 0
    BY <1>6, <2>2
  <2> QED BY <2>1, <2>2, <2>3 DEF j
<1>13. SizesIn(data') = [SizesIn(data) EXCEPT ![path] = IF @ < end THEN end ELSE @]
  <2> DEFINE f == SizesIn(data)
             g == SizesIn(data')
             y == IF f[path] < end THEN end ELSE f[path]
  <2>1. f[path] = N /\ g[path] = long
    BY <1>4, <1>8, <1>9 DEF SizesIn
  <2>2. \A q \in Paths : q # path => g[q] = f[q]
    BY <1>8, <1>10 DEF SizesIn
  <2>3. y = long
    <3> HIDE DEF f, end
    <3> QED BY <1>2, <1>3, <2>1, SMTT(30)
  <2>4. DOMAIN f = Paths /\ DOMAIN g = Paths /\ f = [q \in Paths |-> f[q]] /\ g = [q \in Paths |-> g[q]]
    BY DEF SizesIn
  <2> HIDE DEF f, g, y
  <2>5. g = [f EXCEPT ![path] = y]
    BY <2>1, <2>2, <2>3, <2>4, SMTT(30)
  <2> QED BY <2>5 DEF f, g, y
<1>14. Store!Write(path, off, end)
  <2> HIDE DEF end
  <2> QED BY <1>3, <1>4, <1>11, <1>12, <1>13, StoreWrite
<1> HIDE DEF end
<1> QED BY <1>3, <1>4, <1>14 DEF Store!Next

LEMMA CreateStep ==
    ASSUME IInv, NEW path \in Paths, SysMkdirat(path)
    PROVE  Store!Next
<1> DEFINE x == [static |-> TRUE, bytes |-> <<>>]
<1>1. /\ path \notin DOMAIN data
      /\ data' = [q \in DOMAIN data \cup {path} |-> IF q = path THEN x ELSE data[q]]
  BY DEF SysMkdirat, Call, Kernel
<1>2. x.bytes = <<>> /\ Len(<<>>) = 0
  BY SMTT(30)
<1> HIDE DEF x
<1>3. /\ DOMAIN data' = DOMAIN data \cup {path} /\ data'[path] = x
      /\ \A q \in DOMAIN data : data'[q] = data[q]
  BY <1>1
<1>4. SizeIn(data, path) = 0 /\ SizeIn(data', path) = 0
  BY <1>1, <1>2, <1>3 DEF SizeIn
<1>5. \A q \in Paths : SizeIn(data', q) = SizeIn(data, q)
  BY <1>3, <1>4 DEF SizeIn
<1>6. StoreIn(data') = StoreIn(data)
  <2> DEFINE A(q) == [i \in 0..(MaxSize - 1) |->
                        IF i < SizeIn(data', q) THEN data'[q].bytes[i + 1] ELSE 0]
             B(q) == [i \in 0..(MaxSize - 1) |->
                        IF i < SizeIn(data, q) THEN data[q].bytes[i + 1] ELSE 0]
  <2>1. StoreIn(data') = [q \in Paths |-> A(q)] /\ StoreIn(data) = [q \in Paths |-> B(q)]
    BY DEF StoreIn
  <2>2. ASSUME NEW q \in Paths PROVE A(q) = B(q)
    <3>1. CASE q \in DOMAIN data
      BY <1>3, <1>5, <3>1
    <3>2. CASE q \notin DOMAIN data
      <4>1. SizeIn(data, q) = 0 /\ SizeIn(data', q) = 0
        BY <1>5, <3>2 DEF SizeIn
      <4>2. \A i \in 0..(MaxSize - 1) : ~(i < 0)
        BY Numbers, SMTT(30)
      <4> QED BY <4>1, <4>2
    <3> QED BY <3>1, <3>2
  <2> HIDE DEF A, B
  <2> QED BY <2>1, <2>2, SMTT(30)
<1>7. SizesIn(data') = [SizesIn(data) EXCEPT ![path] = 0] /\ SizesIn(data)[path] = -1
  <2> DEFINE f == SizesIn(data)
             g == SizesIn(data')
  <2>1. f[path] = -1 /\ g[path] = 0
    BY <1>1, <1>3, <1>4 DEF SizesIn
  <2>2. \A q \in Paths : q # path => g[q] = f[q]
    BY <1>3, <1>5 DEF SizesIn
  <2>3. DOMAIN f = Paths /\ DOMAIN g = Paths /\ f = [q \in Paths |-> f[q]] /\ g = [q \in Paths |-> g[q]]
    BY DEF SizesIn
  <2> HIDE DEF f, g
  <2>4. g = [f EXCEPT ![path] = 0]
    BY <2>1, <2>2, <2>3, SMTT(30)
  <2> QED BY <2>1, <2>4 DEF f, g
<1>8. Store!Create(path)
  BY <1>6, <1>7, StoreCreate
<1> QED BY <1>8 DEF Store!Next

\* The calls that write.
LEMMA WritesStretch ==
    ASSUME IInv, NEW fd \in Fds, NEW chunk \in Chunks,
           \/ SysWrite(fd, chunk)
           \/ \E more \in Chunks : SysWritev(fd, <<chunk, more>>)
           \/ \E off \in Seeks : SysPwrite(fd, chunk, off)
    PROVE  data' = data \/ Stretch(data, data')
<1> DEFINE k == Kernel
<1>0. machine = "up"
  BY DEF SysWrite, SysWritev, SysPwrite, Call
<1>1. KernelOK(k) /\ k.machine = "up" /\ k.data = data /\ DataOK(data)
  BY <1>0, KernelNow, KernelUp, InvParts
<1>2. k.ret \in Nat
  <2>1. k.ret = 0
    BY DEF Kernel
  <2> QED BY <2>1, SMTT(30)
<1>3. chunk \in Seq(Byte) /\ Len(chunk) < Width
  BY ChunkFacts
<1>4. ASSUME SysWrite(fd, chunk) PROVE data' = data \/ Stretch(data, data')
  <2>1. data' = WriteTo(k, fd, chunk).data
    BY <1>4 DEF SysWrite, Call
  <2> HIDE DEF k
  <2> QED BY <1>1, <1>3, <2>1, WriteToData
<1>5. ASSUME NEW more \in Chunks, SysWritev(fd, <<chunk, more>>)
      PROVE  data' = data \/ Stretch(data, data')
  <2>1. data' = WriteVector(k, fd, <<chunk, more>>).data
    BY <1>5 DEF SysWritev, Call
  <2>2. more \in Seq(Byte) /\ Len(more) < Width
    BY ChunkFacts
  <2>3. Len(chunk \o more) < Width
    <3>1. /\ Len(chunk \o more) = Len(chunk) + Len(more)
          /\ Len(chunk) \in Nat /\ Len(more) \in Nat
      BY <1>3, <2>2, Joined, LenProperties
    <3>2. 2 * Len(chunk) < Width /\ 2 * Len(more) < Width
      BY FilesAssumption
    <3> QED BY <3>1, <3>2, Numbers, SMTT(30)
  <2> HIDE DEF k
  <2> QED BY <1>1, <1>2, <1>3, <2>1, <2>2, <2>3, WriteVectorData
<1>6. ASSUME NEW off \in Seeks, SysPwrite(fd, chunk, off)
      PROVE  data' = data \/ Stretch(data, data')
  <2> DEFINE path == files[fd].inode
             o == off % Width
  <2>1. fd \in Open /\ path # None /\ data' = WriteInode(k, path, o, chunk).data
    BY <1>6 DEF SysPwrite, Call
  <2>2. path \in DOMAIN k.data
    BY <1>1, <2>1, InvParts DEF FileOK
  <2>3. o \in 0..(Width - 1)
    <3>1. off \in Int /\ Width \in Nat /\ Width > 0
      BY FilesAssumption, Numbers, SMTT(30)
    <3> QED BY <3>1, ModFacts
  <2> HIDE DEF k, path, o
  <2> QED BY <1>1, <1>3, <2>1, <2>2, <2>3, WriteInodeData
<1> QED BY <1>4, <1>5, <1>6

LEMMA SendfileStretch ==
    ASSUME IInv, NEW out \in Fds, NEW in \in Fds, NEW count \in Counts, NEW line \in Typed,
           SysSendfile(out, in, count, line)
    PROVE  data' = data \/ Stretch(data, data')
<1> DEFINE r == ReadFrom(Kernel, in, count, line)
<1>1. count \in 0..(Width - 1) /\ line \in Seq(Byte)
  BY FilesAssumption
<1>2. KernelOK(r) /\ r.data = data
  <2>1. KernelOK(r) /\ r.data = Kernel.data
    BY <1>1, KernelNow, InvParts, ReadFromOK
  <2>2. Kernel.data = data
    BY DEF Kernel
  <2> QED BY <2>1, <2>2
<1>3. \/ data' = r.data
      \/ r.machine = "up" /\ data' = WriteTo(r, out, r.got).data
  BY DEF SysSendfile, Call
<1> HIDE DEF r
<1>4. r.got \in Seq(Byte) /\ Len(r.got) < Width
  BY <1>2, KernelParts
<1> DEFINE g == r.got
<1> HIDE DEF g
<1>5. ASSUME r.machine = "up", data' = WriteTo(r, out, g).data
      PROVE  data' = data \/ Stretch(data, data')
  BY <1>2, <1>4, <1>5, WriteToData DEF g
<1> QED BY <1>2, <1>3, <1>5 DEF g

\* The calls that do not.
LEMMA ReadSame ==
    ASSUME IInv, NEW fd, NEW count \in Counts, NEW line \in Typed, SysRead(fd, count, line)
    PROVE  data' = data
<1>1. count \in 0..(Width - 1) /\ line \in Seq(Byte)
  BY FilesAssumption
<1>2. ReadFrom(Kernel, fd, count, line).data = Kernel.data
  BY <1>1, KernelNow, InvParts, ReadFromOK
<1>3. Kernel.data = data
  BY DEF Kernel
<1>4. data' = ReadFrom(Kernel, fd, count, line).data
  BY DEF SysRead, Call
<1> QED BY <1>2, <1>3, <1>4

LEMMA SeekSame ==
    ASSUME NEW fd, NEW off,
           SysPread(fd, off) \/ \E whence \in 0..2 : SysLseek(fd, off, whence)
    PROVE  data' = data
<1>1. SysPread(fd, off) => data' = data
  BY DEF SysPread, Call, Kernel, Panics
<1>2. ASSUME NEW whence, SysLseek(fd, off, whence) PROVE data' = data
  BY <1>2 DEF SysLseek, Call, Kernel
<1> QED BY <1>1, <1>2

LEMMA TablesSame ==
    ASSUME \/ \E fd, fits : SysGetdents(fd, fits)
           \/ \E path : SysOpenat(path)
           \/ SysPipe2
           \/ \E old, new : SysDup2(old, new)
           \/ \E fd : SysSendto(fd)
           \/ LostFake
           \/ \E left : NewFake(left)
    PROVE  data' = data
<1>1. ASSUME NEW fd, NEW fits, SysGetdents(fd, fits) PROVE data' = data
  BY <1>1 DEF SysGetdents, Call, Kernel
<1>2. ASSUME NEW path, SysOpenat(path) PROVE data' = data
  BY <1>2 DEF SysOpenat, Call, Kernel
<1>3. ASSUME SysPipe2 PROVE data' = data
  BY <1>3 DEF SysPipe2, Call, Kernel
<1>4. ASSUME NEW old, NEW new, SysDup2(old, new) PROVE data' = data
  BY <1>4 DEF SysDup2, Call, Kernel
<1>5. ASSUME NEW fd, SysSendto(fd) PROVE data' = data
  BY <1>5 DEF SysSendto, Call, Kernel
<1>6. ASSUME LostFake PROVE data' = data
  BY <1>6 DEF LostFake, Call, Kernel, Returns
<1>7. ASSUME NEW left, NewFake(left) PROVE data' = data
  BY <1>7 DEF NewFake, Call, Kernel
<1> QED BY <1>1, <1>2, <1>3, <1>4, <1>5, <1>6, <1>7

LEMMA CloseSame ==
    ASSUME NEW fd, SysClose(fd)
    PROVE  data' = data
<1>1. Closed(Kernel, fd).data = data
  <2>1. CASE fd \in Stdio
    BY <2>1 DEF Closed, Returns, Kernel
  <2>2. CASE fd \notin Stdio /\ fd \in DOMAIN Kernel.fakes
    BY <2>2 DEF Closed, Kernel
  <2>3. CASE fd \notin Stdio /\ fd \notin DOMAIN Kernel.fakes
    BY <2>3 DEF Closed, Kernel
  <2> QED BY <2>1, <2>2, <2>3
<1>2. data' = Closed(Kernel, fd).data
  BY DEF SysClose, Call
<1> QED BY <1>1, <1>2

LEMMA StoreStep == IInv /\ [Next]_vars => [Store!Next]_(Store!vars)
<1> SUFFICES ASSUME IInv, [Next]_vars PROVE Store!Next \/ UNCHANGED Store!vars
  OBVIOUS
<1>0. /\ Stretch(data, data') => Store!Next
      /\ data' = data => UNCHANGED Store!vars
  BY InvParts, StretchStep, StoreSame
<1>1. CASE Transfer
  <2>1. CASE \E fd \in Fds \cup DOMAIN fakes, count \in Counts, line \in Typed :
                SysRead(fd, count, line)
    BY <1>0, <2>1, ReadSame
  <2>2. ASSUME NEW fd \in Fds, NEW chunk \in Chunks,
               \/ SysWrite(fd, chunk)
               \/ \E more \in Chunks : SysWritev(fd, <<chunk, more>>)
               \/ \E off \in Seeks : SysPwrite(fd, chunk, off)
        PROVE  Store!Next \/ UNCHANGED Store!vars
    BY <1>0, <2>2, WritesStretch
  <2>3. CASE \E out \in Fds, in \in Fds, count \in Counts, line \in Typed :
                SysSendfile(out, in, count, line)
    BY <1>0, <2>3, SendfileStretch
  <2>4. CASE \E fd \in Fds, off \in Seeks :
                SysPread(fd, off) \/ \E whence \in 0..2 : SysLseek(fd, off, whence)
    BY <1>0, <2>4, SeekSame
  <2>5. CASE \E fd \in Fds, fits \in Counts : SysGetdents(fd, fits)
    BY <1>0, <2>5, TablesSame
  <2> QED BY <1>1, <2>1, <2>2, <2>3, <2>4, <2>5 DEF Transfer
<1>2. CASE \E path \in Paths : SysOpenat(path) \/ SysMkdirat(path)
  BY <1>0, <1>2, TablesSame, CreateStep
<1>3. CASE SysPipe2
  BY <1>0, <1>3, TablesSame
<1>4. CASE \E fd \in Fds \cup DOMAIN fakes : SysClose(fd) \/ SysSendto(fd)
  BY <1>0, <1>4, CloseSame, TablesSame
<1>5. CASE \E old \in Fds, new \in Targets : SysDup2(old, new)
  BY <1>0, <1>5, TablesSame
<1>6. CASE LostFake \/ \E left \in {-1, 0} : NewFake(left)
  BY <1>0, <1>6, TablesSame
<1>7. CASE Halted \/ UNCHANGED vars
  BY <1>0, <1>7 DEF Halted, vars
<1> QED BY <1>1, <1>2, <1>3, <1>4, <1>5, <1>6, <1>7 DEF Next

\* The calls on descriptors implement plain files: each step of Files is a
\* write of one stretch of one writable file, the creation of an empty one, or
\* nothing at all, for files and buffers of every size.
THEOREM FilesImplementStore == Spec => ImplementsFileStore
BY InvAlways, StoreStep, PTL DEF Spec, ImplementsFileStore, Store!Spec
=============================================================================
