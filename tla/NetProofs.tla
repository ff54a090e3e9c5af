------------------------------ MODULE NetProofs ------------------------------
(***************************************************************************)
(* Proofs about module Net.  HandlesExclusive is not inductive alone: a    *)
(* descriptor that accept creates must not have a handle yet, which needs  *)
(* that no number from FAKE_FD_NEXT on has one (Unborn).  SlotsOwned, of   *)
(* the server, needs in addition that there is no handle before listen.    *)
(***************************************************************************)
EXTENDS Net, TLAPS, FiniteSetTheorems, WellFoundedInduction

Sockets == [st : States, rx : 0..BufSize, tx : 0..BufSize]

Unborn == \A fd \in Fds : fd >= fakeNext => handle[fd] = None

\* What the calls keep, whatever program makes them.
IInv == TypeOK /\ HandlesExclusive /\ Unborn

USE NetAssumption
USE ZenonT(10), SMTT(30)

-----------------------------------------------------------------------------
(* Sockets.                                                                *)

\* New sockets, and sockets with other buffers, are sockets.
LEMMA SocketType ==
    /\ \A st \in States : Socket(st) \in Sockets /\ Socket(st).st = st
    /\ \A s \in Sockets, rx, tx \in 0..BufSize :
          Holding(s, rx, tx) \in Sockets /\ Holding(s, rx, tx).st = s.st
BY DEF Socket, Holding, Sockets

\* A set of natural numbers that is not empty has a least element: of the
\* intervals below its members, one has no strict subset.
LEMMA LeastNat ==
    ASSUME NEW E, E \subseteq Nat, E # {}
    PROVE  \E n \in E : \A m \in E : n <= m
<1> DEFINE Below == {0..(n - 1) : n \in E}
<1>1. \A n \in E : IsFiniteSet(0..(n - 1)) /\ 0..(n - 1) \subseteq Nat
  BY FS_Interval, SMTT(30)
<1>2. Below \subseteq FiniteSubsetsOf(Nat) /\ Below # {}
  BY <1>1 DEF FiniteSubsetsOf
<1>3. PICK x \in Below : \A y \in Below : ~(<<y, x>> \in StrictSubsetOrdering(Nat))
  BY <1>2, FS_StrictSubsetOrderingWellFounded, WFMin
<1>4. PICK n \in E : x = 0..(n - 1)
  BY <1>3
<1>5. ASSUME NEW m \in E, m < n PROVE FALSE
  <2>1. 0..(m - 1) \subseteq 0..(n - 1) /\ m \in 0..(n - 1) /\ m \notin 0..(m - 1)
    BY <1>5, SMTT(30)
  <2>2. 0..(m - 1) \in Below /\ 0..(m - 1) \in SUBSET Nat /\ x \in SUBSET Nat
    BY <1>4, SMTT(30)
  <2> QED  BY <2>1, <2>2, <1>3, <1>4 DEF StrictSubsetOrdering
<1> QED  BY <1>5, SMTT(30)

\* FreeSlot finds an empty slot when there is one.
LEMMA FreeSlotEmpty ==
    ASSUME NEW ss, ~Full(ss)
    PROVE  FreeSlot(ss) \in Handles /\ ss[FreeSlot(ss)].st = "empty"
<1> DEFINE E == {h \in Handles : ss[h].st = "empty"}
<1>1. E # {} /\ E \subseteq Nat
  BY SMTT(30) DEF Full, Handles
<1>2. PICK h \in E : \A g \in E : h <= g
  BY <1>1, LeastNat
<1>3. /\ h \in Handles
      /\ ss[h].st = "empty"
      /\ \A g \in 0..(h - 1) : ss[g].st # "empty"
  BY <1>2, SMTT(30) DEF Handles
<1> QED  BY <1>3 DEF FreeSlot

\* poll_network changes no socket's state.
LEMMA PolledSame ==
    ASSUME slots \in [Handles -> Sockets], NEW sent
    PROVE  /\ Polled(sent) \in [Handles -> Sockets]
           /\ \A h \in Handles : Polled(sent)[h].st = slots[h].st
<1>1. \A h \in Handles : /\ slots[h] \in Sockets
                         /\ slots[h].rx \in 0..BufSize /\ 0 \in 0..BufSize
  BY SMTT(30) DEF Sockets
<1>2. \A h \in Handles : /\ Holding(slots[h], slots[h].rx, 0) \in Sockets
                         /\ Holding(slots[h], slots[h].rx, 0).st = slots[h].st
  BY <1>1, SocketType
<1> QED  BY <1>1, <1>2 DEF Polled

-----------------------------------------------------------------------------
(* Steps that leave the map of handles alone.                              *)

\* The map stays right when the same slots are taken.
LEMMA SameHandles ==
    ASSUME IInv,
           slots' \in [Handles -> Sockets],
           \A h \in Handles : slots[h].st # "empty" => slots'[h].st # "empty",
           handle' = handle,
           fakeNext' \in fakeNext..MaxFake
    PROVE  HandlesExclusive' /\ Unborn'
<1>1. handle \in [Fds -> Handles \cup {None}] /\ fakeNext \in Nat
  BY SMTT(30) DEF IInv, TypeOK
<1>2. HandlesExclusive'
  BY <1>1 DEF IInv, HandlesExclusive, None, Handles
<1>3. Unborn'
  BY <1>1, SMTT(30) DEF IInv, Unborn, Fds
<1> QED  BY <1>2, <1>3

\* A peer changes one socket that is there.
LEMMA PeersKeep ==
    ASSUME IInv, NEW h \in Handles, NEW from, NEW s \in Sockets,
           "empty" \notin from, s.st # "empty",
           Peers(h, from, s), clients' \in 0..MaxClients
    PROVE  IInv'
<1>1. slots' \in [Handles -> Sockets]
  BY DEF Peers, IInv, TypeOK, Sockets
<1>2. \A g \in Handles : slots[g].st # "empty" => slots'[g].st # "empty"
  BY DEF Peers, IInv, TypeOK
<1>3. TypeOK'
  BY <1>1 DEF Peers, IInv, TypeOK, Sockets
<1>4. handle' = handle /\ fakeNext' \in fakeNext..MaxFake
  BY SMTT(30) DEF Peers, IInv, TypeOK
<1> QED  BY <1>1, <1>2, <1>3, <1>4, SameHandles DEF IInv

\* The peers keep the invariant.
LEMMA PeerStepKeeps == ASSUME IInv, PeerStep PROVE IInv'
<1>0. PICK h \in Handles : \/ PeerConnects(h) \/ PeerAcks(h) \/ PeerSends(h)
                           \/ PeerCloses(h) \/ PeerResets(h)
  BY DEF PeerStep
<1>1. /\ slots[h] \in Sockets /\ clients \in 0..MaxClients
      /\ slots[h].rx \in 0..BufSize /\ slots[h].tx \in 0..BufSize /\ 0 \in 0..BufSize
      /\ BufSize \in Nat /\ MaxClients \in Nat
  BY SMTT(30) DEF IInv, TypeOK, Sockets
<1>2. \A st \in States, rx, tx \in 0..BufSize :
          Holding(Socket(st), rx, tx) \in Sockets /\ Holding(Socket(st), rx, tx).st = st
  BY SocketType
<1>3. CASE PeerConnects(h)
  <2>1. Socket("syn") \in Sockets /\ Socket("syn").st # "empty"
    BY SocketType DEF States
  <2> QED  BY <1>1, <1>3, <2>1, PeersKeep, SMTT(30) DEF PeerConnects
<1>4. CASE PeerAcks(h)
  BY <1>1, <1>2, <1>4, PeersKeep, SMTT(30) DEF PeerAcks, States
<1>5. CASE PeerSends(h)
  <2>1. slots[h].rx + 1 \in 0..BufSize /\ slots[h].st # "empty"
    BY <1>1, <1>5 DEF PeerSends, Peers
  <2>2. /\ Holding(slots[h], slots[h].rx + 1, slots[h].tx) \in Sockets
        /\ Holding(slots[h], slots[h].rx + 1, slots[h].tx).st # "empty"
    BY <1>1, <2>1, SocketType
  <2> QED  BY <1>1, <1>5, <2>2, PeersKeep DEF PeerSends
<1>6. CASE PeerCloses(h)
  BY <1>1, <1>2, <1>6, PeersKeep, SMTT(30) DEF PeerCloses, States
<1>7. CASE PeerResets(h)
  <2>1. Socket("listen") \in Sockets /\ Socket("listen").st # "empty"
    BY SocketType DEF States
  <2>2. /\ Holding(Socket("closed"), slots[h].rx, 0) \in Sockets
        /\ Holding(Socket("closed"), slots[h].rx, 0).st # "empty"
    BY <1>1, <1>2 DEF States
  <2> QED  BY <1>1, <1>7, <2>1, <2>2, PeersKeep DEF PeerResets
<1> QED  BY <1>0, <1>3, <1>4, <1>5, <1>6, <1>7

\* A call that only polls and moves bytes keeps the invariant.
LEMMA BufferKeeps ==
    ASSUME IInv, NEW sent, NEW h \in Handles, NEW rx \in 0..BufSize, NEW tx \in 0..BufSize,
           slots' = [Polled(sent) EXCEPT ![h] = Holding(Polled(sent)[h], rx, tx)],
           UNCHANGED <<handle, fakes, fakeNext, listenFd, machine, clients, lost>>
    PROVE  IInv'
<1>1. slots \in [Handles -> Sockets]
  BY DEF IInv, TypeOK, Sockets
<1>2. /\ Polled(sent) \in [Handles -> Sockets]
      /\ \A g \in Handles : Polled(sent)[g].st = slots[g].st
  BY <1>1, PolledSame
<1>3. /\ Holding(Polled(sent)[h], rx, tx) \in Sockets
      /\ Holding(Polled(sent)[h], rx, tx).st = slots[h].st
  BY <1>2, SocketType
<1>4. /\ slots' \in [Handles -> Sockets]
      /\ \A g \in Handles : slots[g].st # "empty" => slots'[g].st # "empty"
  BY <1>2, <1>3
<1>5. TypeOK'
  BY <1>4 DEF IInv, TypeOK, Sockets
<1>6. handle' = handle /\ fakeNext' \in fakeNext..MaxFake
  BY SMTT(30) DEF IInv, TypeOK
<1> QED  BY <1>4, <1>5, <1>6, SameHandles DEF IInv

\* Receiving, sending and waiting keep the invariant.
LEMMA TransferKeeps == ASSUME IInv, Transfer PROVE IInv'
<1>0. PICK sent \in SUBSET Backlog :
          \/ EpollTurn(sent)
          \/ \E fd \in Fds, n \in 1..(BufSize + 1) : SysRecv(fd, n, sent) \/ SysSend(fd, n, sent)
  BY DEF Transfer
<1>1. slots \in [Handles -> Sockets] /\ handle \in [Fds -> Handles \cup {None}]
  BY DEF IInv, TypeOK, Sockets
<1>2. /\ Polled(sent) \in [Handles -> Sockets]
      /\ \A g \in Handles : Polled(sent)[g].st = slots[g].st
  BY <1>1, PolledSame
<1>3. \A g \in Handles : Polled(sent)[g].rx \in 0..BufSize /\ Polled(sent)[g].tx \in 0..BufSize
  BY <1>2 DEF Sockets
<1>4. CASE EpollTurn(sent)
  <2>1. TypeOK' /\ slots' \in [Handles -> Sockets]
    BY <1>2, <1>4 DEF EpollTurn, IInv, TypeOK, Sockets
  <2>2. /\ \A g \in Handles : slots[g].st # "empty" => slots'[g].st # "empty"
        /\ handle' = handle /\ fakeNext' \in fakeNext..MaxFake
    BY <1>2, <1>4, SMTT(30) DEF EpollTurn, IInv, TypeOK
  <2> QED  BY <2>1, <2>2, SameHandles DEF IInv
<1>5. ASSUME NEW fd \in Fds, NEW n \in 1..(BufSize + 1), SysRecv(fd, n, sent)
      PROVE  IInv'
  <2>1. handle[fd] \in Handles
    BY <1>1, <1>5 DEF SysRecv
  <2> DEFINE s == Polled(sent)[handle[fd]]
             k == IF CanRecv(s) THEN RecvReturns(s, n) ELSE 0
  <2>2. s.rx - k \in 0..BufSize /\ s.tx \in 0..BufSize
    BY <1>3, <2>1, SMTT(30) DEF RecvReturns, CanRecv
  <2> QED  BY <1>5, <2>1, <2>2, BufferKeeps DEF SysRecv
<1>6. ASSUME NEW fd \in Fds, NEW n \in 1..(BufSize + 1), SysSend(fd, n, sent)
      PROVE  IInv'
  <2>1. handle[fd] \in Handles
    BY <1>1, <1>6 DEF SysSend
  <2> DEFINE s == Polled(sent)[handle[fd]]
             t == IF CanSend(s) THEN Buffered(s.tx, n) ELSE s.tx
  <2>2. t \in 0..BufSize /\ s.rx \in 0..BufSize
    BY <1>3, <2>1, SMTT(30) DEF Buffered
  <2> QED  BY <1>6, <2>1, <2>2, BufferKeeps DEF SysSend
<1> QED  BY <1>0, <1>4, <1>5, <1>6

-----------------------------------------------------------------------------
(* Steps that change the map of handles.                                   *)

\* A new descriptor has no handle yet.
LEMMA SocketKeeps == ASSUME IInv, NEW n \in {1, 2}, SysSocket(n) PROVE IInv'
<1>1. TypeOK'
  BY SMTT(30) DEF SysSocket, NewFakes, IInv, TypeOK
<1>2. /\ slots' \in [Handles -> Sockets]
      /\ \A g \in Handles : slots[g].st # "empty" => slots'[g].st # "empty"
      /\ handle' = handle /\ fakeNext' \in fakeNext..MaxFake
  BY SMTT(30) DEF SysSocket, NewFakes, IInv, TypeOK, Sockets
<1> QED  BY <1>1, <1>2, SameHandles DEF IInv

\* Numbers may be passed over.
LEMMA OtherKeeps == ASSUME IInv, OtherFake PROVE IInv'
<1>1. TypeOK'
  BY SMTT(30) DEF OtherFake, IInv, TypeOK
<1>2. /\ slots' \in [Handles -> Sockets]
      /\ \A g \in Handles : slots[g].st # "empty" => slots'[g].st # "empty"
      /\ handle' = handle /\ fakeNext' \in fakeNext..MaxFake
  BY SMTT(30) DEF OtherFake, IInv, TypeOK, Sockets
<1> QED  BY <1>1, <1>2, SameHandles DEF IInv

\* The kernel stops when the sockets are used up; the map is as it was.
LEMMA PanicKeeps ==
    ASSUME IInv, NEW ss, Panic(ss), ss \in [Handles -> Sockets],
           \A g \in Handles : ss[g].st = slots[g].st
    PROVE  IInv'
<1>1. TypeOK'
  BY DEF Panic, IInv, TypeOK, Sockets
<1>2. /\ \A g \in Handles : slots[g].st # "empty" => slots'[g].st # "empty"
      /\ handle' = handle /\ fakeNext' \in fakeNext..MaxFake
  BY SMTT(30) DEF Panic, IInv, TypeOK
<1> QED  BY <1>1, <1>2, SameHandles DEF IInv, Panic

\* A fresh socket belongs to no descriptor yet.
LEMMA FreshSlot ==
    ASSUME IInv, NEW ss, ss \in [Handles -> Sockets], ~Full(ss),
           \A g \in Handles : ss[g].st = slots[g].st
    PROVE  /\ FreeSlot(ss) \in Handles
           /\ [ss EXCEPT ![FreeSlot(ss)] = Socket("listen")] \in [Handles -> Sockets]
           /\ \A fd \in Fds : handle[fd] # FreeSlot(ss)
           /\ \A g \in Handles : slots[g].st # "empty" \/ g = FreeSlot(ss) =>
                  [ss EXCEPT ![FreeSlot(ss)] = Socket("listen")][g].st # "empty"
<1>1. FreeSlot(ss) \in Handles /\ slots[FreeSlot(ss)].st = "empty"
  BY FreeSlotEmpty
<1>2. Socket("listen") \in Sockets /\ Socket("listen").st = "listen"
  BY SocketType DEF States
<1>3. FreeSlot(ss) # None
  BY <1>1 DEF Handles, None
<1>4. \A fd \in Fds : handle[fd] # FreeSlot(ss)
  BY <1>1, <1>3 DEF IInv, HandlesExclusive
<1> QED  BY <1>1, <1>2, <1>4

\* listen gives its descriptor a fresh socket.
LEMMA ListenKeeps == ASSUME IInv, NEW fd \in Fds, SysListen(fd) PROVE IInv'
<1>1. slots \in [Handles -> Sockets] /\ handle \in [Fds -> Handles \cup {None}]
  BY DEF IInv, TypeOK, Sockets
<1>2. CASE Panic(slots)
  BY <1>1, <1>2, PanicKeeps
<1>3. CASE ~Panic(slots)
  <2> DEFINE new == FreeSlot(slots)
             ss == [slots EXCEPT ![new] = Socket("listen")]
  <2>1. /\ ~Full(slots) /\ slots' = ss /\ handle' = [handle EXCEPT ![fd] = new]
        /\ fd \in fakes /\ listenFd' = fd
        /\ UNCHANGED <<fakes, fakeNext, machine, clients, lost>>
    BY <1>3 DEF SysListen
  <2>2. /\ new \in Handles /\ ss \in [Handles -> Sockets]
        /\ \A g \in Fds : handle[g] # new
        /\ \A g \in Handles : slots[g].st # "empty" \/ g = new => ss[g].st # "empty"
    BY <1>1, <2>1, FreshSlot
  <2> HIDE DEF new, ss
  <2>3. TypeOK'
    BY <2>1, <2>2 DEF IInv, TypeOK, Sockets
  <2>4. HandlesExclusive'
    BY <1>1, <2>1, <2>2 DEF IInv, HandlesExclusive, None, Handles
  <2>5. Unborn'
    BY <1>1, <2>1, SMTT(30) DEF IInv, Unborn, TypeOK
  <2> QED  BY <2>3, <2>4, <2>5 DEF IInv
<1> QED  BY <1>2, <1>3

\* accept moves the connection to the new descriptor.
LEMMA AcceptKeeps ==
    ASSUME IInv, NEW fd \in Fds, NEW sent, SysAccept(fd, sent)
    PROVE  IInv'
<1>1. slots \in [Handles -> Sockets] /\ handle \in [Fds -> Handles \cup {None}]
  BY DEF IInv, TypeOK, Sockets
<1>2. /\ Polled(sent) \in [Handles -> Sockets]
      /\ \A g \in Handles : Polled(sent)[g].st = slots[g].st
  BY <1>1, PolledSame
<1>3. CASE Panic(Polled(sent))
  BY <1>2, <1>3, PanicKeeps
<1>4. CASE ~Panic(Polled(sent))
  <2> DEFINE new == FreeSlot(Polled(sent))
             ss == [Polled(sent) EXCEPT ![new] = Socket("listen")]
  <2>1. /\ ~Full(Polled(sent)) /\ slots' = ss /\ NewFakes(1) /\ fd \in fakes
        /\ handle' = Rehandled(fd, fakeNext, new)
        /\ UNCHANGED <<listenFd, machine, clients, lost>>
    BY <1>4 DEF SysAccept
  <2>2. /\ new \in Handles /\ ss \in [Handles -> Sockets]
        /\ \A g \in Fds : handle[g] # new
        /\ \A g \in Handles : slots[g].st # "empty" \/ g = new => ss[g].st # "empty"
    BY <1>2, <2>1, FreshSlot
  <2> HIDE DEF new, ss
  <2>3. /\ fakeNext \in Fds /\ fakeNext # fd /\ handle[fakeNext] = None
        /\ fakeNext' = fakeNext + 1
    BY <2>1, SMTT(30) DEF IInv, TypeOK, Unborn, NewFakes, Fds
  <2>4. /\ handle' \in [Fds -> Handles \cup {None}]
        /\ handle'[fd] = new /\ handle'[fakeNext] = handle[fd]
        /\ \A g \in Fds \ {fd, fakeNext} : handle'[g] = handle[g]
    BY <1>1, <2>1, <2>2, <2>3 DEF Rehandled
  <2>5. TypeOK'
    BY <2>1, <2>2, <2>3, <2>4, SMTT(30) DEF IInv, TypeOK, Sockets, NewFakes
  <2>6. HandlesExclusive'
    BY <1>1, <2>1, <2>2, <2>3, <2>4, SMTT(30)
       DEF IInv, HandlesExclusive, None, Handles
  <2>7. Unborn'
    <3>1. fd < fakeNext /\ fakeNext \in Nat
      BY <2>1, SMTT(30) DEF IInv, TypeOK
    <3> QED  BY <2>3, <2>4, <3>1, SMTT(30) DEF IInv, Unborn, Fds
  <2> QED  BY <2>5, <2>6, <2>7 DEF IInv
<1> QED  BY <1>3, <1>4

\* close drops the socket and the only mapping to it.
LEMMA CloseKeeps == ASSUME IInv, NEW fd \in Fds, SysClose(fd) PROVE IInv'
<1>1. slots \in [Handles -> Sockets] /\ handle \in [Fds -> Handles \cup {None}]
  BY DEF IInv, TypeOK, Sockets
<1>2. Socket("empty") \in Sockets
  BY SocketType DEF States
<1>3. CASE fd = listenFd \/ handle[fd] = None
  BY <1>3 DEF SysClose, IInv, TypeOK, HandlesExclusive, Unborn
<1>4. CASE ~(fd = listenFd \/ handle[fd] = None)
  <2>1. /\ handle[fd] \in Handles
        /\ slots' = [slots EXCEPT ![handle[fd]] = Socket("empty")]
        /\ handle' = [handle EXCEPT ![fd] = None]
        /\ lost' \in BOOLEAN /\ fakes' = fakes \ {fd}
        /\ UNCHANGED <<fakeNext, listenFd, machine, clients>>
    BY <1>1, <1>4 DEF SysClose, Dropped, Unhandled
  <2>2. slots' \in [Handles -> Sockets] /\ handle' \in [Fds -> Handles \cup {None}]
    BY <1>1, <1>2, <2>1
  <2>3. TypeOK'
    BY <2>1, <2>2 DEF IInv, TypeOK, Sockets
  <2>4. HandlesExclusive'
    BY <1>1, <2>1 DEF IInv, HandlesExclusive, None, Handles
  <2>5. Unborn'
    BY <1>1, <2>1 DEF IInv, Unborn
  <2> QED  BY <2>3, <2>4, <2>5 DEF IInv
<1> QED  BY <1>3, <1>4

-----------------------------------------------------------------------------
(* The invariant, and what follows from it.                                *)

\* The kernel starts without sockets and descriptors.
LEMMA InitEstablishes == Init => IInv
<1> SUFFICES ASSUME Init PROVE IInv
  OBVIOUS
<1>1. Socket("empty") \in Sockets
  BY SocketType DEF States
<1>2. slots \in [Handles -> Sockets]
  BY <1>1 DEF Init
<1>3. TypeOK
  <2>1. fakeNext \in FakeBase..MaxFake /\ clients \in 0..MaxClients
    BY DEF Init
  <2>2. handle \in [Fds -> Handles \cup {None}]
    BY DEF Init
  <2> QED  BY <1>2, <2>1, <2>2 DEF Init, TypeOK, Sockets
<1> QED  BY <1>3 DEF Init, IInv, HandlesExclusive, Unborn

\* Every step of Next keeps the invariant.
LEMMA IInvHolds == Spec => []IInv
<1>1. IInv /\ [Next]_vars => IInv'
  <2> SUFFICES ASSUME IInv, [Next]_vars PROVE IInv'
    OBVIOUS
  <2>1. CASE UNCHANGED vars
    BY <2>1 DEF vars, IInv, TypeOK, HandlesExclusive, Unborn
  <2> QED  BY <2>1, PeerStepKeeps, TransferKeeps, SocketKeeps, OtherKeeps,
              ListenKeeps, CloseKeeps, AcceptKeeps DEF Next, Halted
<1> QED  BY InitEstablishes, <1>1, PTL DEF Spec

\* The sockets, buffers and descriptors stay in range whatever the peers and
\* the programs do: send never fills a buffer beyond its size.
THEOREM TypeCorrect == Spec => []TypeOK
<1>1. IInv => TypeOK
  BY DEF IInv
<1> QED  BY <1>1, IInvHolds, PTL

\* For any number of slots, descriptors and connections, no two descriptors
\* share a socket and none names a slot that is empty (FD_TO_HANDLE).
THEOREM HandlesAlwaysExclusive == Spec => []HandlesExclusive
<1>1. IInv => HandlesExclusive
  BY DEF IInv
<1> QED  BY <1>1, IInvHolds, PTL

-----------------------------------------------------------------------------
(* The server: it listens once, and closes connections only.               *)

\* A handle belongs to an open descriptor, and there is none before listen.
OpenOnly ==
    /\ \A fd \in Fds : handle[fd] # None => fd \in fakes
    /\ listenFd = None => \A fd \in Fds : handle[fd] = None

SInv == IInv /\ SlotsOwned /\ OpenOnly

\* Steps that take no slot and change no descriptor.
LEMMA SameOwners ==
    ASSUME SInv, IInv',
           \A h \in Handles : slots'[h].st # "empty" => slots[h].st # "empty",
           handle' = handle, listenFd' = listenFd, fakes \subseteq fakes'
    PROVE  SInv'
<1>1. SlotsOwned'
  BY DEF SInv, SlotsOwned
<1>2. OpenOnly'
  BY DEF SInv, OpenOnly
<1> QED  BY <1>1, <1>2 DEF SInv

\* A peer's packet goes to a socket that is there.
LEMMA PeerStepOwned == ASSUME SInv, PeerStep PROVE SInv'
<1>1. IInv'
  BY PeerStepKeeps DEF SInv
<1>2. PICK h \in Handles : \/ PeerConnects(h) \/ PeerAcks(h) \/ PeerSends(h)
                           \/ PeerCloses(h) \/ PeerResets(h)
  BY DEF PeerStep
<1>3. \E from, s : Peers(h, from, s) /\ "empty" \notin from
  BY <1>2 DEF PeerConnects, PeerAcks, PeerSends, PeerCloses, PeerResets
<1>4. PICK from, s : Peers(h, from, s) /\ "empty" \notin from
  BY <1>3
<1>5. /\ slots[h].st # "empty" /\ slots' = [slots EXCEPT ![h] = s]
      /\ UNCHANGED <<handle, fakes, listenFd>>
  BY <1>4 DEF Peers
<1>6. slots \in [Handles -> Sockets]
  BY DEF SInv, IInv, TypeOK, Sockets
<1>7. \A g \in Handles : slots'[g].st # "empty" => slots[g].st # "empty"
  BY <1>5, <1>6
<1> QED  BY <1>1, <1>5, <1>7, SameOwners

\* Neither do receiving, sending and waiting take a slot.
LEMMA TransferOwned == ASSUME SInv, Transfer PROVE SInv'
<1>1. PICK sent \in SUBSET Backlog :
          \/ EpollTurn(sent)
          \/ \E fd \in Fds, n \in 1..(BufSize + 1) : SysRecv(fd, n, sent) \/ SysSend(fd, n, sent)
  BY DEF Transfer
<1>2. IInv' /\ slots \in [Handles -> Sockets] /\ handle \in [Fds -> Handles \cup {None}]
  BY TransferKeeps DEF SInv, IInv, TypeOK, Sockets
<1>3. /\ Polled(sent) \in [Handles -> Sockets]
      /\ \A g \in Handles : Polled(sent)[g].st = slots[g].st
  BY <1>2, PolledSame
<1>4. UNCHANGED <<handle, listenFd, fakes>>
  BY <1>1 DEF EpollTurn, SysRecv, SysSend
<1>5. ASSUME NEW h, NEW rx, NEW tx, h \in Handles,
             slots' = [Polled(sent) EXCEPT ![h] = Holding(Polled(sent)[h], rx, tx)]
      PROVE  \A g \in Handles : slots'[g].st = slots[g].st
  <2>1. Holding(Polled(sent)[h], rx, tx).st = Polled(sent)[h].st
    BY DEF Holding
  <2> QED  BY <1>3, <1>5, <2>1
<1>6. \A g \in Handles : slots'[g].st = slots[g].st
  <2>1. CASE EpollTurn(sent)
    BY <1>3, <2>1 DEF EpollTurn
  <2>2. ASSUME NEW fd \in Fds, NEW n, SysRecv(fd, n, sent) \/ SysSend(fd, n, sent)
        PROVE  \A g \in Handles : slots'[g].st = slots[g].st
    <3>1. handle[fd] \in Handles
      BY <1>2, <2>2 DEF SysRecv, SysSend
    <3>2. \E rx, tx : slots' = [Polled(sent) EXCEPT ![handle[fd]] =
                                  Holding(Polled(sent)[handle[fd]], rx, tx)]
      BY <2>2 DEF SysRecv, SysSend
    <3> QED  BY <1>5, <3>1, <3>2
  <2> QED  BY <1>1, <2>1, <2>2
<1> QED  BY <1>2, <1>4, <1>6, SameOwners

LEMMA SocketOwned == ASSUME SInv, SysSocket(1) PROVE SInv'
<1>1. IInv'
  BY SocketKeeps DEF SInv
<1>2. UNCHANGED <<slots, handle, listenFd>> /\ fakes \subseteq fakes'
  BY DEF SysSocket, NewFakes
<1> QED  BY <1>1, <1>2, SameOwners

LEMMA PanicOwned ==
    ASSUME SInv, IInv', NEW ss, Panic(ss),
           \A g \in Handles : ss[g].st = slots[g].st
    PROVE  SInv'
<1>1. UNCHANGED <<handle, listenFd, fakes>> /\ slots' = ss
  BY DEF Panic
<1> QED  BY <1>1, SameOwners

\* The first listen takes a slot for a descriptor that had none.
LEMMA ListenOwned ==
    ASSUME SInv, NEW fd \in Fds, listenFd = None, SysListen(fd)
    PROVE  SInv'
<1>1. /\ slots \in [Handles -> Sockets]
      /\ handle \in [Fds -> Handles \cup {None}] /\ fakes \subseteq Fds
      /\ SlotsOwned /\ OpenOnly
  BY SMTT(30) DEF SInv, IInv, TypeOK, Sockets, Fds
<1>2. IInv'
  BY ListenKeeps DEF SInv
<1>3. CASE Panic(slots)
  BY <1>2, <1>3, PanicOwned
<1>4. CASE ~Panic(slots)
  <2> DEFINE new == FreeSlot(slots)
  <2>1. /\ slots' = [slots EXCEPT ![new] = Socket("listen")]
        /\ handle' = [handle EXCEPT ![fd] = new]
        /\ fd \in fakes /\ listenFd' = fd /\ fakes' = fakes
    BY <1>4 DEF SysListen
  <2> HIDE DEF new
  <2>2. \A g \in Fds : handle[g] = None
    BY <1>1 DEF OpenOnly
  <2>3. \A h \in Handles : h # None
    BY DEF Handles, None
  <2>4. \A h \in Handles : slots[h].st = "empty"
    BY <1>1, <2>2, <2>3 DEF SlotsOwned
  <2>5. handle'[fd] = new /\ \A g \in Fds \ {fd} : handle'[g] = None
    BY <1>1, <2>1, <2>2
  <2>6. \A h \in Handles : slots'[h].st # "empty" => h = new
    BY <1>1, <2>1, <2>4
  <2>7. SlotsOwned'
    BY <2>1, <2>5, <2>6 DEF SlotsOwned
  <2>8. OpenOnly'
    <3>1. fd # None
      BY DEF Fds, None
    <3> QED  BY <2>1, <2>5, <3>1 DEF OpenOnly
  <2> QED  BY <1>2, <2>7, <2>8 DEF SInv
<1> QED  BY <1>3, <1>4

\* After accept the connection belongs to the new descriptor, the fresh
\* socket to the listening one.
LEMMA AcceptOwned == ASSUME SInv, AcceptReported PROVE SInv'
<1>1. PICK sent \in SUBSET Backlog : SysAccept(listenFd, sent)
  BY DEF AcceptReported
<1> DEFINE fd == listenFd
<1>2. /\ slots \in [Handles -> Sockets] /\ fd \in fakes /\ fakes \subseteq Fds
      /\ handle \in [Fds -> Handles \cup {None}] /\ handle[fd] # None
      /\ SlotsOwned /\ OpenOnly
  BY <1>1, SMTT(30) DEF SysAccept, SInv, IInv, TypeOK, Sockets, Fds
<1>3. IInv' /\ fd \in Fds
  BY <1>1, <1>2, AcceptKeeps DEF SInv
<1>4. /\ Polled(sent) \in [Handles -> Sockets]
      /\ \A g \in Handles : Polled(sent)[g].st = slots[g].st
  BY <1>2, PolledSame
<1>5. CASE Panic(Polled(sent))
  BY <1>3, <1>4, <1>5, PanicOwned
<1>6. CASE ~Panic(Polled(sent))
  <2> DEFINE new == FreeSlot(Polled(sent))
             ss == Polled(sent)
  <2>1. /\ slots' = [ss EXCEPT ![new] = Socket("listen")] /\ NewFakes(1)
        /\ handle' = Rehandled(fd, fakeNext, new) /\ listenFd' = fd
    BY <1>1, <1>6 DEF SysAccept
  <2> HIDE DEF new, ss
  <2>2. /\ fakeNext \in Fds /\ fakeNext # fd
        /\ fakeNext \in fakes' /\ fakes \subseteq fakes'
    BY <1>2, <2>1, SMTT(30) DEF SInv, IInv, TypeOK, NewFakes, Fds
  <2>3. /\ handle'[fd] = new /\ handle'[fakeNext] = handle[fd]
        /\ \A g \in Fds \ {fd, fakeNext} : handle'[g] = handle[g]
    BY <1>2, <1>3, <2>1, <2>2 DEF Rehandled
  <2>4. \A h \in Handles \ {new} : slots'[h].st = slots[h].st
    BY <1>4, <2>1 DEF ss
  <2>5. \A g \in fakes : g # fakeNext
    BY SMTT(30) DEF SInv, IInv, TypeOK
  <2>6. SlotsOwned'
    <3> SUFFICES ASSUME NEW h \in Handles, slots'[h].st # "empty"
                 PROVE  \E g \in fakes' : handle'[g] = h
      BY DEF SlotsOwned
    <3>1. CASE h = new
      BY <1>2, <2>2, <2>3, <3>1
    <3>2. CASE h # new
      <4>1. PICK g \in fakes : handle[g] = h
        BY <1>2, <2>4, <3>2 DEF SlotsOwned
      <4>2. CASE g = fd
        BY <2>2, <2>3, <4>1, <4>2
      <4>3. CASE g # fd
        BY <1>2, <2>2, <2>3, <2>5, <4>1, <4>3
      <4> QED  BY <4>2, <4>3
    <3> QED  BY <3>1, <3>2
  <2>7. OpenOnly'
    <3>1. fd # None
      BY <1>3 DEF Fds, None
    <3>2. \A g \in Fds : handle'[g] # None => g \in fakes'
      BY <1>2, <2>2, <2>3 DEF OpenOnly
    <3> QED  BY <2>1, <3>1, <3>2 DEF OpenOnly
  <2> QED  BY <1>3, <2>6, <2>7 DEF SInv
<1> QED  BY <1>5, <1>6

\* close gives the slot back, or had none to give.
LEMMA CloseOwned ==
    ASSUME SInv, NEW fd \in Fds, listenFd \notin {None, fd}, SysClose(fd)
    PROVE  SInv'
<1>1. /\ slots \in [Handles -> Sockets]
      /\ handle \in [Fds -> Handles \cup {None}] /\ fakes \subseteq Fds
      /\ SlotsOwned /\ OpenOnly
  BY SMTT(30) DEF SInv, IInv, TypeOK, Sockets, Fds
<1>2. fakes' = fakes \ {fd} /\ listenFd' = listenFd
  BY DEF SysClose
<1>3. IInv'
  BY CloseKeeps DEF SInv
<1>4. \A h \in Handles : h # None
  BY SMTT(30) DEF Handles, None
<1>5. CASE handle[fd] = None
  <2>1. UNCHANGED <<slots, handle>>
    BY <1>5 DEF SysClose
  <2>2. SlotsOwned'
    BY <1>2, <1>1, <1>4, <1>5, <2>1 DEF SlotsOwned
  <2>3. OpenOnly'
    BY <1>2, <1>1, <1>5, <2>1 DEF OpenOnly
  <2> QED  BY <1>3, <2>2, <2>3 DEF SInv
<1>6. CASE handle[fd] # None
  <2>1. /\ handle[fd] \in Handles
        /\ slots' = [slots EXCEPT ![handle[fd]] = Socket("empty")]
        /\ handle' = [handle EXCEPT ![fd] = None]
    BY <1>1, <1>6 DEF SysClose, Dropped, Unhandled
  <2>2. /\ slots'[handle[fd]].st = "empty"
        /\ \A h \in Handles \ {handle[fd]} : slots'[h] = slots[h]
        /\ handle'[fd] = None
        /\ \A g \in Fds \ {fd} : handle'[g] = handle[g]
    BY <1>1, <2>1 DEF Socket
  <2>3. SlotsOwned'
    <3> SUFFICES ASSUME NEW h \in Handles, slots'[h].st # "empty"
                 PROVE  \E g \in fakes' : handle'[g] = h
      BY DEF SlotsOwned
    <3>1. h # handle[fd]
      BY <2>2
    <3>2. PICK g \in fakes : handle[g] = h
      BY <1>1, <2>2, <3>1 DEF SlotsOwned
    <3> QED  BY <1>2, <1>1, <2>2, <3>1, <3>2
  <2>4. OpenOnly'
    BY <1>2, <1>1, <2>2 DEF OpenOnly
  <2> QED  BY <1>3, <2>3, <2>4 DEF SInv
<1> QED  BY <1>5, <1>6

\* The server keeps its invariant.
LEMMA SInvHolds == ServerSpec => []SInv
<1>1. Init => SInv
  <2> SUFFICES ASSUME Init PROVE SInv
    OBVIOUS
  <2>1. IInv
    BY InitEstablishes
  <2>2. SlotsOwned /\ OpenOnly
    BY DEF Init, SlotsOwned, OpenOnly, Socket
  <2> QED  BY <2>1, <2>2 DEF SInv
<1>2. SInv /\ [ServerNext]_vars => SInv'
  <2> SUFFICES ASSUME SInv, [ServerNext]_vars PROVE SInv'
    OBVIOUS
  <2>1. CASE UNCHANGED vars
    <3>1. IInv'
      BY <2>1 DEF vars, SInv, IInv, TypeOK, HandlesExclusive, Unborn
    <3> QED  BY <2>1, <3>1, SameOwners DEF vars
  <2> QED  BY <2>1, PeerStepOwned, TransferOwned, SocketOwned, ListenOwned,
              AcceptOwned, CloseOwned DEF ServerNext, Halted
<1> QED  BY <1>1, <1>2, PTL DEF ServerSpec

\* A server that listens once and closes what it accepts loses no slot of
\* the socket set, for any number of slots and connections (close_fd).
THEOREM SlotsAlwaysOwned == ServerSpec => []SlotsOwned
<1>1. SInv => SlotsOwned
  BY DEF SInv
<1> QED  BY <1>1, SInvHolds, PTL

\* Such a server is told of events on open descriptors only
\* (get_epoll_events reads FD_TO_HANDLE, which close_fd clears).
THEOREM EventsAlwaysOpen == ServerSpec => []EventsAreOpen
<1>1. SInv => EventsAreOpen
  BY DEF SInv, OpenOnly, EventsAreOpen, Events, Ready
<1> QED  BY <1>1, SInvHolds, PTL
==============================================================================
