--------------------------------- MODULE Net ---------------------------------
(***************************************************************************)
(* TCP sockets and epoll: src/net.rs, and the socket calls of              *)
(* src/syscall.rs.  The connections themselves are smoltcp's and are       *)
(* modelled by the states, the receive and the send buffer that net.rs     *)
(* asks about.  Every look at a socket comes after poll_network in the     *)
(* same call, so what a peer does is a step of its own; what poll_network  *)
(* sends is part of the call.                                              *)
(***************************************************************************)
EXTENDS Integers, FiniteSets

CONSTANTS NumSlots,     \* sockets SocketSet has storage for, 8 in the code
          FakeBase,     \* first fake descriptor, 100 in the code
          MaxFake,      \* bound on FAKE_FD_NEXT
          MaxClients,   \* bound on connections from outside
          BufSize,      \* size of the buffers of a socket
          MaxEvents,    \* maxevents of epoll_pwait
          Resets        \* whether peers may reset connections

Handles == 0..(NumSlots - 1)
Fds == FakeBase..(MaxFake - 1)
None == -1

ASSUME NetAssumption ==
    /\ NumSlots \in Nat \ {0}
    /\ FakeBase \in Nat /\ MaxFake \in Nat /\ FakeBase <= MaxFake
    /\ MaxClients \in Nat /\ BufSize \in Nat \ {0} /\ MaxEvents \in Nat
    /\ Resets \in BOOLEAN

VARIABLES slots,    \* NET_SOCKETS: the sockets, "empty" where there is none
          handle,   \* FD_TO_HANDLE: a handle for each descriptor, or None
          fakes,    \* the descriptors in FAKE_FDS, all InetSocket here
          fakeNext, \* FAKE_FD_NEXT
          listenFd, \* LISTEN_FD, or None
          machine,  \* "up" or "panic"
          clients,  \* connections so far
          lost      \* history: bytes that were accepted were never sent

vars == <<slots, handle, fakes, fakeNext, listenFd, machine, clients, lost>>

Socket(st) == [st |-> st, rx |-> 0, tx |-> 0]
Holding(s, rx, tx) == [st |-> s.st, rx |-> rx, tx |-> tx]
States == {"empty", "listen", "syn", "established", "close_wait", "closed"}

TypeOK ==
    /\ slots \in [Handles -> [st : States, rx : 0..BufSize, tx : 0..BufSize]]
    /\ handle \in [Fds -> Handles \cup {None}]
    /\ fakeNext \in FakeBase..MaxFake
    /\ fakes \subseteq FakeBase..(fakeNext - 1)
    /\ listenFd \in (FakeBase..(fakeNext - 1)) \cup {None}
    /\ machine \in {"up", "panic"}
    /\ clients \in 0..MaxClients
    /\ lost \in BOOLEAN

Init ==
    /\ slots = [h \in Handles |-> Socket("empty")]
    /\ handle = [fd \in Fds |-> None]
    /\ fakes = {}
    /\ fakeNext = FakeBase
    /\ listenFd = None
    /\ machine = "up"
    /\ clients = 0
    /\ lost = FALSE

-----------------------------------------------------------------------------
(* What smoltcp says of a socket.                                          *)

IsListening(s) == s.st = "listen"
IsOpen(s) == s.st \notin {"empty", "closed"}
CanRecv(s) == s.rx > 0
CanSend(s) == s.st \in {"established", "close_wait"} /\ s.tx < BufSize

-----------------------------------------------------------------------------
(* The peers, and the packets they send.                                   *)

Peers(h, from, s) ==
    /\ slots[h].st \in from
    /\ slots' = [slots EXCEPT ![h] = s]
    /\ UNCHANGED <<handle, fakes, fakeNext, listenFd, machine, lost>>

\* The first socket that listens gets the connection.
PeerConnects(h) ==
    /\ clients < MaxClients
    /\ \A g \in 0..(h - 1) : ~IsListening(slots[g])
    /\ Peers(h, {"listen"}, Socket("syn"))
    /\ clients' = clients + 1

PeerAcks(h) ==
    /\ Peers(h, {"syn"}, Holding(Socket("established"), slots[h].rx, slots[h].tx))
    /\ UNCHANGED clients

PeerSends(h) ==
    /\ slots[h].rx < BufSize
    /\ Peers(h, {"established"}, Holding(slots[h], slots[h].rx + 1, slots[h].tx))
    /\ UNCHANGED clients

PeerCloses(h) ==
    /\ Peers(h, {"syn", "established"}, Holding(Socket("close_wait"), slots[h].rx, slots[h].tx))
    /\ UNCHANGED clients

\* A reset handshake makes the socket listen again, a reset connection is
\* closed; what was received can still be read.
PeerResets(h) ==
    /\ Resets
    /\ \/ Peers(h, {"syn"}, Socket("listen"))
       \/ Peers(h, {"established", "close_wait"},
                Holding(Socket("closed"), slots[h].rx, 0))
    /\ UNCHANGED clients

-----------------------------------------------------------------------------
(* Calls.                                                                  *)

Up == machine = "up"

Backlog == {h \in Handles : slots[h].tx > 0}

\* poll_network sends what the windows of the peers allow.
Polled(sent) == [h \in Handles |-> IF h \in sent THEN Holding(slots[h], slots[h].rx, 0)
                                   ELSE slots[h]]

NewFakes(n) ==
    /\ fakeNext + n <= MaxFake
    /\ fakeNext' = fakeNext + n
    /\ fakes' = fakes \cup fakeNext..(fakeNext + n - 1)

\* sys_socket for AF_INET, and sys_socketpair.
SysSocket(n) ==
    /\ Up
    /\ NewFakes(n)
    /\ UNCHANGED <<slots, handle, listenFd, machine, clients, lost>>

\* The other descriptors of FAKE_FDS, and sys_socket for other domains, only
\* use up a number.
OtherFake ==
    /\ Up
    /\ fakeNext < MaxFake
    /\ fakeNext' = fakeNext + 1
    /\ UNCHANGED <<slots, handle, fakes, listenFd, machine, clients, lost>>

Full(ss) == \A h \in Handles : ss[h].st # "empty"
FreeSlot(ss) == CHOOSE h \in Handles :
                    /\ ss[h].st = "empty"
                    /\ \A g \in 0..(h - 1) : ss[g].st # "empty"

\* create_listen_socket: SocketSet::add panics when there is no slot left.
Panic(ss) ==
    /\ Full(ss)
    /\ machine' = "panic"
    /\ slots' = ss
    /\ UNCHANGED <<handle, fakes, fakeNext, listenFd, clients, lost>>

\* sys_listen and bind_listen_fd.
SysListen(fd) ==
    /\ Up
    /\ fd \in fakes
    /\ listenFd # fd
    /\ \/ Panic(slots)
       \/ /\ ~Full(slots)
          /\ slots' = [slots EXCEPT ![FreeSlot(slots)] = Socket("listen")]
          /\ handle' = [handle EXCEPT ![fd] = FreeSlot(slots)]
          /\ listenFd' = fd
          /\ UNCHANGED <<fakes, fakeNext, machine, clients, lost>>

\* The new descriptor takes the connection, the listening one the new socket.
Rehandled(fd, new, h) == [handle EXCEPT ![fd] = h, ![new] = handle[fd]]

\* sys_accept and accept_connection: any socket that no longer listens.
SysAccept(fd, sent) ==
    LET ss == Polled(sent)
    IN  /\ Up
        /\ fd \in fakes
        /\ fd = listenFd
        /\ handle[fd] # None
        /\ ~IsListening(ss[handle[fd]])
        /\ \/ Panic(ss)
           \/ /\ ~Full(ss)
              /\ slots' = [ss EXCEPT ![FreeSlot(ss)] = Socket("listen")]
              /\ NewFakes(1)
              /\ handle' = Rehandled(fd, fakeNext, FreeSlot(ss))
              /\ UNCHANGED <<listenFd, machine, clients, lost>>

\* recv_from_fd: what it returns, and that it empties the buffer.
RecvReturns(s, n) ==
    IF CanRecv(s) THEN IF s.rx < n THEN s.rx ELSE n
    ELSE IF IsOpen(s) THEN -11 ELSE 0

SysRecv(fd, n, sent) ==
    /\ Up
    /\ fd \in fakes
    /\ handle[fd] # None
    /\ LET s == Polled(sent)[handle[fd]]
           k == IF CanRecv(s) THEN RecvReturns(s, n) ELSE 0
       IN  slots' = [Polled(sent) EXCEPT ![handle[fd]] = Holding(s, s.rx - k, s.tx)]
    /\ UNCHANGED <<handle, fakes, fakeNext, listenFd, machine, clients, lost>>

\* Mutant: the room in the buffer is not looked at.
BufferedAll(tx, n) == tx + n

Buffered(tx, n) == IF tx + n > BufSize THEN BufSize ELSE tx + n

\* send_to_fd: polls, then puts into the buffer what it has room for.
SysSend(fd, n, sent) ==
    /\ Up
    /\ fd \in fakes
    /\ handle[fd] # None
    /\ LET s == Polled(sent)[handle[fd]]
           t == IF CanSend(s) THEN Buffered(s.tx, n) ELSE s.tx
       IN  slots' = [Polled(sent) EXCEPT ![handle[fd]] = Holding(s, s.rx, t)]
    /\ UNCHANGED <<handle, fakes, fakeNext, listenFd, machine, clients, lost>>

\* Mutant: the map of handles keeps the closed descriptor.
UnhandledNot(fd) == handle

Unhandled(fd) == [handle EXCEPT ![fd] = None]

\* Mutant: the socket stays in the set.
DroppedNot(fd) == slots

Dropped(fd) == [slots EXCEPT ![handle[fd]] = Socket("empty")]

\* sys_close and close_fd: the socket is dropped as it is, but not the
\* listening one, which stays.
SysClose(fd) ==
    /\ Up
    /\ fd \in fakes
    /\ fakes' = fakes \ {fd}
    /\ IF fd = listenFd \/ handle[fd] = None
       THEN UNCHANGED <<slots, handle, lost>>
       ELSE /\ slots' = Dropped(fd)
            /\ handle' = Unhandled(fd)
            /\ lost' = (lost \/ slots[handle[fd]].tx > 0)
    /\ UNCHANGED <<fakeNext, listenFd, machine, clients>>

\* Mutant: a connection without data is not reported.
ReadyOnData(ss, fd) ==
    handle[fd] # None /\ (CanRecv(ss[handle[fd]]) \/ CanSend(ss[handle[fd]]))

\* get_epoll_events: the ready descriptors, lowest first.
Ready(ss, fd) ==
    /\ handle[fd] # None
    /\ LET s == ss[handle[fd]]
       IN  CanRecv(s) \/ (~IsListening(s) /\ IsOpen(s)) \/ CanSend(s)

Events(ss) ==
    {fd \in Fds : Ready(ss, fd) /\ Cardinality({g \in Fds : g < fd /\ Ready(ss, g)}) < MaxEvents}

\* A turn of sys_epoll_pwait's loop.
EpollTurn(sent) ==
    /\ Up
    /\ slots' = Polled(sent)
    /\ UNCHANGED <<handle, fakes, fakeNext, listenFd, machine, clients, lost>>

Halted == ~Up /\ UNCHANGED vars

PeerStep ==
    /\ Up
    /\ \E h \in Handles : \/ PeerConnects(h) \/ PeerAcks(h) \/ PeerSends(h)
                          \/ PeerCloses(h) \/ PeerResets(h)

Transfer ==
    \E sent \in SUBSET Backlog :
        \/ EpollTurn(sent)
        \/ \E fd \in Fds, n \in 1..(BufSize + 1) : SysRecv(fd, n, sent) \/ SysSend(fd, n, sent)

\* Programs that make any calls in any order.
Next ==
    \/ PeerStep
    \/ Transfer
    \/ \E n \in {1, 2} : SysSocket(n)
    \/ OtherFake
    \/ \E fd \in Fds : SysListen(fd) \/ SysClose(fd)
    \/ \E fd \in Fds, sent \in SUBSET Backlog : SysAccept(fd, sent)
    \/ Halted

Spec == Init /\ [][Next]_vars

\* The program of the liveness properties: it listens once, accepts what
\* epoll_pwait reports on the listening descriptor, and closes connections.
AcceptReported ==
    \E sent \in SUBSET Backlog :
        listenFd \in Events(Polled(sent)) /\ SysAccept(listenFd, sent)

ServerNext ==
    \/ PeerStep
    \/ Transfer
    \/ fakeNext = FakeBase /\ SysSocket(1)
    \/ \E fd \in Fds : listenFd = None /\ SysListen(fd)
    \/ AcceptReported
    \/ \E fd \in Fds : listenFd \notin {None, fd} /\ SysClose(fd)
    \/ Halted

\* The server's loop comes round to accept whenever it is told to.
ServerSpec == Init /\ [][ServerNext]_vars /\ WF_vars(AcceptReported)

-----------------------------------------------------------------------------
(* Properties.                                                             *)

\* Every handle a descriptor maps to is a socket of the set, and of no other
\* descriptor: get_mut never panics and no connection has two readers,
\* through accepts, closes and listens in any order (FD_TO_HANDLE).
HandlesExclusive ==
    \A fd, g \in Fds :
        handle[fd] # None =>
            /\ slots[handle[fd]].st # "empty"
            /\ handle[g] = handle[fd] => g = fd

\* A program that listens once and closes what it accepts loses no slot:
\* each socket in the set has an open descriptor, whose close returns it.
SlotsOwned ==
    \A h \in Handles : slots[h].st # "empty" => \E fd \in fakes : handle[fd] = h

\* Such a program is told of events on its open descriptors only, also when
\* the slot of a closed one is in use again: get_epoll_events and close_fd.
EventsAreOpen == Events(slots) \subseteq fakes

Pending == listenFd # None /\ ~IsListening(slots[handle[listenFd]]) /\ Up
Listening == listenFd # None /\ IsListening(slots[handle[listenFd]])

\* Once a client has connected, the server comes back to listening: epoll
\* reports the listening descriptor until accept has replaced its socket.
ListensAgain == Pending ~> Listening

\* Accepting connections does not stop the kernel, as long as there are no
\* more than the program may have.
AcceptsAll == Up

\* A program that has read all its peer sent before closing is told of the
\* end of file.
EofReported ==
    \A fd \in fakes \ {listenFd} :
        handle[fd] # None /\ slots[handle[fd]].st = "close_wait" /\ slots[handle[fd]].rx = 0
            => RecvReturns(slots[handle[fd]], 1) = 0

\* What send accepted is sent to a peer that still listens, also when the
\* program closes the descriptor next.
NothingLost == ~lost
==============================================================================
