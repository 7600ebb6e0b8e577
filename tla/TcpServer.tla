----------------------------- MODULE TcpServer -----------------------------
(***************************************************************************)
(* reactor/TcpServer.{h,cc} and Acceptor.{h,cc} on one EventLoop: accept,  *)
(* serve and remove connections, with every thread that can touch one.     *)
(* The loop's iteration is that of EventLoop: poll, handle the active      *)
(* channels with the events they had at the poll, run the batch of         *)
(* functors.  A connection is destroyed, and its descriptor closed, when   *)
(* the last reference goes: connections_, a functor that binds the shared  *)
(* pointer (connectDestoryed, writeComplete), or a thread inside send() or *)
(* shutdown().                                                             *)
(* The functors that send() and shutdown() queue bind the raw pointer.     *)
(***************************************************************************)
EXTENDS TcpConnection

CONSTANTS
  NumThreads,  \* setThreadNum: threads of the pool besides the base loop
  Senders,     \* other threads that call send() and shutdown()
  MaxIn        \* bound: messages the peers send

VARIABLES
  phase,         \* of the loop's iteration: "poll", "handle", "functors"
  active,        \* channellist_: connections, and 0 for the acceptor, still to handle
  revents_,      \* of each connection's channel, set by the poll
  batch,         \* the functors that doPendingFunctions took and has still to call
  kept,          \* the connections that the functors it took hold
  listenning_,
  nextConnfd_,
  connections_,
  live,          \* connections constructed and not destroyed
  sending,       \* per sender: the functor its send() or shutdown() will queue, or Idle
  foreign,       \* history: one of Senders has called send() or shutdown()
  backlog,       \* external: connections the kernel has to be accepted
  peerSent       \* messages the peers sent, for the bound

serverVars == <<phase, active, revents_, batch, kept, listenning_, nextConnfd_, connections_,
                live, sending, foreign, backlog, peerSent>>
vars == <<epollVars, connVars, serverVars>>

Idle == <<"none", 0, 0>>

Init ==
  /\ ConnInit
  /\ phase = "poll"
  /\ active = {}
  /\ revents_ = [c \in Conns |-> {}]
  /\ batch = <<>>
  /\ kept = {}
  /\ listenning_ = FALSE
  /\ nextConnfd_ = 1
  /\ connections_ = {}
  /\ live = {}
  /\ sending = [t \in Senders |-> Idle]
  /\ foreign = FALSE
  /\ backlog = 0
  /\ peerSent = 0

-----------------------------------------------------------------------------
(* References.                                                               *)

Strong == {"connectDestoryed", "writeComplete"}

(* The connections that functors hold by a shared pointer.                   *)
HeldBy(functors) == {functors[i][2] : i \in {j \in DOMAIN functors : functors[j][1] \in Strong}}

(* Fault: a connection goes as soon as it is out of connections_.            *)
Unreferenced_NoFunctors(held, T) == {c \in live : c \notin connections_}

(* The connections that nothing refers to, where functors hold those in held *)
(* and the threads in T let go.                                              *)
Unreferenced(held, T) ==
  {c \in live : /\ c \notin connections_ \cup held
                /\ \A t \in Senders \ T : sending[t][2] # c}

(* The application knows a connection from its "up" to its "down" callback.  *)
Known == {c \in live : seen[c] = <<"up">>}

-----------------------------------------------------------------------------
(* The loop's iteration.                                                     *)

(* Acceptor::listen enables reading on the listening socket, too.            *)
listen == listenning_' = TRUE

(* TcpServer::start in the loop's thread, before loop() or in a callback.    *)
start ==
  /\ ~listenning_
  /\ listen
  /\ UNCHANGED <<epollVars, connVars, phase, active, revents_, batch, kept, nextConnfd_,
                 connections_, live, sending, foreign, backlog, peerSent>>

(* epoll_wait and fillActiveChannels, which asserts that every descriptor    *)
(* the kernel reports is in channels_.  Also a poll that times out.          *)
epoll ==
  /\ phase = "poll"
  /\ LET ev(f)  == LET cs == {c \in live : fd[c] = f}
                   IN  IF interest[f] = NotWatched \/ cs = {} THEN {}
                       ELSE Revents(sock[CHOOSE c \in cs : TRUE], interest[f])
         hot    == {f \in Fds : ev(f) # {}}
     IN  /\ active' = ({channels_[f] : f \in hot} \ {NoConn})
                        \cup (IF listenning_ /\ backlog > 0 THEN {0} ELSE {})
         /\ revents_' = [c \in Conns |-> IF fd[c] \in hot /\ channels_[fd[c]] = c
                                         THEN ev(fd[c]) ELSE revents_[c]]
         /\ Assert_(\A f \in hot : channels_[f] # NoConn)
  /\ phase' = "handle"
  /\ UNCHANGED <<fd, events_, registeredInEpoller_, channels_, interest, connVars, batch, kept,
                 listenning_, nextConnfd_, connections_, live, sending, foreign, backlog, peerSent>>

(* Channel::handleEvent of an active channel, which must still exist.        *)
HandleEvent(c) ==
  /\ phase = "handle"
  /\ calls = <<>>
  /\ c \in active \ {0}
  /\ active' = active \ {c}
  /\ calls' = handleEvent(c, revents_[c])
  /\ fault' = IF c \in live THEN fault ELSE "dangling"
  /\ UNCHANGED <<fd, events_, registeredInEpoller_, channels_, interest, state_, outputBuffer_, sock, pendingFunctors_, sends, accepted,
                 written, closed, seen, phase, revents_, batch, kept, listenning_, nextConnfd_,
                 connections_, live, sending, foreign, backlog, peerSent>>

(* The listening socket is active: socketops::accept gives a descriptor, or  *)
(* an error, whichever it is, here 0: that there is no descriptor, or one of *)
(* the kernel's.                                                             *)
accept(connfd) ==
  /\ phase = "handle"
  /\ calls = <<>>
  /\ 0 \in active
  /\ active' = active \ {0}
  /\ connfd \in {0} \cup (IF FreeFds = {} THEN {} ELSE {NewFd})

(* Acceptor::handleRead and newConnection up to connectEstablished.          *)
newConnection ==
  /\ \E connfd \in Fds : accept(connfd)
  /\ backlog > 0
  /\ backlog' = backlog - 1
  /\ LET c == nextConnfd_
     IN  /\ fd' = [fd EXCEPT ![c] = NewFd]
         /\ setState(c, "kConnecting")
         /\ connections_' = connections_ \cup {c}
         /\ live' = live \cup {c}
         /\ calls' = <<<<"connectEstablished", c>>>>
  /\ nextConnfd_' = nextConnfd_ + 1
  /\ UNCHANGED <<events_, registeredInEpoller_, channels_, interest, fault, outputBuffer_,
                 sock, pendingFunctors_, sends, accepted, written, closed, seen, phase,
                 revents_, batch, kept, listenning_, sending, foreign, peerSent>>

(* Fault: an acceptor whose accept failed stops reading.                     *)
acceptFails_Disables ==
  /\ accept(0)
  /\ listenning_' = FALSE
  /\ UNCHANGED <<epollVars, connVars, phase, revents_, batch, kept, nextConnfd_,
                 connections_, live, sending, foreign, backlog, peerSent>>

(* An accept that fails is ignored, and reported again.                      *)
acceptFails ==
  /\ accept(0)
  /\ UNCHANGED <<epollVars, connVars, phase, revents_, batch, kept, listenning_, nextConnfd_,
                 connections_, live, sending, foreign, backlog, peerSent>>

(* A call of the current event that concerns the connection alone.  With     *)
(* threads in the pool the connection's loop is not the one that runs        *)
(* newConnection.                                                            *)
ConnCall(c) ==
  /\ \/ connectEstablished(c, NumThreads > 0)
     \/ handleError(c)
     \/ handleReadData(c)
     \/ handleReadError(c)
     \/ handleWrite(c)
     \/ removeChannel(c)
     \/ ClientReturn(c)
  /\ UNCHANGED serverVars

(* Fault: the connection stays in connections_.                              *)
removeConnection_Keeps(c) ==
  /\ AtEof(c)
  /\ handleClose(c, c \in connections_)
  /\ UNCHANGED serverVars

(* handleClose with its closeCallback_: removeConnection, which in the       *)
(* loop's own thread runs removeConnectionInLoop at once.                    *)
removeConnection(c) ==
  /\ AtEof(c)
  /\ handleClose(c, c \in connections_)
  /\ connections_' = connections_ \ {c}
  /\ UNCHANGED <<phase, active, revents_, batch, kept, listenning_, nextConnfd_, live,
                 sending, foreign, backlog, peerSent>>

doPendingFunctions ==
  /\ phase = "handle"
  /\ calls = <<>>
  /\ active = {}
  /\ batch' = pendingFunctors_
  /\ kept' = HeldBy(pendingFunctors_)
  /\ pendingFunctors_' = <<>>
  /\ phase' = "functors"
  /\ UNCHANGED <<epollVars, state_, outputBuffer_, sock, calls, sends, accepted, written,
                 closed, seen, active, revents_, listenning_, nextConnfd_, connections_,
                 live, sending, foreign, backlog, peerSent>>

NextFunctor(f) ==
  /\ phase = "functors"
  /\ calls = <<>>
  /\ batch # <<>>
  /\ f = Head(batch)
  /\ batch' = Tail(batch)
  /\ UNCHANGED <<phase, active, revents_, kept, listenning_, nextConnfd_, connections_, live,
                 sending, foreign, backlog, peerSent>>

RunDestroyed(c) == NextFunctor(<<"connectDestoryed", c, 0>>) /\ connectDestoryed(c)

RunWriteComplete(c) ==
  /\ NextFunctor(<<"writeComplete", c, 0>>)
  /\ calls' = <<<<"client", c>>>>
  /\ UNCHANGED <<epollVars, state_, outputBuffer_, sock, pendingFunctors_, sends, accepted,
                 written, closed, seen>>

Dangling ==
  /\ fault' = "dangling"
  /\ UNCHANGED <<fd, events_, registeredInEpoller_, channels_, interest, connVars>>

(* A sendInLoop or shutdownInLoop that another thread queued: on the raw     *)
(* pointer.                                                                  *)
RunSend(c, m) ==
  /\ NextFunctor(<<"sendInLoop", c, m>>)
  /\ IF c \in live
     THEN sendInLoop(c, m) /\ UNCHANGED <<state_, calls, sends, closed, seen>>
     ELSE Dangling

RunShutdown(c) ==
  /\ NextFunctor(<<"shutdownInLoop", c, 0>>)
  /\ IF c \in live
     THEN shutdownInLoop(c) /\ UNCHANGED <<epollVars, state_, outputBuffer_, pendingFunctors_,
                                          calls, sends, accepted, written, closed, seen>>
     ELSE Dangling

(* The vector of functors is destroyed, and with it the connections that     *)
(* only it kept.                                                             *)
EndFunctors ==
  /\ phase = "functors"
  /\ calls = <<>>
  /\ batch = <<>>
  /\ phase' = "poll"
  /\ kept' = {}
  /\ LET gone == Unreferenced(HeldBy(pendingFunctors_), {})
     IN  live' = live \ gone /\ CloseFds(gone) /\ UNCHANGED fault
  /\ UNCHANGED <<connVars, active, revents_, batch, listenning_, nextConnfd_,
                 connections_, sending, foreign, backlog, peerSent>>

(* The application, in any callback, on any connection it knows.             *)
ClientCall ==
  /\ calls # <<>> /\ Head(calls)[1] = "client"
  /\ \E d \in Known : send(d) \/ shutdown(d)
  /\ UNCHANGED serverVars

-----------------------------------------------------------------------------
(* send() and shutdown() in another thread: the test of state_, then the     *)
(* rest, up to queueInLoop.                                                  *)

SenderBegins(t, c) ==
  /\ sending[t] = Idle
  /\ c \in Known
  /\ state_[c] = "kConnected"
  /\ foreign' = TRUE
  /\ \/ /\ sends < MaxSends
        /\ sends' = sends + 1
        /\ sending' = [sending EXCEPT ![t] = <<"sendInLoop", c, sends + 1>>]
     \/ /\ sending' = [sending EXCEPT ![t] = <<"shutdownInLoop", c, 0>>]
        /\ UNCHANGED sends
  /\ UNCHANGED <<epollVars, state_, outputBuffer_, sock, pendingFunctors_, calls, accepted,
                 written, closed, seen, phase, active, revents_, batch, kept, listenning_,
                 nextConnfd_, connections_, live, backlog, peerSent>>

(* shutdown() sets state_, whatever it is by now; both queue the functor and *)
(* let go of the shared pointer.  When it was the last, the destructor of    *)
(* the channel asserts that no event of it is being handled.                 *)
SenderQueues(t) ==
  /\ sending[t] # Idle
  /\ sending' = [sending EXCEPT ![t] = Idle]
  /\ queueInLoop(sending[t])
  /\ IF sending[t][1] = "shutdownInLoop"
     THEN setState(sending[t][2], "kDisconnecting")
     ELSE UNCHANGED state_
  /\ LET gone == Unreferenced(HeldBy(pendingFunctors_) \cup kept, {t})
     IN  /\ live' = live \ gone
         /\ CloseFds(gone)
         /\ Assert_(phase = "handle" /\ calls # <<>> => Head(calls)[2] \notin gone)
  /\ UNCHANGED <<outputBuffer_, sock, calls, sends, accepted, written, closed,
                 seen, phase, active, revents_, batch, kept, listenning_, nextConnfd_,
                 connections_, foreign, backlog, peerSent>>

-----------------------------------------------------------------------------
(* external: the peers.                                                      *)

Peer(c, s) ==
  /\ c \in live
  /\ sock' = [sock EXCEPT ![c] = s]
  /\ UNCHANGED <<epollVars, state_, outputBuffer_, pendingFunctors_, calls, sends, accepted,
                 written, closed, seen, phase, active, revents_, batch, kept, listenning_,
                 nextConnfd_, connections_, live, sending, foreign, backlog>>

PeerConnects ==
  /\ nextConnfd_ + backlog <= MaxConns
  /\ backlog' = backlog + 1
  /\ UNCHANGED <<epollVars, connVars, phase, active, revents_, batch, kept, listenning_,
                 nextConnfd_, connections_, live, sending, foreign, peerSent>>

PeerSends(c) ==
  /\ ~sock[c].fin /\ ~sock[c].rst /\ sock[c].inq = 0
  /\ peerSent < MaxIn
  /\ peerSent' = peerSent + 1
  /\ Peer(c, [sock[c] EXCEPT !.inq = 1])

(* The peer takes what the send buffer holds.                                *)
PeerReceives(c) ==
  /\ ~sock[c].rst /\ sock[c].room < SndBuf
  /\ Peer(c, [sock[c] EXCEPT !.room = SndBuf])
  /\ UNCHANGED peerSent

PeerCloses(c) ==
  /\ ~sock[c].fin /\ ~sock[c].rst
  /\ Peer(c, [sock[c] EXCEPT !.fin = TRUE])
  /\ UNCHANGED peerSent

PeerResets(c) ==
  /\ ~sock[c].rst
  /\ Peer(c, [sock[c] EXCEPT !.rst = TRUE, !.err = TRUE])
  /\ UNCHANGED peerSent

-----------------------------------------------------------------------------
LoopStep ==
  \/ epoll
  \/ newConnection
  \/ acceptFails
  \/ doPendingFunctions
  \/ EndFunctors
  \/ \E c \in Conns :
       \/ HandleEvent(c)
       \/ ConnCall(c)
       \/ removeConnection(c)
       \/ RunDestroyed(c)
       \/ RunWriteComplete(c)
       \/ RunShutdown(c)
       \/ \E m \in 1 .. MaxSends : RunSend(c, m)

SenderStep(t) == SenderQueues(t) \/ \E c \in Conns : SenderBegins(t, c)

PeerStep(c) == PeerSends(c) \/ PeerReceives(c) \/ PeerCloses(c) \/ PeerResets(c)

(* After a fault the process is gone.                                        *)
Next ==
  /\ fault = "none"
  /\ \/ start
     \/ LoopStep
     \/ ClientCall
     \/ PeerConnects
     \/ \E t \in Senders : SenderStep(t)
     \/ \E c \in Conns : PeerStep(c)

(* The loop's thread runs, callbacks return, a peer that stays connected     *)
(* takes what it is sent, and accept does not fail for ever if there is a    *)
(* descriptor.                                                               *)
Fairness ==
  /\ WF_vars(fault = "none" /\ LoopStep)
  /\ SF_vars(fault = "none" /\ newConnection)
  /\ \A c \in Conns : WF_vars(fault = "none" /\ PeerReceives(c))

Spec == Init /\ [][Next]_vars
FairSpec == Spec /\ Fairness

-----------------------------------------------------------------------------
(* Properties.                                                               *)

(* The types, and the lifetime of a descriptor: the connections of the map    *)
(* exist, and a connection has an open descriptor exactly while it exists     *)
(* (Socket.cc:9-11, TcpServer.cc:53-93).                                      *)
TypeOK ==
  /\ fd \in [Conns -> Fds \cup {0}]
  /\ events_ \in [Conns -> SUBSET {"R", "W"}]
  /\ registeredInEpoller_ \in [Conns -> BOOLEAN]
  /\ channels_ \in [Fds -> Conns \cup {NoConn}]
  /\ interest \in [Fds -> (SUBSET {"R", "W"}) \cup {NotWatched}]
  /\ fault \in {"none", "assert", "dangling", "wrongthread"}
  /\ state_ \in [Conns -> States]
  /\ sock \in [Conns -> Socket]
  /\ phase \in {"poll", "handle", "functors"}
  /\ active \subseteq Conns \cup {0}
  /\ connections_ \subseteq live
  /\ live \subseteq Conns
  /\ \A c \in Conns : c \in live <=> fd[c] # 0

(* As long as only the loop's thread uses connections, no sequence of events, *)
(* callbacks, sends, shutdowns, closes and resets makes an assert fail or     *)
(* touches a destroyed connection: neither the asserts on the connection's    *)
(* state nor those on the epoll map (TcpConnection.cc:108, 170, 179,          *)
(* TcpServer.cc:89, Channel.cc:26, Epoller.cc:53, 63, 79, 92-94).             *)
NoFault == ~foreign => fault = "none"

(* The loop's map, the kernel's list and the channels agree: an entry names a *)
(* live connection whose descriptor it is, registered with the events the     *)
(* kernel watches; a connection that was removed left no entry behind for the *)
(* next owner of its descriptor (Epoller.cc:60-123).                          *)
EpollAgrees ==
  ~foreign =>
    /\ \A f \in Fds : LET c == channels_[f]
                      IN  /\ c # NoConn => c \in live /\ fd[c] = f /\ registeredInEpoller_[c]
                                           /\ interest[f] = events_[c]
                          /\ c = NoConn => interest[f] = NotWatched
    /\ \A c \in live : registeredInEpoller_[c] => channels_[fd[c]] = c

(* What is written to the socket, followed by the output buffer, is what was  *)
(* sent, in order, as long as the connection has not been closed: partial     *)
(* writes and sends in between, from whichever thread, lose and reorder       *)
(* nothing (TcpConnection.cc:57-86, 130-157).                                 *)
WireInOrder ==
  \A c \in Conns : ~closed[c] => written[c] \o outputBuffer_[c] = accepted[c]

(* shutdown() sends what was sent before it: the FIN goes out only when the   *)
(* output buffer is empty (TcpConnection.cc:88-103, 145-147).  A send() of    *)
(* another thread may still be in the queue.                                  *)
ShutdownFlushes ==
  ~foreign => \A c \in Conns : ~closed[c] /\ sock[c].shutWr => outputBuffer_[c] = <<>>

(* The application is told of every connection twice, up and then down, and   *)
(* of the second before the connection is destroyed (TcpConnection.cc:112,    *)
(* 182, TcpServer.cc:81-93), whichever threads use it meanwhile.              *)
UpThenDown ==
  \A c \in Conns : /\ seen[c] \in {<<>>, <<"up">>, <<"up", "down">>}
                   /\ state_[c] # "none" /\ c \notin live => seen[c] = <<"up", "down">>

(* A connection whose peer closed or reset it is destroyed and its descriptor *)
(* closed, whatever else the loop has to do (TcpConnection.cc:115-128,        *)
(* 159-185).                                                                  *)
PeerGoneConnGoes ==
  \A c \in Conns : (c \in live /\ (sock[c].fin \/ sock[c].rst)) ~> c \notin live

(* A peer that has to wait, because accept failed, is accepted in the end,    *)
(* unless no descriptor is free any more: the listening socket is reported    *)
(* again after each failure, and so is every connection that waits behind     *)
(* another one (Acceptor.cc:28-39, Socketops.cc:81-115).                      *)
WaitingAccepted ==
  \A c \in Conns :
    (listenning_ /\ nextConnfd_ <= c /\ c < nextConnfd_ + backlog)
      ~> (nextConnfd_ > c \/ [](FreeFds = {}))

(* shutdown() ends in a FIN, or the connection is gone, if the peer takes the *)
(* data that is still to be sent (TcpConnection.cc:88-103, 130-150).          *)
ShutdownSendsFin ==
  \A c \in Conns :
    state_[c] = "kDisconnecting" ~> (sock[c].shutWr \/ sock[c].rst \/ c \notin live)
=============================================================================
