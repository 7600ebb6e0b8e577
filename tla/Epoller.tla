------------------------------ MODULE Epoller ------------------------------
(***************************************************************************)
(* reactor/Epoller.{h,cc} and the registration part of Channel.{h,cc}: the *)
(* map from descriptors to channels that one loop keeps, next to the       *)
(* kernel's own interest list.  A channel belongs to a connection and is   *)
(* named by it.  The kernel drops a descriptor from its list when the      *)
(* descriptor is closed, and hands out the number again.                   *)
(*                                                                         *)
(* This module has the operations only; TcpServer has the steps.           *)
(***************************************************************************)
EXTENDS Naturals, Sequences

CONSTANTS
  MaxConns,  \* bound: connections over the life of the server
  NumFds     \* descriptors the process can have open for connections

ASSUME SizesAssumption == MaxConns \in Nat /\ NumFds \in Nat

Conns == 1 .. MaxConns
Fds == 1 .. NumFds
NoConn == 0

VARIABLES
  fd,                    \* fd_ of each connection's channel; 0: none (closed)
  events_,               \* what the channel wants: "R" (kReadEvent), "W" (kWriteEvent)
  registeredInEpoller_,
  channels_,             \* descriptor -> connection, NoConn where the map has no entry
  interest,              \* external: the kernel's list, descriptor -> events or NotWatched
  fault                  \* "none", or what aborted the process: see TcpServer

epollVars == <<fd, events_, registeredInEpoller_, channels_, interest, fault>>

NotWatched == {"off"}

EpollInit ==
  /\ fd = [c \in Conns |-> 0]
  /\ events_ = [c \in Conns |-> {}]
  /\ registeredInEpoller_ = [c \in Conns |-> FALSE]
  /\ channels_ = [f \in Fds |-> NoConn]
  /\ interest = [f \in Fds |-> NotWatched]
  /\ fault = "none"

(* assert(p): the build keeps asserts, a failing one ends the process.       *)
Assert_(p) == fault' = IF p THEN fault ELSE "assert"

-----------------------------------------------------------------------------
(* Channel::update -> EventLoop::updateChannel -> Epoller::updateChannelMap. *)
(* ok is what else the calling handler asserts in the same step.             *)

(* Nothing is added for a channel without events.  Here and below, epoll_ctl *)
(* is taken to succeed.                                                      *)
epollAdd(c, ev, ok) ==
  IF ev = {}
  THEN Assert_(ok) /\ UNCHANGED <<registeredInEpoller_, channels_, interest>>
  ELSE /\ Assert_(ok /\ channels_[fd[c]] = NoConn)
       /\ interest' = [interest EXCEPT ![fd[c]] = ev]
       /\ channels_' = [channels_ EXCEPT ![fd[c]] = c]
       /\ registeredInEpoller_' = [registeredInEpoller_ EXCEPT ![c] = TRUE]

(* Fault: the kernel is not told of the new events.                          *)
epollMod_NoCtl(c, ev, ok) ==
  /\ Assert_(ok /\ channels_[fd[c]] = c)
  /\ UNCHANGED <<registeredInEpoller_, channels_, interest>>

(* EPOLL_CTL_MOD also for an empty set of events: the descriptor stays in    *)
(* the kernel's list until epollDel.                                         *)
epollMod(c, ev, ok) ==
  /\ Assert_(ok /\ channels_[fd[c]] = c)
  /\ interest' = [interest EXCEPT ![fd[c]] = ev]
  /\ UNCHANGED <<registeredInEpoller_, channels_>>

update(c, ev, ok) ==
  /\ events_' = [events_ EXCEPT ![c] = ev]
  /\ IF registeredInEpoller_[c] THEN epollMod(c, ev, ok) ELSE epollAdd(c, ev, ok)
  /\ UNCHANGED fd

enableReading(c, ok) == update(c, events_[c] \cup {"R"}, ok)
enableWriting(c) == update(c, events_[c] \cup {"W"}, TRUE)
disableWriting(c) == update(c, events_[c] \ {"W"}, TRUE)
disableAll(c, ok) == update(c, {}, ok)
isWriting(c) == "W" \in events_[c]

(* Fault: the map keeps the entry.                                           *)
epollDel_KeepsEntry(c) ==
  /\ Assert_(channels_[fd[c]] = c /\ events_[c] = {} /\ registeredInEpoller_[c])
  /\ interest' = [interest EXCEPT ![fd[c]] = NotWatched]
  /\ registeredInEpoller_' = [registeredInEpoller_ EXCEPT ![c] = FALSE]
  /\ UNCHANGED <<fd, events_, channels_>>

(* removeChannel -> removeChannelMap -> epollDel, with its three asserts.    *)
epollDel(c) ==
  /\ Assert_(channels_[fd[c]] = c /\ events_[c] = {} /\ registeredInEpoller_[c])
  /\ interest' = [interest EXCEPT ![fd[c]] = NotWatched]
  /\ channels_' = [channels_ EXCEPT ![fd[c]] = NoConn]
  /\ registeredInEpoller_' = [registeredInEpoller_ EXCEPT ![c] = FALSE]
  /\ UNCHANGED <<fd, events_>>

-----------------------------------------------------------------------------
(* Descriptors.                                                              *)

FreeFds == Fds \ {fd[c] : c \in Conns}

(* The kernel gives out the lowest free number.                              *)
NewFd == CHOOSE f \in FreeFds : \A g \in FreeFds : f <= g

(* The Sockets of the connections in S are destroyed: their descriptors are  *)
(* closed and leave the kernel's list; channels_ is not touched.             *)
CloseFds(S) ==
  /\ interest' = [f \in Fds |-> IF \E c \in S : fd[c] = f THEN NotWatched ELSE interest[f]]
  /\ fd' = [c \in Conns |-> IF c \in S THEN 0 ELSE fd[c]]
  /\ UNCHANGED <<events_, registeredInEpoller_, channels_>>
=============================================================================
