-------------------------- MODULE TcpServerProofs --------------------------
(***************************************************************************)
(* Proofs about TcpServer for any number of connections, descriptors,        *)
(* messages and sending threads: the inductive invariant IInv, and from it   *)
(* the invariants that the runs of TcpServer check.                          *)
(***************************************************************************)
EXTENDS TcpServer, SequenceTheorems, WellFoundedInduction, TLAPS

-----------------------------------------------------------------------------
(* The inductive invariant.                                                  *)

Up == <<"up">>
UpDown == <<"up", "down">>
EventNames == {"IN", "RDHUP", "OUT", "ERR", "HUP"}
CallNames == {"connectEstablished", "handleError", "handleRead", "handleWrite", "client",
              "removeChannel"}
Call == CallNames \X Conns
WeakFunctor == {"sendInLoop", "shutdownInLoop"} \X Conns \X (0 .. MaxSends)
Functor == (Strong \cup {"sendInLoop", "shutdownInLoop"}) \X Conns \X (0 .. MaxSends)

(* The functor with which handleClose ends.                                  *)
Destroy(c) == <<"connectDestoryed", c, 0>>

In(x, q) == \E i \in DOMAIN q : q[i] = x
Once(x, q) == \A i, j \in DOMAIN q : q[i] = x /\ q[j] = x => i = j

EpollTypes ==
  /\ fd \in [Conns -> Fds \cup {0}]
  /\ events_ \in [Conns -> SUBSET {"R", "W"}]
  /\ registeredInEpoller_ \in [Conns -> BOOLEAN]
  /\ channels_ \in [Fds -> Conns \cup {NoConn}]
  /\ interest \in [Fds -> (SUBSET {"R", "W"}) \cup {NotWatched}]
  /\ live \subseteq Conns
  /\ \A c \in Conns : c \in live <=> fd[c] # 0

ConnTypes ==
  /\ fault \in {"none", "assert", "dangling", "wrongthread"}
  /\ state_ \in [Conns -> States]
  /\ sock \in [Conns -> Socket]
  /\ pendingFunctors_ \in Seq(Functor)
  /\ calls \in Seq(Call)
  /\ sends \in 0 .. MaxSends
  /\ outputBuffer_ \in [Conns -> Seq(Nat)]
  /\ accepted \in [Conns -> Seq(Nat)]
  /\ written \in [Conns -> Seq(Nat)]
  /\ closed \in [Conns -> BOOLEAN]
  /\ seen \in [Conns -> {<<>>, Up, UpDown}]

ServerTypes ==
  /\ phase \in {"poll", "handle", "functors"}
  /\ active \subseteq Conns \cup {0}
  /\ revents_ \in [Conns -> SUBSET EventNames]
  /\ batch \in Seq(Functor)
  /\ kept \subseteq Conns
  /\ nextConnfd_ \in Nat \ {0} /\ backlog \in Nat /\ nextConnfd_ + backlog <= MaxConns + 1
  /\ connections_ \subseteq live
  /\ sending \in [Senders -> WeakFunctor \cup {Idle}]
  /\ foreign \in BOOLEAN

(* While there is something in the output buffer, the channel waits to write *)
(* it: sendInLoop never overtakes what is buffered.                          *)
Wire ==
  \A c \in Conns : ~closed[c] =>
    /\ written[c] \o outputBuffer_[c] = accepted[c]
    /\ outputBuffer_[c] # <<>> => "W" \in events_[c]

(* The loop's own thread shuts the socket only after state_ says so.         *)
Shut ==
  ~foreign =>
    \A c \in Conns :
      /\ sock[c].shutWr => state_[c] \in {"kDisconnecting", "kDisConnected"}
      /\ ~closed[c] /\ sock[c].shutWr => outputBuffer_[c] = <<>>

(* A connection is numbered before it exists, is in connections_ until it is *)
(* closed, and was reported as down when it is gone.                         *)
Life ==
  \A c \in Conns :
    /\ state_[c] = "none" <=> c >= nextConnfd_
    /\ state_[c] = "none" => /\ c \notin live /\ events_[c] = {} /\ ~closed[c]
                             /\ seen[c] = <<>> /\ ~registeredInEpoller_[c]
    /\ c \in connections_ <=> state_[c] # "none" /\ ~closed[c]
    /\ state_[c] # "none" /\ c \notin live => seen[c] = UpDown

(* The application has still to be told of a connection exactly while        *)
(* connectEstablished is to be called.                                       *)
Births ==
  /\ \A c \in Conns :
       /\ state_[c] # "none" /\ seen[c] = <<>> <=> In(<<"connectEstablished", c>>, calls)
       /\ In(<<"connectEstablished", c>>, calls) => state_[c] = "kConnecting" /\ ~closed[c]
  /\ \A t \in Senders : sending[t] # Idle => seen[sending[t][2]] # <<>>

(* connectDestoryed of a connection is queued exactly while the connection   *)
(* is closed and not yet reported as down, and once.                         *)
Deaths ==
  \A c \in Conns :
    /\ In(Destroy(c), pendingFunctors_) \/ In(Destroy(c), batch) <=> closed[c] /\ seen[c] = Up
    /\ Once(Destroy(c), pendingFunctors_) /\ Once(Destroy(c), batch)
    /\ ~(In(Destroy(c), pendingFunctors_) /\ In(Destroy(c), batch))

(* A functor with a shared pointer keeps its connection.                     *)
Held ==
  /\ \A f \in Functor : f[1] \in Strong =>
        /\ In(f, pendingFunctors_) => f[2] \in live
        /\ In(f, batch) => f[2] \in kept
  /\ kept \subseteq live

(* The calls of an event or functor concern one connection; it exists and    *)
(* is not to be handled again, and a functor's is kept.                      *)
Stack ==
  /\ phase = "poll" => calls = <<>>
  /\ phase # "handle" => active = {}
  /\ phase # "functors" => batch = <<>> /\ kept = {}
  /\ \A n \in CallNames : \A c \in Conns : In(<<n, c>>, calls) =>
       /\ \A m \in CallNames : \A d \in Conns : In(<<m, d>>, calls) => c = d
       /\ n # "client" => Once(<<n, c>>, calls)
       /\ fault = "none" => c \in live
       /\ c \notin active
       /\ phase = "functors" => c \in kept

(* handleRead is only for a connection that is up: the channel of a closed   *)
(* one does not wait to read.                                                *)
Reading ==
  \A c \in Conns :
    /\ "RDHUP" \in revents_[c] => "IN" \in revents_[c]
    /\ c \in active => state_[c] # "none"
    /\ \/ "R" \in events_[c]
       \/ c \in live /\ "IN" \in revents_[c] /\ c \in active
       \/ c \in live /\ In(<<"handleRead", c>>, calls)
       => ~closed[c] /\ seen[c] = Up

(* The kernel's list has what the channels asked for, whoever they were      *)
(* called by.                                                                *)
Kernel ==
  /\ \A c, d \in live : fd[c] = fd[d] => c = d
  /\ \A f \in Fds : channels_[f] # NoConn =>
        channels_[f] < nextConnfd_ /\ (channels_[f] \in live => fd[channels_[f]] = f)
  /\ \A c \in live :
        interest[fd[c]] = IF registeredInEpoller_[c] THEN events_[c] ELSE NotWatched
  /\ \A f \in Fds : (\A c \in live : fd[c] # f) => interest[f] = NotWatched

(* As long as only the loop's thread uses connections.                       *)
OwnQueue ==
  ~foreign =>
    /\ \A t \in Senders : sending[t] = Idle
    /\ \A f \in Functor : In(f, pendingFunctors_) \/ In(f, batch) => f[1] \in Strong
    /\ active \subseteq live \cup {0}

(* ... a channel is registered from the "up" callback until removeChannel,   *)
(* which finds no events.                                                    *)
OwnConn ==
  ~foreign =>
    \A c \in Conns :
      /\ seen[c] = Up => registeredInEpoller_[c] /\ state_[c] \in {"kConnected", "kDisconnecting"}
      /\ In(<<"removeChannel", c>>, calls) =>
           registeredInEpoller_[c] /\ events_[c] = {} /\ seen[c] = UpDown
      /\ registeredInEpoller_[c] => seen[c] = Up \/ In(<<"removeChannel", c>>, calls)
      /\ events_[c] # {} => seen[c] = Up

OwnFault == ~foreign => fault \in {"none", "wrongthread"} /\ (NumThreads = 0 => fault = "none")

EpollInv == EpollTypes /\ Kernel /\ EpollAgrees

IInv ==
  /\ EpollInv /\ ConnTypes /\ ServerTypes
  /\ Wire /\ Shut /\ Life /\ Births /\ Deaths /\ Held /\ Stack /\ Reading
  /\ OwnQueue /\ OwnConn /\ OwnFault

-----------------------------------------------------------------------------
(* Sequences of calls and of functors.                                       *)

(* What is in a sequence, and how often, when its first element is taken.    *)
LEMMA TailFacts ==
  ASSUME NEW S, NEW q \in Seq(S), q # <<>>
  PROVE  /\ Tail(q) \in Seq(S) /\ Head(q) \in S /\ In(Head(q), q)
         /\ \A x : In(x, Tail(q)) => In(x, q)
         /\ \A x : In(x, q) => x = Head(q) \/ In(x, Tail(q))
         /\ \A x : Once(x, q) => Once(x, Tail(q))
         /\ Once(Head(q), q) => ~In(Head(q), Tail(q))
<1>1. Len(q) \in Nat /\ Len(q) >= 1 /\ DOMAIN q = 1 .. Len(q)
  BY EmptySeq, LenProperties
<1>2. Tail(q) \in Seq(S) /\ Len(Tail(q)) = Len(q) - 1 /\ Head(q) = q[1] /\ Head(q) \in S
  BY HeadTailProperties, <1>1
<1>3. DOMAIN Tail(q) = 1 .. Len(q) - 1
  BY <1>2, LenProperties
<1>4. \A i \in 1 .. Len(q) - 1 : Tail(q)[i] = q[i + 1]
  BY <1>1, <1>2
<1>5. \A i \in DOMAIN Tail(q) : i + 1 \in DOMAIN q /\ Tail(q)[i] = q[i + 1] /\ i \in Nat
  BY <1>1, <1>3, <1>4
<1>6. \A i \in DOMAIN q : i = 1 \/ (i - 1 \in DOMAIN Tail(q) /\ Tail(q)[i - 1] = q[i])
  BY <1>1, <1>3, <1>4
<1>7. 1 \in DOMAIN q
  BY <1>1
<1>8. \A x : In(x, q) => x = Head(q) \/ In(x, Tail(q))
  BY <1>2, <1>6 DEF In
<1>9. \A x : In(x, Tail(q)) => In(x, q)
  BY <1>5 DEF In
<1>10. \A x : Once(x, q) => Once(x, Tail(q))
  <2> SUFFICES ASSUME NEW x, Once(x, q), NEW i \in DOMAIN Tail(q), NEW j \in DOMAIN Tail(q),
                      Tail(q)[i] = x, Tail(q)[j] = x
               PROVE  i = j
    BY DEF Once
  <2>1. i + 1 = j + 1
    BY <1>5 DEF Once
  <2> QED
    BY <2>1, <1>5
<1>11. Once(Head(q), q) => ~In(Head(q), Tail(q))
  <2> SUFFICES ASSUME Once(Head(q), q), NEW i \in DOMAIN Tail(q), Tail(q)[i] = Head(q)
               PROVE  FALSE
    BY DEF In
  <2>1. i + 1 = 1
    BY <1>2, <1>5, <1>7 DEF Once
  <2> QED
    BY <2>1, <1>5, <1>3
<1> QED
  BY <1>2, <1>7, <1>8, <1>9, <1>10, <1>11 DEF In

(* ... and when an element is appended.                                      *)
LEMMA AppendFacts ==
  ASSUME NEW S, NEW q \in Seq(S), NEW e \in S
  PROVE  /\ Append(q, e) \in Seq(S)
         /\ \A x : In(x, Append(q, e)) <=> In(x, q) \/ x = e
         /\ \A x : Once(x, q) /\ (x # e \/ ~In(x, q)) => Once(x, Append(q, e))
<1>1. Len(q) \in Nat /\ DOMAIN q = 1 .. Len(q)
  BY LenProperties
<1>2. Append(q, e) \in Seq(S) /\ Len(Append(q, e)) = Len(q) + 1
      /\ (\A i \in 1 .. Len(q) : Append(q, e)[i] = q[i]) /\ Append(q, e)[Len(q) + 1] = e
  BY AppendProperties
<1>3. DOMAIN Append(q, e) = 1 .. Len(q) + 1
  BY <1>2, LenProperties
<1>4. \A i \in DOMAIN Append(q, e) :
        (i \in DOMAIN q /\ Append(q, e)[i] = q[i]) \/ (i = Len(q) + 1 /\ Append(q, e)[i] = e)
  BY <1>1, <1>2, <1>3
<1>5. \A i \in DOMAIN q : i \in DOMAIN Append(q, e) /\ Append(q, e)[i] = q[i]
  BY <1>1, <1>2, <1>3
<1>6. Len(q) + 1 \in DOMAIN Append(q, e)
  BY <1>1, <1>3
<1>7. \A x : In(x, Append(q, e)) <=> In(x, q) \/ x = e
  <2>1. \A x : In(x, Append(q, e)) => In(x, q) \/ x = e
    BY <1>4 DEF In
  <2>2. \A x : In(x, q) => In(x, Append(q, e))
    BY <1>5 DEF In
  <2>3. In(e, Append(q, e))
    BY <1>2, <1>6 DEF In
  <2> QED
    BY <2>1, <2>2, <2>3
<1>8. \A x : Once(x, q) /\ (x # e \/ ~In(x, q)) => Once(x, Append(q, e))
  <2> SUFFICES ASSUME NEW x, Once(x, q), x # e \/ ~In(x, q),
                      NEW i \in DOMAIN Append(q, e), NEW j \in DOMAIN Append(q, e),
                      Append(q, e)[i] = x, Append(q, e)[j] = x
               PROVE  i = j
    BY DEF Once
  <2>1. CASE x # e
    BY <2>1, <1>4 DEF Once
  <2>2. CASE ~In(x, q)
    BY <2>2, <1>4 DEF In
  <2> QED
    BY <2>1, <2>2
<1> QED
  BY <1>2, <1>7, <1>8

(* One element, and none.                                                    *)
LEMMA SmallFacts ==
  ASSUME NEW S, NEW e \in S
  PROVE  /\ <<e>> \in Seq(S) /\ <<>> \in Seq(S)
         /\ \A x : In(x, <<e>>) <=> x = e
         /\ \A x : Once(x, <<e>>)
         /\ \A x : ~In(x, <<>>) /\ Once(x, <<>>)
<1>1. DOMAIN <<e>> = {1} /\ <<e>>[1] = e
  OBVIOUS
<1>2. <<e>> \in Seq(S) /\ <<>> \in Seq(S)
  OBVIOUS
<1>3. DOMAIN <<>> = {}
  BY EmptySeq, LenProperties
<1> QED
  BY <1>1, <1>2, <1>3 DEF In, Once

(* A call that returns to the application.                                   *)
LEMMA ReplaceFacts ==
  ASSUME NEW S, NEW q \in Seq(S), q # <<>>, NEW e \in S
  PROVE  /\ <<e>> \o Tail(q) \in Seq(S)
         /\ \A x : In(x, <<e>> \o Tail(q)) <=> x = e \/ In(x, Tail(q))
         /\ \A x : x # e /\ Once(x, q) => Once(x, <<e>> \o Tail(q))
<1> DEFINE t == Tail(q)
           r == <<e>> \o t
<1>1. t \in Seq(S) /\ \A x : Once(x, q) => Once(x, t)
  BY TailFacts
<1> HIDE DEF t
<1>2. Len(t) \in Nat /\ DOMAIN t = 1 .. Len(t)
  BY <1>1, LenProperties
<1>3. r \in Seq(S) /\ Len(r) = 1 + Len(t) /\ r[1] = e /\ \A i \in 1 .. Len(t) : r[i + 1] = t[i]
  <2>1. <<e>> \in Seq(S) /\ Len(<<e>>) = 1 /\ <<e>>[1] = e
    OBVIOUS
  <2>2. /\ r \in Seq(S)
        /\ Len(r) = Len(<<e>>) + Len(t)
        /\ \A i \in 1 .. Len(<<e>>) + Len(t) :
              r[i] = IF i <= Len(<<e>>) THEN <<e>>[i] ELSE t[i - Len(<<e>>)]
    BY <1>1, <2>1, ConcatProperties
  <2> HIDE DEF r
  <2> QED
    BY <2>1, <2>2, <1>2
<1> HIDE DEF r
<1>4. DOMAIN r = 1 .. Len(t) + 1
  BY <1>2, <1>3, LenProperties
<1>5. \A i \in DOMAIN r : (i = 1 /\ r[i] = e)
                          \/ (i - 1 \in DOMAIN t /\ r[i] = t[i - 1] /\ i \in Nat)
  <2> SUFFICES ASSUME NEW i \in DOMAIN r, i # 1
               PROVE  i - 1 \in DOMAIN t /\ r[i] = t[i - 1] /\ i \in Nat
    BY <1>3
  <2>1. i - 1 \in 1 .. Len(t) /\ i \in Nat /\ (i - 1) + 1 = i
    BY <1>2, <1>4
  <2> QED
    BY <2>1, <1>2, <1>3
<1>6. \A i \in DOMAIN t : i + 1 \in DOMAIN r /\ r[i + 1] = t[i]
  BY <1>2, <1>3, <1>4
<1>7. 1 \in DOMAIN r
  BY <1>2, <1>4
<1>8. \A x : In(x, r) <=> x = e \/ In(x, t)
  <2>1. \A x : In(x, r) => x = e \/ In(x, t)
    BY <1>5 DEF In
  <2>2. \A x : In(x, t) => In(x, r)
    BY <1>6 DEF In
  <2>3. In(e, r)
    BY <1>3, <1>7 DEF In
  <2> QED
    BY <2>1, <2>2, <2>3
<1>9. \A x : x # e /\ Once(x, q) => Once(x, r)
  <2> SUFFICES ASSUME NEW x, x # e, Once(x, t), NEW i \in DOMAIN r, NEW j \in DOMAIN r,
                      r[i] = x, r[j] = x
               PROVE  i = j
    BY <1>1 DEF Once
  <2>1. i - 1 = j - 1 /\ i \in Nat /\ j \in Nat
    BY <1>5 DEF Once
  <2> QED
    BY <2>1
<1> QED
  BY <1>3, <1>8, <1>9 DEF r, t

(* Channel::handleEvent (Channel.cc:55-80): the callbacks it makes are those *)
(* of one connection, each at most once, and handleRead only for a read      *)
(* event; handleClose never, as EPOLLRDHUP comes with EPOLLIN.               *)
LEMMA HandleEventFacts ==
  ASSUME NEW c \in Conns, NEW r, "RDHUP" \in r => "IN" \in r
  PROVE  /\ handleEvent(c, r) \in Seq(Call)
         /\ \A x : In(x, handleEvent(c, r)) =>
              \/ x = <<"handleError", c>>
              \/ x = <<"handleRead", c>> /\ "IN" \in r
              \/ x = <<"handleWrite", c>>
         /\ \A x : Once(x, handleEvent(c, r))
<1> DEFINE a == <<"handleError", c>>
           b == <<"handleRead", c>>
           w == <<"handleWrite", c>>
           p == "ERR" \in r
           i == "IN" \in r
           o == "OUT" \in r
<1>1. a \in Call /\ b \in Call /\ w \in Call /\ a # b /\ a # w /\ b # w
  BY DEF Call, CallNames
<1>2. handleEvent(c, r) = (((<<>> \o (IF p THEN <<a>> ELSE <<>>)) \o (IF i THEN <<b>> ELSE <<>>))
                             \o (IF o THEN <<w>> ELSE <<>>))
  <2>1. ~("RDHUP" \in r /\ "IN" \notin r) /\ ({"IN", "RDHUP"} \cap r # {} <=> i)
    OBVIOUS
  <2> QED
    BY <2>1 DEF handleEvent
<1> DEFINE h == handleEvent(c, r)
<1> HIDE DEF a, b, w, p, i, o, h
<1> SUFFICES /\ h \in Seq({a, b, w}) /\ (\A x : In(x, h) => x \in {a, b, w} /\ (x = b => i))
             /\ \A x : Once(x, h)
  <2>1. \A s \in Seq({a, b, w}) : s \in Seq(Call)
    BY <1>1
  <2> QED
    BY <2>1, <1>1 DEF a, b, w, i, h
<1> DEFINE s1 == IF p THEN <<a>> ELSE <<>>
           s2 == IF i THEN Append(s1, b) ELSE s1
           s3 == IF o THEN Append(s2, w) ELSE s2
           S == {a, b, w}
<1>3. s1 \in Seq(S) /\ (\A x : In(x, s1) => x = a) /\ (\A x : Once(x, s1))
  BY SmallFacts
<1> HIDE DEF s1
<1>4. s2 \in Seq(S) /\ (\A x : In(x, s2) => x = a \/ (x = b /\ i)) /\ (\A x : Once(x, s2))
  <2>1. /\ Append(s1, b) \in Seq(S)
        /\ \A x : In(x, Append(s1, b)) <=> In(x, s1) \/ x = b
        /\ \A x : Once(x, s1) /\ (x # b \/ ~In(x, s1)) => Once(x, Append(s1, b))
    BY <1>3, AppendFacts
  <2> QED
    BY <2>1, <1>1, <1>3
<1> HIDE DEF s2
<1>5. /\ s3 \in Seq(S) /\ (\A x : In(x, s3) => x = a \/ (x = b /\ i) \/ x = w)
      /\ \A x : Once(x, s3)
  <2>1. /\ Append(s2, w) \in Seq(S)
        /\ \A x : In(x, Append(s2, w)) <=> In(x, s2) \/ x = w
        /\ \A x : Once(x, s2) /\ (x # w \/ ~In(x, s2)) => Once(x, Append(s2, w))
    BY <1>4, AppendFacts
  <2> QED
    BY <2>1, <1>1, <1>4
<1>6. h = s3
  <2>1. <<>> \o (IF p THEN <<a>> ELSE <<>>) = s1
    BY ConcatEmptySeq, <1>3 DEF s1
  <2>2. s1 \o (IF i THEN <<b>> ELSE <<>>) = s2
    BY ConcatEmptySeq, AppendIsConcat, <1>3 DEF s2
  <2>3. s2 \o (IF o THEN <<w>> ELSE <<>>) = s3
    BY ConcatEmptySeq, AppendIsConcat, <1>4
  <2> HIDE DEF s3
  <2> QED
    BY <2>1, <2>2, <2>3, <1>2 DEF h
<1> HIDE DEF s3
<1> QED
  BY <1>5, <1>6, <1>1

-----------------------------------------------------------------------------
(* The epoll map and the kernel's list.                                      *)

(* Channel::update (Channel.cc:82-85, Epoller.cc:60-116) keeps the map and   *)
(* the kernel's list in step, and its asserts hold while only the loop's     *)
(* thread uses connections.                                                  *)
LEMMA UpdateFacts ==
  ASSUME EpollInv, NEW c \in Conns, c \in live, c < nextConnfd_,
         NEW ev \in SUBSET {"R", "W"}, NEW ok \in BOOLEAN, update(c, ev, ok),
         live' = live, nextConnfd_' = nextConnfd_, foreign' = foreign
  PROVE  /\ EpollInv'
         /\ fd' = fd
         /\ events_' = [events_ EXCEPT ![c] = ev]
         /\ \A d \in Conns : registeredInEpoller_'[d] <=>
                               registeredInEpoller_[d] \/ (d = c /\ ev # {})
         /\ fault' \in {fault, "assert"}
         /\ ~foreign /\ ok => fault' = fault
<1> USE DEF EpollInv
<1>1. fd[c] \in Fds /\ fd' = fd /\ events_' = [events_ EXCEPT ![c] = ev]
  BY DEF EpollTypes, update
<1>2. CASE registeredInEpoller_[c]
  <2>1. /\ interest' = [interest EXCEPT ![fd[c]] = ev]
        /\ registeredInEpoller_' = registeredInEpoller_ /\ channels_' = channels_
        /\ fault' = IF ok /\ channels_[fd[c]] = c THEN fault ELSE "assert"
    BY <1>2 DEF update, epollMod, Assert_
  <2>2. EpollTypes'
    BY <1>1, <2>1 DEF EpollTypes
  <2>3. Kernel'
    BY <1>1, <1>2, <2>1 DEF EpollTypes, Kernel
  <2>4. ~foreign => channels_[fd[c]] = c
    BY <1>2 DEF EpollAgrees
  <2>5. EpollAgrees'
    <3> SUFFICES ASSUME ~foreign PROVE EpollAgrees'
      BY DEF EpollAgrees
    <3>1. \A f \in Fds : channels_[f] # NoConn => interest'[f] = events_'[channels_[f]]
      <4> SUFFICES ASSUME NEW f \in Fds, channels_[f] # NoConn
                   PROVE  interest'[f] = events_'[channels_[f]]
        OBVIOUS
      <4>1. channels_[f] \in Conns /\ fd[channels_[f]] = f /\ interest[f] = events_[channels_[f]]
        BY DEF EpollAgrees, EpollTypes
      <4>2. f = fd[c] <=> channels_[f] = c
        BY <4>1, <2>4
      <4> QED
        BY <4>1, <4>2, <1>1, <2>1 DEF EpollTypes
    <3>2. \A f \in Fds : channels_[f] = NoConn => interest'[f] = interest[f]
      BY <1>1, <2>1, <2>4 DEF EpollTypes, Conns, NoConn
    <3> QED
      BY <1>1, <2>1, <3>1, <3>2 DEF EpollAgrees
  <2> QED
    BY <1>1, <1>2, <2>1, <2>2, <2>3, <2>4, <2>5
<1>3. CASE ~registeredInEpoller_[c] /\ ev = {}
  <2>1. /\ interest' = interest
        /\ registeredInEpoller_' = registeredInEpoller_ /\ channels_' = channels_
        /\ fault' = IF ok THEN fault ELSE "assert"
    BY <1>3 DEF update, epollAdd, Assert_
  <2>2. EpollTypes'
    BY <1>1, <2>1 DEF EpollTypes
  <2>3. Kernel'
    BY <1>1, <1>3, <2>1 DEF EpollTypes, Kernel
  <2>4. EpollAgrees'
    BY <1>1, <1>3, <2>1 DEF EpollTypes, Kernel, EpollAgrees
  <2> QED
    BY <1>1, <1>3, <2>1, <2>2, <2>3, <2>4
<1>4. CASE ~registeredInEpoller_[c] /\ ev # {}
  <2>1. /\ interest' = [interest EXCEPT ![fd[c]] = ev]
        /\ registeredInEpoller_' = [registeredInEpoller_ EXCEPT ![c] = TRUE]
        /\ channels_' = [channels_ EXCEPT ![fd[c]] = c]
        /\ fault' = IF ok /\ channels_[fd[c]] = NoConn THEN fault ELSE "assert"
    BY <1>4 DEF update, epollAdd, Assert_
  <2>2. EpollTypes'
    BY <1>1, <2>1 DEF EpollTypes
  <2>3. Kernel'
    BY <1>1, <1>4, <2>1 DEF EpollTypes, Kernel
  <2>4. ~foreign => channels_[fd[c]] = NoConn
    BY <1>1, <1>4 DEF EpollAgrees, Kernel, EpollTypes
  <2>5. EpollAgrees'
    <3> SUFFICES ASSUME ~foreign PROVE EpollAgrees'
      BY DEF EpollAgrees
    <3>1. \A f \in Fds : f # fd[c] =>
            /\ channels_'[f] = channels_[f] /\ interest'[f] = interest[f] /\ channels_[f] # c
      BY <1>1, <1>4, <2>1 DEF EpollTypes, EpollAgrees, Conns, NoConn
    <3>2. \A f \in Fds : channels_[f] # NoConn =>
            channels_[f] \in live /\ fd[channels_[f]] = f /\ registeredInEpoller_[channels_[f]]
            /\ interest[f] = events_[channels_[f]]
      BY DEF EpollAgrees
    <3>3. \A f \in Fds : channels_[f] = NoConn => interest[f] = NotWatched
      BY DEF EpollAgrees
    <3>4. channels_'[fd[c]] = c /\ interest'[fd[c]] = ev /\ events_'[c] = ev /\ c # NoConn
          /\ registeredInEpoller_'[c]
      BY <1>1, <2>1 DEF EpollTypes, Conns, NoConn
    <3>5. \A d \in live : d # c => events_'[d] = events_[d]
                                   /\ (registeredInEpoller_'[d] <=> registeredInEpoller_[d])
      BY <1>1, <2>1 DEF EpollTypes
    <3>6. \A f \in Fds : channels_'[f] # NoConn =>
            channels_'[f] \in live /\ fd[channels_'[f]] = f /\ registeredInEpoller_'[channels_'[f]]
            /\ interest'[f] = events_'[channels_'[f]]
      <4> TAKE f \in Fds
      <4>1. CASE f = fd[c]
        BY <4>1, <3>4
      <4>2. CASE f # fd[c]
        BY <4>2, <3>1, <3>2, <3>5
      <4> QED
        BY <4>1, <4>2
    <3>7. \A f \in Fds : channels_'[f] = NoConn => interest'[f] = NotWatched
      <4> TAKE f \in Fds
      <4>1. CASE f = fd[c]
        BY <4>1, <3>4
      <4>2. CASE f # fd[c]
        BY <4>2, <3>1, <3>3
      <4> QED
        BY <4>1, <4>2
    <3>8. \A d \in live : registeredInEpoller_'[d] => channels_'[fd[d]] = d
      <4> TAKE d \in live
      <4>1. CASE d = c
        BY <4>1, <3>4
      <4>2. CASE d # c
        <5>1. fd[d] \in Fds /\ fd[d] # fd[c]
          BY <4>2 DEF EpollTypes, Kernel
        <5>2. registeredInEpoller_[d] => channels_[fd[d]] = d
          BY DEF EpollAgrees
        <5> QED
          BY <5>1, <5>2, <4>2, <3>1, <3>5
      <4> QED
        BY <4>1, <4>2
    <3> QED
      BY <1>1, <3>6, <3>7, <3>8 DEF EpollAgrees
  <2>6. \A d \in Conns : registeredInEpoller_'[d] <=> registeredInEpoller_[d] \/ d = c
    BY <2>1 DEF EpollTypes
  <2> QED
    BY <1>1, <1>4, <2>1, <2>2, <2>3, <2>4, <2>5, <2>6
<1> QED
  BY <1>2, <1>3, <1>4

(* Epoller::epollDel (Epoller.cc:90-105): the entry and the descriptor go.   *)
LEMMA DelFacts ==
  ASSUME EpollInv, NEW c \in Conns, c \in live, epollDel(c),
         live' = live, nextConnfd_' = nextConnfd_, foreign' = foreign
  PROVE  /\ EpollInv'
         /\ fd' = fd
         /\ events_' = events_
         /\ \A d \in Conns : registeredInEpoller_'[d] <=> registeredInEpoller_[d] /\ d # c
         /\ fault' \in {fault, "assert"}
         /\ ~foreign /\ registeredInEpoller_[c] /\ events_[c] = {} => fault' = fault
<1> USE DEF EpollInv
<1>1. fd[c] \in Fds /\ fd' = fd /\ events_' = events_
  BY DEF EpollTypes, epollDel
<1>2. /\ interest' = [interest EXCEPT ![fd[c]] = NotWatched]
      /\ registeredInEpoller_' = [registeredInEpoller_ EXCEPT ![c] = FALSE]
      /\ channels_' = [channels_ EXCEPT ![fd[c]] = NoConn]
      /\ fault' = IF channels_[fd[c]] = c /\ events_[c] = {} /\ registeredInEpoller_[c]
                  THEN fault ELSE "assert"
  BY DEF epollDel, Assert_
<1>3. EpollTypes'
  BY <1>1, <1>2 DEF EpollTypes
<1>4. Kernel'
  BY <1>1, <1>2 DEF EpollTypes, Kernel
<1>5. EpollAgrees'
  BY <1>1, <1>2 DEF EpollTypes, Kernel, EpollAgrees
<1>6. \A d \in Conns : registeredInEpoller_'[d] <=> registeredInEpoller_[d] /\ d # c
  BY <1>2 DEF EpollTypes
<1>7. ~foreign /\ registeredInEpoller_[c] => channels_[fd[c]] = c
  BY DEF EpollAgrees
<1> QED
  BY <1>1, <1>2, <1>3, <1>4, <1>5, <1>6, <1>7

(* ~Socket (Socket.cc:9-11): the descriptors that are closed leave the       *)
(* kernel's list, and no entry of the map is left behind.                    *)
LEMMA CloseFacts ==
  ASSUME EpollInv, NEW gone \in SUBSET live, CloseFds(gone), live' = live \ gone,
         ~foreign => \A c \in gone : ~registeredInEpoller_[c],
         nextConnfd_' = nextConnfd_, foreign' = foreign
  PROVE  EpollInv' /\ events_' = events_ /\ registeredInEpoller_' = registeredInEpoller_
<1> USE DEF EpollInv
<1>1. /\ interest' = [f \in Fds |-> IF \E c \in gone : fd[c] = f THEN NotWatched
                                                                 ELSE interest[f]]
      /\ fd' = [c \in Conns |-> IF c \in gone THEN 0 ELSE fd[c]]
      /\ events_' = events_ /\ registeredInEpoller_' = registeredInEpoller_
      /\ channels_' = channels_
  BY DEF CloseFds
<1>2. EpollTypes'
  BY <1>1 DEF EpollTypes
<1>3. \A c \in live' : c \in live /\ c \notin gone /\ fd'[c] = fd[c] /\ fd[c] \in Fds
  BY <1>1 DEF EpollTypes
<1>4. Kernel'
  <2>1. \A c \in live' : interest'[fd'[c]] = interest[fd[c]]
    BY <1>1, <1>3 DEF Kernel
  <2>2. \A f \in Fds : (\A c \in live' : fd'[c] # f) => interest'[f] = NotWatched
    BY <1>1, <1>3 DEF Kernel
  <2>3. \A c, d \in live' : fd'[c] = fd'[d] => c = d
    BY <1>3 DEF Kernel
  <2>4. \A f \in Fds : channels_'[f] # NoConn =>
          channels_'[f] < nextConnfd_' /\ (channels_'[f] \in live' => fd'[channels_'[f]] = f)
    BY <1>1, <1>3 DEF Kernel
  <2>5. \A c \in live' :
          interest'[fd'[c]] = IF registeredInEpoller_'[c] THEN events_'[c] ELSE NotWatched
    BY <1>1, <1>3, <2>1 DEF Kernel
  <2> QED
    BY <2>2, <2>3, <2>4, <2>5 DEF Kernel
<1>5. EpollAgrees'
  <2> SUFFICES ASSUME ~foreign PROVE EpollAgrees'
    BY DEF EpollAgrees
  <2>1. \A f \in Fds : channels_[f] # NoConn =>
          channels_[f] \in live' /\ fd'[channels_[f]] = f /\ interest'[f] = interest[f]
    BY <1>1, <1>3 DEF EpollAgrees, Kernel, EpollTypes
  <2>2. \A f \in Fds : channels_[f] = NoConn => interest'[f] = NotWatched
    BY <1>1 DEF EpollAgrees
  <2>3. \A c \in live' : registeredInEpoller_[c] => channels_[fd'[c]] = c
    BY <1>3 DEF EpollAgrees
  <2>4. \A f \in Fds : channels_[f] # NoConn =>
          registeredInEpoller_[channels_[f]] /\ interest[f] = events_[channels_[f]]
    BY DEF EpollAgrees
  <2> QED
    BY <1>1, <2>1, <2>2, <2>3, <2>4 DEF EpollAgrees
<1> QED
  BY <1>1, <1>2, <1>4, <1>5

-----------------------------------------------------------------------------
(* Each part of the invariant depends on a few of the variables only.        *)
LEMMA Frames ==
  /\ EpollInv /\ UNCHANGED <<fd, events_, registeredInEpoller_, channels_, interest, live,
                             nextConnfd_, foreign>> => EpollInv'
  /\ ConnTypes /\ UNCHANGED <<fault, state_, sock, pendingFunctors_, calls, sends,
                              outputBuffer_, accepted, written, closed, seen>> => ConnTypes'
  /\ ServerTypes /\ UNCHANGED <<phase, active, revents_, batch, kept, nextConnfd_, backlog,
                                connections_, live, sending, foreign>> => ServerTypes'
  /\ Wire /\ UNCHANGED <<closed, written, outputBuffer_, accepted, events_>> => Wire'
  /\ Shut /\ UNCHANGED <<foreign, sock, state_, closed, outputBuffer_>> => Shut'
  /\ Life /\ UNCHANGED <<state_, nextConnfd_, live, events_, closed, seen,
                         registeredInEpoller_, connections_>> => Life'
  /\ Births /\ UNCHANGED <<state_, seen, calls, closed, sending>> => Births'
  /\ Deaths /\ UNCHANGED <<pendingFunctors_, batch, closed, seen>> => Deaths'
  /\ Held /\ UNCHANGED <<pendingFunctors_, batch, live, kept>> => Held'
  /\ Stack /\ UNCHANGED <<phase, calls, active, batch, kept, fault, live>> => Stack'
  /\ Reading /\ UNCHANGED <<revents_, active, state_, events_, live, calls, closed, seen>>
       => Reading'
  /\ OwnQueue /\ UNCHANGED <<foreign, sending, pendingFunctors_, batch, active, live>>
       => OwnQueue'
  /\ OwnConn /\ UNCHANGED <<foreign, seen, registeredInEpoller_, state_, calls, events_>>
       => OwnConn'
  /\ OwnFault /\ UNCHANGED <<foreign, fault>> => OwnFault'
<1>1. EpollInv /\ UNCHANGED <<fd, events_, registeredInEpoller_, channels_, interest, live,
                              nextConnfd_, foreign>> => EpollInv'
  BY DEF EpollInv, EpollTypes, Kernel, EpollAgrees
<1>2. ConnTypes /\ UNCHANGED <<fault, state_, sock, pendingFunctors_, calls, sends,
                               outputBuffer_, accepted, written, closed, seen>> => ConnTypes'
  BY DEF ConnTypes
<1>3. ServerTypes /\ UNCHANGED <<phase, active, revents_, batch, kept, nextConnfd_, backlog,
                                 connections_, live, sending, foreign>> => ServerTypes'
  BY DEF ServerTypes
<1>4. Wire /\ UNCHANGED <<closed, written, outputBuffer_, accepted, events_>> => Wire'
  BY DEF Wire
<1>5. Shut /\ UNCHANGED <<foreign, sock, state_, closed, outputBuffer_>> => Shut'
  BY DEF Shut
<1>6. Life /\ UNCHANGED <<state_, nextConnfd_, live, events_, closed, seen,
                          registeredInEpoller_, connections_>> => Life'
  BY DEF Life
<1>7. Births /\ UNCHANGED <<state_, seen, calls, closed, sending>> => Births'
  BY DEF Births
<1>8. Deaths /\ UNCHANGED <<pendingFunctors_, batch, closed, seen>> => Deaths'
  BY DEF Deaths
<1>9. Held /\ UNCHANGED <<pendingFunctors_, batch, live, kept>> => Held'
  BY DEF Held
<1>10. Stack /\ UNCHANGED <<phase, calls, active, batch, kept, fault, live>> => Stack'
  BY DEF Stack, In, Once
<1>11. Reading /\ UNCHANGED <<revents_, active, state_, events_, live, calls, closed, seen>>
         => Reading'
  BY DEF Reading
<1>12. OwnQueue /\ UNCHANGED <<foreign, sending, pendingFunctors_, batch, active, live>>
         => OwnQueue'
  BY DEF OwnQueue
<1>13. OwnConn /\ UNCHANGED <<foreign, seen, registeredInEpoller_, state_, calls, events_>>
         => OwnConn'
  BY DEF OwnConn, In
<1>14. OwnFault /\ UNCHANGED <<foreign, fault>> => OwnFault'
  BY DEF OwnFault
<1> QED
  BY <1>1, <1>2, <1>3, <1>4, <1>5, <1>6, <1>7, <1>8, <1>9, <1>10, <1>11, <1>12, <1>13, <1>14

(* Init (TcpServer.cc:18-29): no connection exists.                          *)
LEMMA InitHolds ==
  Init => IInv
<1> SUFFICES ASSUME Init PROVE IInv
  OBVIOUS
<1> USE DEF Init, ConnInit, EpollInit
<1>0. (\A x : ~In(x, <<>>)) /\ (\A x : Once(x, <<>>))
  BY SmallFacts
<1>1. EpollInv
  BY SizesAssumption DEF EpollInv, EpollTypes, Kernel, EpollAgrees, Conns, Fds, NoConn, NotWatched
<1>2. ConnTypes
  <2>1. NewSocket \in Socket
    BY BuffersAssumption DEF NewSocket, Socket
  <2>2. <<>> \in Seq(Functor) /\ <<>> \in Seq(Call) /\ <<>> \in Seq(Nat)
    OBVIOUS
  <2> QED
    BY <2>1, <2>2, BuffersAssumption DEF ConnTypes, States
<1>3. ServerTypes
  <2>1. nextConnfd_ \in Nat \ {0} /\ backlog \in Nat /\ nextConnfd_ + backlog <= MaxConns + 1
    BY SizesAssumption
  <2>2. <<>> \in Seq(Functor)
    OBVIOUS
  <2> QED
    BY <2>1, <2>2 DEF ServerTypes
<1>4. Wire /\ Shut
  <2>1. <<>> \o <<>> = <<>>
    BY ConcatEmptySeq
  <2> QED
    BY <2>1 DEF Wire, Shut, NewSocket
<1>5. Life
  BY DEF Life, Conns
<1>6. Births /\ Deaths /\ Held /\ Stack /\ OwnQueue
  BY <1>0 DEF Births, Deaths, Held, Stack, OwnQueue, Up
<1>7. Reading /\ OwnConn /\ OwnFault
  BY <1>0 DEF Reading, OwnConn, OwnFault, Up
<1> QED
  BY <1>1, <1>2, <1>3, <1>4, <1>5, <1>6, <1>7 DEF IInv

-----------------------------------------------------------------------------
(* Steps that touch little.                                                  *)

(* TcpServer::start (TcpServer.cc:41-51), and a step that changes nothing.   *)
LEMMA StartKeeps ==
  ASSUME IInv, start \/ UNCHANGED vars
  PROVE  IInv'
<1>1. UNCHANGED <<epollVars, connVars, phase, active, revents_, batch, kept, nextConnfd_,
                  connections_, live, sending, foreign, backlog>>
  BY DEF start, vars, serverVars
<1> QED
  BY <1>1, Frames DEF IInv, epollVars, connVars

(* A peer connects: the kernel queues the connection.                        *)
LEMMA PeerConnectsKeeps ==
  ASSUME IInv, PeerConnects
  PROVE  IInv'
<1>1. UNCHANGED <<epollVars, connVars, phase, active, revents_, batch, kept, nextConnfd_,
                  connections_, live, sending, foreign>>
  BY DEF PeerConnects
<1>2. ServerTypes'
  BY <1>1, SizesAssumption DEF PeerConnects, IInv, ServerTypes
<1> QED
  BY <1>1, <1>2, Frames DEF IInv, epollVars, connVars

(* What the steps do to a socket keeps it one, and leaves shutWr alone.      *)
LEMMA SocketFacts ==
  ASSUME NEW r \in Socket
  PROVE  /\ [r EXCEPT !.inq = 1] \in Socket /\ [r EXCEPT !.inq = 1].shutWr = r.shutWr
         /\ [r EXCEPT !.inq = 0] \in Socket /\ [r EXCEPT !.inq = 0].shutWr = r.shutWr
         /\ [r EXCEPT !.err = FALSE] \in Socket /\ [r EXCEPT !.err = FALSE].shutWr = r.shutWr
         /\ [r EXCEPT !.fin = TRUE] \in Socket /\ [r EXCEPT !.fin = TRUE].shutWr = r.shutWr
         /\ [r EXCEPT !.room = SndBuf] \in Socket
         /\ [r EXCEPT !.room = SndBuf].shutWr = r.shutWr
         /\ [r EXCEPT !.rst = TRUE, !.err = TRUE] \in Socket
         /\ [r EXCEPT !.rst = TRUE, !.err = TRUE].shutWr = r.shutWr
         /\ [r EXCEPT !.shutWr = TRUE] \in Socket
<1>1. [r EXCEPT !.inq = 1] \in Socket /\ [r EXCEPT !.inq = 1].shutWr = r.shutWr
  BY DEF Socket
<1>2. [r EXCEPT !.inq = 0] \in Socket /\ [r EXCEPT !.inq = 0].shutWr = r.shutWr
  BY DEF Socket
<1>3. [r EXCEPT !.err = FALSE] \in Socket /\ [r EXCEPT !.err = FALSE].shutWr = r.shutWr
  BY DEF Socket
<1>4. [r EXCEPT !.fin = TRUE] \in Socket /\ [r EXCEPT !.fin = TRUE].shutWr = r.shutWr
  BY DEF Socket
<1>5. [r EXCEPT !.room = SndBuf] \in Socket /\ [r EXCEPT !.room = SndBuf].shutWr = r.shutWr
  BY BuffersAssumption DEF Socket
<1>6. /\ [r EXCEPT !.rst = TRUE, !.err = TRUE] \in Socket
      /\ [r EXCEPT !.rst = TRUE, !.err = TRUE].shutWr = r.shutWr
  BY DEF Socket
<1>7. [r EXCEPT !.shutWr = TRUE] \in Socket
  BY DEF Socket
<1> QED
  BY <1>1, <1>2, <1>3, <1>4, <1>5, <1>6, <1>7

(* A step that gives the socket of a connection another value and leaves     *)
(* shutWr alone keeps the parts that are about sockets.                      *)
LEMMA SockKeeps ==
  ASSUME ConnTypes, Shut, NEW c \in Conns, NEW s \in Socket, s.shutWr = sock[c].shutWr,
         sock' = [sock EXCEPT ![c] = s],
         UNCHANGED <<foreign, state_, closed, outputBuffer_>>
  PROVE  sock' \in [Conns -> Socket] /\ Shut'
<1>1. \A d \in Conns : sock'[d].shutWr = sock[d].shutWr
  BY DEF ConnTypes
<1>2. sock' \in [Conns -> Socket]
  BY DEF ConnTypes
<1>3. Shut'
  BY <1>1 DEF Shut
<1> QED
  BY <1>2, <1>3

(* A peer sends, receives, closes or resets: only the socket changes, and    *)
(* not whether this side was shut down.                                      *)
LEMMA PeerKeeps ==
  ASSUME IInv, NEW c \in Conns, PeerStep(c)
  PROVE  IInv'
<1>1. PICK s \in Socket : sock' = [sock EXCEPT ![c] = s] /\ s.shutWr = sock[c].shutWr
  <2>1. sock[c] \in Socket
    BY DEF IInv, ConnTypes
  <2>2. CASE PeerSends(c)
    BY <2>1, <2>2, SocketFacts DEF PeerSends, Peer
  <2>3. CASE PeerReceives(c)
    BY <2>1, <2>3, SocketFacts DEF PeerReceives, Peer
  <2>4. CASE PeerCloses(c)
    BY <2>1, <2>4, SocketFacts DEF PeerCloses, Peer
  <2>5. CASE PeerResets(c)
    BY <2>1, <2>5, SocketFacts DEF PeerResets, Peer
  <2> QED
    BY <2>2, <2>3, <2>4, <2>5 DEF PeerStep
<1>2. UNCHANGED <<epollVars, state_, outputBuffer_, pendingFunctors_, calls, sends, accepted,
                  written, closed, seen, phase, active, revents_, batch, kept, nextConnfd_,
                  connections_, live, sending, foreign, backlog>>
  BY DEF PeerStep, PeerSends, PeerReceives, PeerCloses, PeerResets, Peer
<1>3. sock' \in [Conns -> Socket] /\ Shut'
  BY <1>1, <1>2, SockKeeps DEF IInv
<1>4. ConnTypes'
  BY <1>2, <1>3 DEF IInv, ConnTypes, epollVars
<1> QED
  BY <1>2, <1>3, <1>4, Frames DEF IInv, epollVars

-----------------------------------------------------------------------------
(* The calls of an event.                                                    *)

(* The call n of c is done, and may have called the application.             *)
Popped(n, c) ==
  /\ calls' \in Seq(Call)
  /\ In(<<n, c>>, calls)
  /\ \A m \in CallNames, d \in Conns :
       /\ In(<<m, d>>, calls') => In(<<m, d>>, calls) \/ (m = "client" /\ d = c)
       /\ In(<<m, d>>, calls) => In(<<m, d>>, calls') \/ (m = n /\ d = c)
       /\ m # "client" /\ Once(<<m, d>>, calls) => Once(<<m, d>>, calls')
  /\ n # "client" /\ Once(<<n, c>>, calls) => ~In(<<n, c>>, calls')

(* The two ways in which a handler ends (TcpConnection.cc:115-164).          *)
LEMMA PoppedFacts ==
  ASSUME ConnTypes, NEW n \in CallNames, NEW c \in Conns, Called(n, c),
         Return \/ calls' = <<<<"client", c>>>> \o Tail(calls)
  PROVE  Popped(n, c)
<1>1. calls \in Seq(Call) /\ calls # <<>> /\ Head(calls) = <<n, c>>
  BY DEF ConnTypes, Called
<1>2. <<"client", c>> \in Call
  BY DEF Call, CallNames
<1> DEFINE t == Tail(calls)
<1>3. /\ t \in Seq(Call) /\ In(<<n, c>>, calls)
      /\ \A x : In(x, t) => In(x, calls)
      /\ \A x : In(x, calls) => x = <<n, c>> \/ In(x, t)
      /\ \A x : Once(x, calls) => Once(x, t)
      /\ Once(<<n, c>>, calls) => ~In(<<n, c>>, t)
  BY <1>1, TailFacts
<1>4. CASE Return
  <2>1. calls' = t
    BY <1>4 DEF Return
  <2> HIDE DEF t
  <2> QED
    BY <1>3, <2>1 DEF Popped
<1>5. CASE calls' = <<<<"client", c>>>> \o Tail(calls)
  <2>1. /\ calls' \in Seq(Call)
        /\ \A x : In(x, calls') <=> x = <<"client", c>> \/ In(x, t)
        /\ \A x : x # <<"client", c>> /\ Once(x, calls) => Once(x, calls')
    BY <1>1, <1>2, <1>5, ReplaceFacts
  <2> HIDE DEF t
  <2>2. \A m \in CallNames, d \in Conns :
          /\ In(<<m, d>>, calls') => In(<<m, d>>, calls) \/ (m = "client" /\ d = c)
          /\ In(<<m, d>>, calls) => In(<<m, d>>, calls') \/ (m = n /\ d = c)
          /\ m # "client" /\ Once(<<m, d>>, calls) => Once(<<m, d>>, calls')
    BY <1>3, <2>1
  <2>3. n # "client" /\ Once(<<n, c>>, calls) => ~In(<<n, c>>, calls')
    BY <1>3, <2>1
  <2> QED
    BY <1>3, <2>1, <2>2, <2>3 DEF Popped
<1> QED
  BY <1>4, <1>5

(* What the end of a call keeps.                                             *)
LEMMA PoppedStack ==
  ASSUME Stack, NEW n \in CallNames, NEW c \in Conns, Popped(n, c), fault = "none",
         UNCHANGED <<phase, active, batch, kept, live>>
  PROVE  Stack'
<1>1. phase # "poll"
  <2>1. ~In(<<n, c>>, <<>>)
    BY SmallFacts
  <2> QED
    BY <2>1 DEF Stack, Popped
<1>2. c \in live /\ c \notin active /\ (phase = "functors" => c \in kept)
      /\ \A m \in CallNames, d \in Conns : In(<<m, d>>, calls') => d = c
  BY DEF Stack, Popped
<1>3. \A m \in CallNames, d \in Conns : In(<<m, d>>, calls') /\ m # "client" =>
        Once(<<m, d>>, calls')
  BY DEF Stack, Popped
<1> QED
  BY <1>1, <1>2, <1>3 DEF Stack

(* ... keeps what is known of connections that are still to be reported,     *)
(* unless the call was connectEstablished,                                   *)
LEMMA PoppedBirths ==
  ASSUME Births, NEW n \in CallNames, NEW c \in Conns, Popped(n, c), n # "connectEstablished",
         UNCHANGED <<state_, seen, closed, sending>>
  PROVE  Births'
<1>1. "connectEstablished" \in CallNames
  BY DEF CallNames
<1>2. \A d \in Conns : In(<<"connectEstablished", d>>, calls') <=>
                         In(<<"connectEstablished", d>>, calls)
  BY <1>1 DEF Popped
<1> QED
  BY <1>2 DEF Births

(* ... of the channels that wait to read,                                    *)
LEMMA PoppedReading ==
  ASSUME Reading, NEW n \in CallNames, NEW c \in Conns, Popped(n, c),
         UNCHANGED <<revents_, active, state_, live, closed, seen>>,
         \A d \in Conns : "R" \in events_'[d] => "R" \in events_[d]
  PROVE  Reading'
<1>1. "handleRead" \in CallNames
  BY DEF CallNames
<1>2. \A d \in Conns : In(<<"handleRead", d>>, calls') => In(<<"handleRead", d>>, calls)
  BY <1>1 DEF Popped
<1> QED
  BY <1>2 DEF Reading

(* ... and of those that are registered, unless the call was removeChannel.  *)
LEMMA PoppedOwnConn ==
  ASSUME OwnConn, NEW n \in CallNames, NEW c \in Conns, Popped(n, c), n # "removeChannel",
         UNCHANGED <<foreign, seen, state_>>,
         \A d \in Conns : /\ registeredInEpoller_'[d] <=> registeredInEpoller_[d]
                          /\ events_[d] = {} => events_'[d] = {}
  PROVE  OwnConn'
<1>1. "removeChannel" \in CallNames
  BY DEF CallNames
<1>2. \A d \in Conns : In(<<"removeChannel", d>>, calls') <=> In(<<"removeChannel", d>>, calls)
  BY <1>1 DEF Popped
<1> SUFFICES ASSUME ~foreign, NEW d \in Conns
             PROVE  /\ seen'[d] = Up => registeredInEpoller_'[d]
                                        /\ state_'[d] \in {"kConnected", "kDisconnecting"}
                    /\ In(<<"removeChannel", d>>, calls') =>
                         registeredInEpoller_'[d] /\ events_'[d] = {} /\ seen'[d] = UpDown
                    /\ registeredInEpoller_'[d] =>
                         seen'[d] = Up \/ In(<<"removeChannel", d>>, calls')
                    /\ events_'[d] # {} => seen'[d] = Up
  BY DEF OwnConn
<1> QED
  BY <1>2 DEF OwnConn

(* A call that changes the socket at most: handleError, handleRead with data *)
(* or an error (TcpConnection.cc:115-128, 159-164), the end of a callback.   *)
LEMMA SockCallKeeps ==
  ASSUME IInv, fault = "none", NEW c \in Conns,
         handleError(c) \/ handleReadData(c) \/ handleReadError(c) \/ ClientReturn(c),
         UNCHANGED serverVars
  PROVE  IInv'
<1>1. /\ UNCHANGED <<epollVars, state_, outputBuffer_, pendingFunctors_, sends, accepted,
                     written, closed, seen>>
      /\ Return \/ calls' = <<<<"client", c>>>> \o Tail(calls)
  BY DEF handleError, handleReadData, handleReadError, ClientReturn
<1>2. PICK s \in Socket : sock' = [sock EXCEPT ![c] = s] /\ s.shutWr = sock[c].shutWr
  <2>1. sock[c] \in Socket /\ sock = [sock EXCEPT ![c] = sock[c]]
    BY DEF IInv, ConnTypes
  <2>2. CASE handleError(c)
    BY <2>1, <2>2, SocketFacts DEF handleError, getSocketError
  <2>3. CASE handleReadData(c)
    BY <2>1, <2>3, SocketFacts DEF handleReadData
  <2>4. CASE handleReadError(c)
    BY <2>1, <2>4, SocketFacts DEF handleReadError
  <2>5. CASE ClientReturn(c)
    BY <2>1, <2>5 DEF ClientReturn
  <2> QED
    BY <2>2, <2>3, <2>4, <2>5
<1>3. PICK n \in {"handleError", "handleRead", "client"} : Called(n, c)
  BY DEF handleError, handleReadData, handleReadError, ClientReturn
<1>4. n \in CallNames /\ n # "connectEstablished" /\ n # "removeChannel"
  BY DEF CallNames
<1>5. Popped(n, c)
  BY <1>1, <1>3, <1>4, PoppedFacts DEF IInv
<1>6. sock' \in [Conns -> Socket] /\ Shut'
  BY <1>1, <1>2, SockKeeps DEF IInv, serverVars
<1>7. ConnTypes'
  BY <1>1, <1>5, <1>6 DEF IInv, ConnTypes, epollVars, Popped
<1>8. Stack'
  BY <1>4, <1>5, PoppedStack DEF IInv, serverVars
<1>9. Births'
  BY <1>1, <1>4, <1>5, PoppedBirths DEF IInv, serverVars
<1>10. Reading'
  BY <1>1, <1>4, <1>5, PoppedReading DEF IInv, serverVars, epollVars
<1>11. OwnConn'
  BY <1>1, <1>4, <1>5, PoppedOwnConn DEF IInv, serverVars, epollVars
<1> QED
  BY <1>1, <1>6, <1>7, <1>8, <1>9, <1>10, <1>11, Frames DEF IInv, epollVars, serverVars

(* A connection that exists has a number that was given out.                 *)
LEMMA LiveNumbered ==
  ASSUME Life, ServerTypes, EpollTypes, NEW c \in Conns, c \in live
  PROVE  c < nextConnfd_ /\ state_[c] # "none"
BY DEF Life, ServerTypes, EpollTypes, Conns

(* The connection of a call exists.                                          *)
LEMMA CalledLive ==
  ASSUME IInv, fault = "none", NEW n \in CallNames, NEW c \in Conns, Popped(n, c)
  PROVE  /\ c \in live /\ c < nextConnfd_ /\ state_[c] # "none" /\ c \notin active
         /\ n # "client" => Once(<<n, c>>, calls) /\ ~In(<<n, c>>, calls')
<1>1. c \in live /\ c \notin active /\ (n # "client" => Once(<<n, c>>, calls))
  BY DEF IInv, Stack, Popped
<1> QED
  BY <1>1, LiveNumbered DEF IInv, EpollInv, Popped

(* removeChannel (EventLoop.cc:147-153, Epoller.cc:90-123), the last call    *)
(* for a connection: the channel has no events and is still in the map.      *)
LEMMA RemoveChannelKeeps ==
  ASSUME IInv, fault = "none", NEW c \in Conns, removeChannel(c), UNCHANGED serverVars
  PROVE  IInv'
<1> DEFINE n == "removeChannel"
<1>1. /\ Called(n, c) /\ epollDel(c) /\ Return
      /\ UNCHANGED <<state_, outputBuffer_, sock, pendingFunctors_, sends, accepted, written,
                     closed, seen>>
      /\ UNCHANGED <<phase, active, revents_, batch, kept, nextConnfd_, connections_, live,
                     sending, foreign, backlog>>
  BY DEF removeChannel, serverVars
<1>2. n \in CallNames
  BY DEF CallNames
<1>3. Popped(n, c)
  BY <1>1, <1>2, PoppedFacts DEF IInv
<1>4. c \in live /\ ~In(<<n, c>>, calls')
  BY <1>2, <1>3, CalledLive
<1>5. /\ EpollInv'
      /\ fd' = fd /\ events_' = events_
      /\ \A d \in Conns : registeredInEpoller_'[d] <=> registeredInEpoller_[d] /\ d # c
      /\ fault' \in {fault, "assert"}
      /\ ~foreign /\ registeredInEpoller_[c] /\ events_[c] = {} => fault' = fault
  BY <1>1, <1>4, DelFacts DEF IInv
<1>6. ~foreign => registeredInEpoller_[c] /\ events_[c] = {} /\ seen[c] = UpDown
  BY <1>3 DEF IInv, OwnConn, Popped
<1>7. ConnTypes'
  BY <1>1, <1>3, <1>5 DEF IInv, ConnTypes, Popped
<1>8. Life'
  BY <1>1, <1>5 DEF IInv, Life
<1>9. Stack'
  BY <1>1, <1>2, <1>3, PoppedStack DEF IInv
<1>10. Births'
  BY <1>1, <1>2, <1>3, PoppedBirths DEF IInv
<1>11. Reading'
  BY <1>1, <1>2, <1>3, <1>5, PoppedReading DEF IInv
<1>12. OwnConn'
  <2> SUFFICES ASSUME ~foreign, NEW d \in Conns
               PROVE  /\ seen[d] = Up => registeredInEpoller_'[d]
                                         /\ state_[d] \in {"kConnected", "kDisconnecting"}
                      /\ In(<<"removeChannel", d>>, calls') =>
                           registeredInEpoller_'[d] /\ events_[d] = {} /\ seen[d] = UpDown
                      /\ registeredInEpoller_'[d] =>
                           seen[d] = Up \/ In(<<"removeChannel", d>>, calls')
                      /\ events_[d] # {} => seen[d] = Up
    BY <1>1, <1>5 DEF OwnConn
  <2>1. CASE d = c
    BY <2>1, <1>4, <1>5, <1>6 DEF Up, UpDown
  <2>2. CASE d # c
    <3>1. In(<<"removeChannel", d>>, calls') <=> In(<<"removeChannel", d>>, calls)
      BY <2>2, <1>2, <1>3 DEF Popped
    <3> QED
      BY <3>1, <2>2, <1>5 DEF IInv, OwnConn
  <2> QED
    BY <2>1, <2>2
<1>13. OwnFault'
  BY <1>1, <1>5, <1>6 DEF IInv, OwnFault
<1> QED
  BY <1>1, <1>5, <1>7, <1>8, <1>9, <1>10, <1>11, <1>12, <1>13, Frames DEF IInv

(* connectEstablished (TcpConnection.cc:105-113).                            *)
LEMMA ConnectEstablishedKeeps ==
  ASSUME IInv, fault = "none", NEW c \in Conns, connectEstablished(c, NumThreads > 0),
         UNCHANGED serverVars
  PROVE  IInv'
<1> DEFINE n == "connectEstablished"
<1>0. UNCHANGED <<phase, active, revents_, batch, kept, nextConnfd_, connections_, live,
                  sending, foreign, backlog>>
  BY DEF serverVars
<1>1. CASE NumThreads > 0
  <2>1. /\ fault' = "wrongthread"
        /\ UNCHANGED <<fd, events_, registeredInEpoller_, channels_, interest, connVars>>
    BY <1>1 DEF connectEstablished
  <2>2. ConnTypes'
    BY <2>1 DEF IInv, ConnTypes, connVars
  <2>3. Stack'
    BY <1>0, <2>1 DEF IInv, Stack, connVars
  <2>4. OwnFault'
    BY <1>1, <2>1 DEF OwnFault
  <2> QED
    BY <1>0, <2>1, <2>2, <2>3, <2>4, Frames DEF IInv, connVars
<1>2. CASE ~(NumThreads > 0)
  <2>1. /\ Called(n, c)
        /\ enableReading(c, state_[c] = "kConnecting")
        /\ state_' = [state_ EXCEPT ![c] = "kConnected"]
        /\ seen' = [seen EXCEPT ![c] = Append(@, "up")]
        /\ calls' = <<<<"client", c>>>> \o Tail(calls)
        /\ UNCHANGED <<outputBuffer_, sock, pendingFunctors_, sends, accepted, written, closed>>
    BY <1>2 DEF connectEstablished, setState, ConnectionCallback
  <2>2. n \in CallNames
    BY DEF CallNames
  <2>3. Popped(n, c)
    BY <2>1, <2>2, PoppedFacts DEF IInv
  <2>4. c \in live /\ c < nextConnfd_ /\ ~In(<<n, c>>, calls')
    BY <2>2, <2>3, CalledLive
  <2>5. state_[c] = "kConnecting" /\ ~closed[c] /\ seen[c] = <<>>
    BY <2>3 DEF IInv, Births, Popped
  <2>6. PICK ev \in SUBSET {"R", "W"} : ev = events_[c] \cup {"R"}
    BY DEF IInv, EpollInv, EpollTypes
  <2>7. update(c, ev, TRUE)
    BY <2>1, <2>5, <2>6 DEF enableReading, update, epollMod, epollAdd, Assert_
  <2>8. /\ EpollInv'
        /\ fd' = fd /\ events_' = [events_ EXCEPT ![c] = ev]
        /\ \A d \in Conns : registeredInEpoller_'[d] <=>
                              registeredInEpoller_[d] \/ (d = c /\ ev # {})
        /\ fault' \in {fault, "assert"}
        /\ ~foreign => fault' = fault
    BY <1>0, <2>4, <2>7, UpdateFacts DEF IInv
  <2>9. \A d \in Conns : registeredInEpoller_'[d] <=> registeredInEpoller_[d] \/ d = c
    BY <2>6, <2>8
  <2>10. \A d \in Conns : d # c => /\ seen'[d] = seen[d] /\ state_'[d] = state_[d]
                                   /\ events_'[d] = events_[d]
    BY <2>1, <2>8 DEF IInv, ConnTypes, EpollInv, EpollTypes
  <2>11. seen'[c] = Up /\ state_'[c] = "kConnected" /\ events_'[c] = events_[c] \cup {"R"}
    BY <2>1, <2>5, <2>6, <2>8 DEF IInv, ConnTypes, EpollInv, EpollTypes, Up
  <2>12. ConnTypes'
    <3>1. seen' \in [Conns -> {<<>>, Up, UpDown}]
      <4>1. Append(seen[c], "up") = Up
        BY <2>5 DEF Up
      <4> QED
        BY <4>1, <2>1 DEF IInv, ConnTypes
    <3>2. state_' \in [Conns -> States]
      BY <2>1 DEF IInv, ConnTypes, States
    <3> QED
      BY <3>1, <3>2, <2>1, <2>3, <2>8 DEF IInv, ConnTypes, Popped
  <2>13. Wire'
    BY <2>1, <2>10, <2>11 DEF IInv, Wire
  <2>14. Shut'
    BY <1>0, <2>1, <2>5, <2>10, <2>11 DEF IInv, Shut
  <2>15. Life'
    <3> SUFFICES ASSUME NEW d \in Conns
                 PROVE  /\ state_'[d] = "none" <=> d >= nextConnfd_
                        /\ state_'[d] = "none" =>
                             /\ d \notin live /\ events_'[d] = {} /\ ~closed[d]
                             /\ seen'[d] = <<>> /\ ~registeredInEpoller_'[d]
                        /\ d \in connections_ <=> state_'[d] # "none" /\ ~closed[d]
                        /\ state_'[d] # "none" /\ d \notin live => seen'[d] = UpDown
      BY <1>0, <2>1 DEF Life
    <3>1. CASE d = c
      BY <3>1, <2>4, <2>5, <2>11 DEF IInv, Life
    <3>2. CASE d # c
      BY <3>2, <2>9, <2>10 DEF IInv, Life
    <3> QED
      BY <3>1, <3>2
  <2>16. Births'
    <3>1. \A d \in Conns : d # c => (In(<<n, d>>, calls') <=> In(<<n, d>>, calls))
      BY <2>2, <2>3 DEF Popped
    <3>2. \A d \in Conns : /\ state_'[d] # "none" /\ seen'[d] = <<>> <=> In(<<n, d>>, calls')
                           /\ In(<<n, d>>, calls') => state_'[d] = "kConnecting" /\ ~closed[d]
      <4> TAKE d \in Conns
      <4>1. CASE d = c
        BY <4>1, <2>4, <2>11 DEF Up
      <4>2. CASE d # c
        BY <4>2, <3>1, <2>10 DEF IInv, Births
      <4> QED
        BY <4>1, <4>2
    <3>3. \A t \in Senders : sending[t] # Idle => seen'[sending[t][2]] # <<>>
      <4> SUFFICES ASSUME NEW t \in Senders, sending[t] # Idle PROVE seen'[sending[t][2]] # <<>>
        OBVIOUS
      <4>1. sending[t][2] \in Conns /\ seen[sending[t][2]] # <<>>
        BY DEF IInv, ServerTypes, Births, WeakFunctor
      <4> QED
        BY <4>1, <2>10, <2>11 DEF Up
    <3> QED
      BY <1>0, <2>1, <3>2, <3>3 DEF Births
  <2>17. Deaths'
    BY <1>0, <2>1, <2>5, <2>10 DEF IInv, Deaths
  <2>18. Stack'
    BY <1>0, <2>2, <2>3, PoppedStack DEF IInv
  <2>19. Reading'
    <3>1. \A d \in Conns : In(<<"handleRead", d>>, calls') => In(<<"handleRead", d>>, calls)
      BY <2>3 DEF Popped, CallNames
    <3>2. \A d \in Conns : d \in active => state_'[d] # "none"
      BY <2>10, <2>11 DEF IInv, Reading
    <3> QED
      BY <1>0, <2>1, <2>5, <2>10, <2>11, <3>1, <3>2 DEF IInv, Reading
  <2>20. OwnConn'
    <3> SUFFICES ASSUME ~foreign, NEW d \in Conns
                 PROVE  /\ seen'[d] = Up => registeredInEpoller_'[d]
                                            /\ state_'[d] \in {"kConnected", "kDisconnecting"}
                        /\ In(<<"removeChannel", d>>, calls') =>
                             registeredInEpoller_'[d] /\ events_'[d] = {} /\ seen'[d] = UpDown
                        /\ registeredInEpoller_'[d] =>
                             seen'[d] = Up \/ In(<<"removeChannel", d>>, calls')
                        /\ events_'[d] # {} => seen'[d] = Up
      BY <1>0 DEF OwnConn
    <3>1. In(<<"removeChannel", d>>, calls') <=> In(<<"removeChannel", d>>, calls)
      BY <2>3 DEF Popped, CallNames
    <3>2. In(<<"removeChannel", d>>, calls) => d # c
      BY <2>5 DEF IInv, OwnConn, UpDown
    <3>3. CASE d = c
      BY <3>1, <3>2, <3>3, <2>9, <2>11
    <3>4. CASE d # c
      BY <3>1, <3>4, <2>9, <2>10 DEF IInv, OwnConn
    <3> QED
      BY <3>3, <3>4
  <2>21. OwnFault'
    BY <1>0, <2>8 DEF IInv, OwnFault
  <2> QED
    BY <1>0, <2>1, <2>8, <2>12, <2>13, <2>14, <2>15, <2>16, <2>17, <2>18, <2>19, <2>20, <2>21,
       Frames DEF IInv
<1> QED
  BY <1>1, <1>2

(* handleClose with removeConnection (TcpConnection.cc:166-174,              *)
(* TcpServer.cc:81-93): only handleRead gets there, so the connection is up  *)
(* and was not closed before.                                                *)
LEMMA RemoveConnectionKeeps ==
  ASSUME IInv, fault = "none", NEW c \in Conns, removeConnection(c)
  PROVE  IInv'
<1> DEFINE n == "handleRead"
<1>1. /\ Called(n, c) /\ Return
      /\ disableAll(c, c \in connections_ /\ state_[c] \in {"kConnected", "kDisconnecting"})
      /\ closed' = [closed EXCEPT ![c] = TRUE]
      /\ pendingFunctors_' = Append(pendingFunctors_, Destroy(c))
      /\ connections_' = connections_ \ {c}
      /\ UNCHANGED <<state_, outputBuffer_, sock, sends, accepted, written, seen>>
      /\ UNCHANGED <<phase, active, revents_, batch, kept, nextConnfd_, live, sending, foreign,
                     backlog>>
  BY DEF removeConnection, AtEof, handleClose, queueInLoop, Destroy
<1>2. n \in CallNames
  BY DEF CallNames
<1>3. Popped(n, c)
  BY <1>1, <1>2, PoppedFacts DEF IInv
<1>4. c \in live /\ c < nextConnfd_ /\ state_[c] # "none" /\ c \notin active
      /\ ~In(<<n, c>>, calls')
  BY <1>2, <1>3, CalledLive
<1>5. ~closed[c] /\ seen[c] = Up
  BY <1>3, <1>4 DEF IInv, Reading, Popped
<1>6. PICK ev \in SUBSET {"R", "W"} : ev = {}
  OBVIOUS
<1>7. ~foreign => c \in connections_ /\ state_[c] \in {"kConnected", "kDisconnecting"}
  BY <1>4, <1>5 DEF IInv, Life, OwnConn
<1>8. update(c, ev, TRUE) \/ (foreign /\ update(c, ev, FALSE))
  BY <1>1, <1>6, <1>7 DEF disableAll, update, epollMod, epollAdd, Assert_
<1>9. /\ EpollInv'
      /\ fd' = fd /\ events_' = [events_ EXCEPT ![c] = {}]
      /\ \A d \in Conns : registeredInEpoller_'[d] <=> registeredInEpoller_[d]
      /\ fault' \in {fault, "assert"}
      /\ ~foreign => fault' = fault
  <2>1. EpollInv /\ c \in live /\ c < nextConnfd_ /\ live' = live
        /\ nextConnfd_' = nextConnfd_ /\ foreign' = foreign
    BY <1>1, <1>4 DEF IInv
  <2>2. /\ EpollInv'
        /\ fd' = fd /\ events_' = [events_ EXCEPT ![c] = ev]
        /\ \A d \in Conns : registeredInEpoller_'[d] <=>
                              registeredInEpoller_[d] \/ (d = c /\ ev # {})
        /\ fault' \in {fault, "assert"}
        /\ ~foreign => fault' = fault
    <3>1. CASE update(c, ev, TRUE)
      BY <2>1, <3>1, UpdateFacts
    <3>2. CASE foreign /\ update(c, ev, FALSE)
      BY <2>1, <3>2, UpdateFacts
    <3> QED
      BY <3>1, <3>2, <1>8
  <2> QED
    BY <2>2, <1>6
<1>10. \A d \in Conns : d # c => events_'[d] = events_[d] /\ (closed'[d] <=> closed[d])
  BY <1>1, <1>9 DEF IInv, ConnTypes, EpollInv, EpollTypes
<1>11. closed'[c] /\ events_'[c] = {}
  BY <1>1, <1>9 DEF IInv, ConnTypes, EpollInv, EpollTypes
<1>12. Destroy(c) \in Functor /\ Destroy(c)[1] \in Strong /\ Destroy(c)[2] = c
  BY BuffersAssumption DEF Destroy, Functor, Strong
<1>13. /\ pendingFunctors_' \in Seq(Functor)
       /\ \A x : In(x, pendingFunctors_') <=> In(x, pendingFunctors_) \/ x = Destroy(c)
       /\ \A x : Once(x, pendingFunctors_) /\ (x # Destroy(c) \/ ~In(x, pendingFunctors_))
                   => Once(x, pendingFunctors_')
  BY <1>1, <1>12, AppendFacts DEF IInv, ConnTypes
<1>14. ConnTypes'
  BY <1>1, <1>3, <1>9, <1>13 DEF IInv, ConnTypes, Popped
<1>15. ServerTypes'
  BY <1>1 DEF IInv, ServerTypes
<1>16. Wire'
  BY <1>1, <1>10, <1>11 DEF IInv, Wire
<1>17. Shut'
  BY <1>1, <1>10, <1>11 DEF IInv, Shut
<1>18. Life'
  <2>1. \A d \in Conns : d # c => (d \in connections_' <=> d \in connections_)
    BY <1>1
  <2> QED
    BY <1>1, <1>4, <1>9, <1>10, <1>11, <2>1 DEF IInv, Life
<1>19. Births'
  <2>1. \A d \in Conns : In(<<"connectEstablished", d>>, calls') <=>
                           In(<<"connectEstablished", d>>, calls)
    BY <1>3 DEF Popped, CallNames
  <2>2. ~In(<<"connectEstablished", c>>, calls)
    BY <1>5 DEF IInv, Births, Up
  <2> QED
    BY <1>1, <1>10, <2>1, <2>2 DEF IInv, Births
<1>20. Deaths'
  <2>1. \A d \in Conns : d # c => Destroy(d) # Destroy(c)
    BY DEF Destroy
  <2>2. ~In(Destroy(c), pendingFunctors_) /\ ~In(Destroy(c), batch)
    BY <1>5 DEF IInv, Deaths
  <2> SUFFICES ASSUME NEW d \in Conns
               PROVE  /\ In(Destroy(d), pendingFunctors_') \/ In(Destroy(d), batch) <=>
                           closed'[d] /\ seen[d] = Up
                      /\ Once(Destroy(d), pendingFunctors_') /\ Once(Destroy(d), batch)
                      /\ ~(In(Destroy(d), pendingFunctors_') /\ In(Destroy(d), batch))
    BY <1>1 DEF Deaths, Destroy
  <2>3. CASE d = c
    BY <2>2, <2>3, <1>5, <1>11, <1>13 DEF IInv, Deaths
  <2>4. CASE d # c
    BY <2>1, <2>4, <1>10, <1>13 DEF IInv, Deaths
  <2> QED
    BY <2>3, <2>4
<1>21. Held'
  BY <1>1, <1>4, <1>12, <1>13 DEF IInv, Held
<1>22. Stack'
  BY <1>1, <1>2, <1>3, PoppedStack DEF IInv
<1>23. Reading'
  <2>1. \A d \in Conns : In(<<n, d>>, calls') => In(<<n, d>>, calls) /\ d # c
    BY <1>2, <1>3, <1>4 DEF Popped
  <2> QED
    BY <1>1, <1>4, <1>10, <1>11, <2>1 DEF IInv, Reading
<1>24. OwnQueue'
  BY <1>1, <1>12, <1>13 DEF IInv, OwnQueue
<1>25. OwnConn'
  <2>1. \A d \in Conns : events_[d] = {} => events_'[d] = {}
    BY <1>10, <1>11
  <2> QED
    BY <1>1, <1>2, <1>3, <1>9, <2>1, PoppedOwnConn DEF IInv
<1>26. OwnFault'
  BY <1>1, <1>9 DEF IInv, OwnFault
<1> QED
  BY <1>9, <1>14, <1>15, <1>16, <1>17, <1>18, <1>19, <1>20, <1>21, <1>22, <1>23, <1>24, <1>25,
     <1>26 DEF IInv

-----------------------------------------------------------------------------
(* Writing.                                                                  *)

(* What a write takes fits in the send buffer; it fails after a shutdown.    *)
LEMMA WritesFacts ==
  ASSUME NEW s \in Socket, NEW k \in Nat
  PROVE  /\ Writes(s, k) \in Nat /\ Writes(s, k) <= k /\ Writes(s, k) <= s.room
         /\ Writes(s, k) > 0 => ~s.shutWr
<1>1. s.room \in 0 .. SndBuf
  BY DEF Socket
<1>2. Writes(s, k) \in Nat /\ Writes(s, k) <= k /\ Writes(s, k) <= s.room
  BY <1>1, BuffersAssumption DEF Writes
<1>3. Writes(s, k) > 0 => ~s.shutWr
  BY DEF Writes
<1> QED
  BY <1>2, <1>3

(* The room of the send buffer after a write (TcpConnection.cc:62, 134).     *)
LEMMA RoomFacts ==
  ASSUME NEW s \in Socket, NEW k \in Nat, k <= s.room
  PROVE  /\ [s EXCEPT !.room = @ - k] \in Socket
         /\ [s EXCEPT !.room = @ - k].shutWr = s.shutWr
<1>1. s.room \in 0 .. SndBuf
  BY DEF Socket
<1>2. PICK m \in 0 .. SndBuf : m = s.room - k
  BY <1>1, BuffersAssumption
<1>3. [s EXCEPT !.room = m] \in Socket /\ [s EXCEPT !.room = m].shutWr = s.shutWr
  BY DEF Socket
<1> QED
  BY <1>2, <1>3

(* The two parts of what is written.                                         *)
LEMMA SplitFacts ==
  ASSUME NEW o \in Seq(Nat), NEW w \in Seq(Nat), NEW n \in Nat, n <= Len(o)
  PROVE  /\ SubSeq(o, 1, n) \in Seq(Nat) /\ SubSeq(o, n + 1, Len(o)) \in Seq(Nat)
         /\ w \o SubSeq(o, 1, n) \in Seq(Nat)
         /\ (w \o SubSeq(o, 1, n)) \o SubSeq(o, n + 1, Len(o)) = w \o o
         /\ n = Len(o) => SubSeq(o, n + 1, Len(o)) = <<>>
<1>1. Len(o) \in Nat /\ \A i \in 1 .. Len(o) : o[i] \in Nat
  BY LenProperties, ElementOfSeq
<1> DEFINE a == SubSeq(o, 1, n)
           b == SubSeq(o, n + 1, Len(o))
<1>2. a \in Seq(Nat) /\ Len(a) = n /\ \A i \in 1 .. n : a[i] = o[i]
  BY <1>1, SubSeqProperties
<1>3. b \in Seq(Nat) /\ Len(b) = Len(o) - n /\ \A i \in 1 .. Len(o) - n : b[i] = o[n + i]
  BY <1>1, SubSeqProperties
<1> HIDE DEF a, b
<1>4. a \o b \in Seq(Nat) /\ Len(a \o b) = Len(o)
      /\ \A i \in 1 .. Len(o) : (a \o b)[i] = IF i <= n THEN a[i] ELSE b[i - n]
  BY <1>1, <1>2, <1>3, ConcatProperties
<1>5. \A i \in 1 .. Len(o) : (a \o b)[i] = o[i]
  BY <1>1, <1>2, <1>3, <1>4
<1>6. a \o b = o
  BY <1>4, <1>5, SeqEqual
<1>7. w \o a \in Seq(Nat) /\ (w \o a) \o b = w \o (a \o b)
  <2>1. w \o a \in Seq(Nat)
    BY <1>2, ConcatProperties
  <2>2. a \in Seq(Nat) /\ b \in Seq(Nat)
    BY <1>2, <1>3
  <2>3. (w \o a) \o b = w \o (a \o b)
    BY <2>2, ConcatAssociative
  <2> QED
    BY <2>1, <2>3
<1>8. n = Len(o) => b = <<>>
  BY <1>1, <1>3, EmptySeq
<1> QED
  BY <1>2, <1>3, <1>6, <1>7, <1>8 DEF a, b

(* The two parts of a message that sendInLoop writes and buffers             *)
(* (TcpConnection.cc:62-85).                                                 *)
LEMMA MessageFacts ==
  ASSUME NEW m \in 1 .. MaxSends
  PROVE  /\ Message(m) \in Seq(Nat)
         /\ \A k \in 0 .. 2 : /\ SubSeq(Message(m), 1, k) \in Seq(Nat)
                              /\ SubSeq(Message(m), k + 1, 2) \in Seq(Nat)
         /\ SubSeq(Message(m), 1, 0) = <<>>
         /\ SubSeq(Message(m), 1, 2) = Message(m)
<1>1. 2 * m - 1 \in Nat /\ 2 * m \in Nat
  BY BuffersAssumption
<1>2. PICK a \in Nat, b \in Nat : Message(m) = <<a, b>>
  BY <1>1 DEF Message
<1> DEFINE M == <<a, b>>
<1>3. M \in Seq(Nat) /\ Len(M) = 2 /\ M[1] = a /\ M[2] = b
  OBVIOUS
<1> HIDE DEF M
<1>4. \A k \in 0 .. 2 : SubSeq(M, 1, k) \in Seq(Nat) /\ SubSeq(M, k + 1, 2) \in Seq(Nat)
  <2> TAKE k \in 0 .. 2
  <2>1. \A i \in 1 .. 2 : M[i] \in Nat
    BY <1>3
  <2>2. /\ \A i \in 1 .. k : M[i] \in Nat
        /\ \A i \in k + 1 .. 2 : M[i] \in Nat
    BY <2>1
  <2> QED
    BY <2>2, SubSeqProperties
<1>5. SubSeq(M, 1, 0) = <<>>
  BY SubSeqEmpty
<1>6. SubSeq(M, 1, 2) = M
  <2>1. \A i \in 1 .. 2 : M[i] \in Nat
    BY <1>3
  <2>2. SubSeq(M, 1, 2) \in Seq(Nat) /\ Len(SubSeq(M, 1, 2)) = 2
        /\ \A i \in 1 .. 2 : SubSeq(M, 1, 2)[i] = M[i]
    BY <2>1, SubSeqProperties
  <2> QED
    BY <2>2, <1>3, SeqEqual
<1> QED
  BY <1>2, <1>3, <1>4, <1>5, <1>6 DEF M

(* No functor comes into batch, and no connectDestoryed leaves it.           *)
BatchShrinks ==
  /\ \A x : In(x, batch') => In(x, batch)
  /\ \A d \in Conns : /\ In(Destroy(d), batch) => In(Destroy(d), batch')
                      /\ Once(Destroy(d), batch) => Once(Destroy(d), batch')

(* What a queued functor other than connectDestoryed keeps, and one that is  *)
(* taken from batch.                                                         *)
LEMMA QueuedFacts ==
  ASSUME ConnTypes, Deaths, Held, OwnQueue, NEW f \in Functor, f[1] # "connectDestoryed",
         f[2] \in live, f[1] \in Strong, BatchShrinks,
         pendingFunctors_' \in {pendingFunctors_, Append(pendingFunctors_, f)},
         UNCHANGED <<closed, seen, live, kept, foreign, sending, active>>
  PROVE  pendingFunctors_' \in Seq(Functor) /\ Deaths' /\ Held' /\ OwnQueue'
<1>1. /\ pendingFunctors_' \in Seq(Functor)
      /\ \A x : In(x, pendingFunctors_') => In(x, pendingFunctors_) \/ x = f
      /\ \A x : In(x, pendingFunctors_) => In(x, pendingFunctors_')
      /\ \A x : Once(x, pendingFunctors_) /\ x # f => Once(x, pendingFunctors_')
  <2>1. pendingFunctors_ \in Seq(Functor)
    BY DEF ConnTypes
  <2>2. CASE pendingFunctors_' = pendingFunctors_
    BY <2>1, <2>2
  <2>3. CASE pendingFunctors_' = Append(pendingFunctors_, f)
    BY <2>1, <2>3, AppendFacts
  <2> QED
    BY <2>2, <2>3
<1>2. \A d \in Conns : Destroy(d) # f
  BY DEF Destroy
<1>3. Deaths'
  <2> SUFFICES ASSUME NEW d \in Conns
               PROVE  /\ In(Destroy(d), pendingFunctors_') \/ In(Destroy(d), batch') <=>
                           closed[d] /\ seen[d] = Up
                      /\ Once(Destroy(d), pendingFunctors_') /\ Once(Destroy(d), batch')
                      /\ ~(In(Destroy(d), pendingFunctors_') /\ In(Destroy(d), batch'))
    BY DEF Deaths, Destroy
  <2> QED
    BY <1>1, <1>2 DEF Deaths, BatchShrinks
<1>4. Held'
  BY <1>1 DEF Held, BatchShrinks
<1>5. OwnQueue'
  BY <1>1 DEF OwnQueue, BatchShrinks
<1> QED
  BY <1>1, <1>3, <1>4, <1>5

(* handleWrite (TcpConnection.cc:130-157): what the socket takes leaves the  *)
(* front of the output buffer; when that was all, write events end and the   *)
(* shutdown that waited is done.                                             *)
LEMMA HandleWriteKeeps ==
  ASSUME IInv, fault = "none", NEW c \in Conns, handleWrite(c), UNCHANGED serverVars
  PROVE  IInv'
<1> DEFINE nm == "handleWrite"
<1>0. UNCHANGED <<phase, active, revents_, batch, kept, nextConnfd_, connections_, live,
                  sending, foreign, backlog>>
  BY DEF serverVars
<1>1. /\ Called(nm, c) /\ Return /\ UNCHANGED <<state_, sends, accepted, closed, seen>>
  BY DEF handleWrite
<1>2. nm \in CallNames /\ nm # "connectEstablished" /\ nm # "removeChannel"
  BY DEF CallNames
<1>3. Popped(nm, c)
  BY <1>1, <1>2, PoppedFacts DEF IInv
<1>4. c \in live /\ c < nextConnfd_ /\ state_[c] # "none"
  BY <1>2, <1>3, CalledLive
<1>5. Stack' /\ Births'
  BY <1>0, <1>1, <1>2, <1>3, PoppedStack, PoppedBirths DEF IInv
<1>6. PICK o \in Seq(Nat) : o = outputBuffer_[c]
  BY DEF IInv, ConnTypes
<1>7. PICK w \in Seq(Nat) : w = written[c]
  BY DEF IInv, ConnTypes
<1>8. sock[c] \in Socket /\ Len(o) \in Nat
  BY LenProperties DEF IInv, ConnTypes
<1>9. PICK k \in Nat : /\ k = Writes(sock[c], Len(o)) /\ k <= Len(o) /\ k <= sock[c].room
                       /\ k > 0 => ~sock[c].shutWr
  BY <1>8, WritesFacts
<1>10. CASE ~(isWriting(c) /\ k > 0)
  <2>1. UNCHANGED <<epollVars, outputBuffer_, sock, pendingFunctors_, written>>
    BY <1>6, <1>9, <1>10 DEF handleWrite
  <2>2. ConnTypes'
    BY <1>1, <1>3, <2>1 DEF IInv, ConnTypes, Popped, epollVars
  <2>3. Reading'
    BY <1>0, <1>1, <1>2, <1>3, <2>1, PoppedReading DEF IInv, epollVars
  <2>4. OwnConn'
    BY <1>0, <1>1, <1>2, <1>3, <2>1, PoppedOwnConn DEF IInv, epollVars
  <2> QED
    BY <1>0, <1>1, <1>5, <2>1, <2>2, <2>3, <2>4, Frames DEF IInv, epollVars
<1>11. CASE isWriting(c) /\ k > 0
  <2>1. /\ written' = [written EXCEPT ![c] = w \o SubSeq(o, 1, k)]
        /\ outputBuffer_' = [outputBuffer_ EXCEPT ![c] = SubSeq(o, k + 1, Len(o))]
    BY <1>6, <1>7, <1>9, <1>11 DEF handleWrite
  <2>2. sock' = [sock EXCEPT ![c].room = @ - k,
                             ![c].shutWr = @ \/ (k = Len(o) /\ state_[c] = "kDisconnecting")]
    BY <1>6, <1>9, <1>11 DEF handleWrite
  <2>3. IF k = Len(o)
        THEN /\ disableWriting(c)
             /\ pendingFunctors_' = Append(pendingFunctors_, <<"writeComplete", c, 0>>)
        ELSE UNCHANGED <<epollVars, pendingFunctors_>>
    BY <1>6, <1>9, <1>11 DEF handleWrite, queueInLoop
  <2>4. /\ SubSeq(o, 1, k) \in Seq(Nat) /\ SubSeq(o, k + 1, Len(o)) \in Seq(Nat)
        /\ w \o SubSeq(o, 1, k) \in Seq(Nat)
        /\ (w \o SubSeq(o, 1, k)) \o SubSeq(o, k + 1, Len(o)) = w \o o
        /\ k = Len(o) => SubSeq(o, k + 1, Len(o)) = <<>>
    BY <1>9, SplitFacts
  <2>5. /\ outputBuffer_'[c] = SubSeq(o, k + 1, Len(o))
        /\ written'[c] = w \o SubSeq(o, 1, k)
        /\ \A d \in Conns : d # c => outputBuffer_'[d] = outputBuffer_[d] /\ written'[d] = written[d]
    BY <2>1 DEF IInv, ConnTypes
  <2>6. /\ outputBuffer_' \in [Conns -> Seq(Nat)]
        /\ written' \in [Conns -> Seq(Nat)]
    BY <2>1, <2>4 DEF IInv, ConnTypes
  <2>7. /\ sock' \in [Conns -> Socket]
        /\ \A d \in Conns : d # c => sock'[d] = sock[d]
        /\ sock'[c].shutWr => k = Len(o) /\ state_[c] = "kDisconnecting"
    <3>1. PICK r \in Socket : r = [sock[c] EXCEPT !.room = @ - k]
      BY <1>8, <1>9, RoomFacts
    <3>2. ~sock[c].shutWr
      BY <1>9, <1>11
    <3>3. PICK b \in BOOLEAN : b <=> k = Len(o) /\ state_[c] = "kDisconnecting"
      OBVIOUS
    <3>4. PICK s : s = [r EXCEPT !.shutWr = b]
      OBVIOUS
    <3>5. s \in Socket /\ s.shutWr = b
      BY <3>4 DEF Socket
    <3>6. sock' = [sock EXCEPT ![c] = s]
      <4>1. s = [sock[c] EXCEPT !.room = @ - k,
                                !.shutWr = @ \/ (k = Len(o) /\ state_[c] = "kDisconnecting")]
        BY <1>8, <3>1, <3>2, <3>3, <3>4 DEF Socket
      <4> QED
        BY <4>1, <2>2
    <3> QED
      BY <3>3, <3>5, <3>6 DEF IInv, ConnTypes
  <2>8. Shut'
    BY <1>0, <1>1, <2>4, <2>5, <2>7 DEF IInv, Shut
  <2>9. "W" \in events_[c]
    BY <1>11 DEF isWriting
  <2>10. ~foreign => registeredInEpoller_[c]
    BY <2>9 DEF IInv, OwnConn
  <2>11. /\ EpollInv'
         /\ \A d \in Conns : events_'[d] = IF d = c /\ k = Len(o) THEN events_[d] \ {"W"}
                                                                  ELSE events_[d]
         /\ \A d \in Conns : d # c => (registeredInEpoller_'[d] <=> registeredInEpoller_[d])
         /\ registeredInEpoller_[c] => registeredInEpoller_'[c]
         /\ fault' \in {fault, "assert"}
         /\ ~foreign => fault' = fault
    <3>1. CASE k = Len(o)
      <4>1. PICK ev \in SUBSET {"R", "W"} : ev = events_[c] \ {"W"}
        BY DEF IInv, EpollInv, EpollTypes
      <4>2. update(c, ev, TRUE)
        BY <4>1, <3>1, <2>3 DEF disableWriting
      <4>3. /\ EpollInv'
            /\ events_' = [events_ EXCEPT ![c] = ev]
            /\ \A d \in Conns : registeredInEpoller_'[d] <=>
                                  registeredInEpoller_[d] \/ (d = c /\ ev # {})
            /\ fault' \in {fault, "assert"}
            /\ ~foreign => fault' = fault
        BY <1>0, <1>4, <4>2, UpdateFacts DEF IInv
      <4>4. \A d \in Conns : events_'[d] = IF d = c THEN events_[d] \ {"W"} ELSE events_[d]
        BY <4>1, <4>3 DEF IInv, EpollInv, EpollTypes
      <4> QED
        BY <3>1, <4>3, <4>4
    <3>2. CASE k # Len(o)
      <4>1. UNCHANGED epollVars
        BY <3>2, <2>3
      <4>2. EpollInv'
        BY <1>0, <4>1, Frames DEF IInv, epollVars
      <4> QED
        BY <3>2, <4>1, <4>2 DEF epollVars
    <3> QED
      BY <3>1, <3>2
  <2>12. pendingFunctors_' \in Seq(Functor) /\ Deaths' /\ Held' /\ OwnQueue'
    <3>1. CASE k = Len(o)
      <4>1. PICK f \in Functor : f = <<"writeComplete", c, 0>>
        <5>1. <<"writeComplete", c, 0>> \in Functor
          BY BuffersAssumption DEF Functor, Strong
        <5> QED
          BY <5>1
      <4>2. f[1] # "connectDestoryed" /\ f[2] \in live /\ f[1] \in Strong
        BY <4>1, <1>4 DEF Strong
      <4>3. pendingFunctors_' = Append(pendingFunctors_, f)
        BY <4>1, <3>1, <2>3
      <4>4. BatchShrinks
        BY <1>0 DEF BatchShrinks
      <4> QED
        BY <1>0, <1>1, <4>2, <4>3, <4>4, QueuedFacts DEF IInv
    <3>2. CASE k # Len(o)
      <4>1. pendingFunctors_' = pendingFunctors_
        BY <3>2, <2>3
      <4> QED
        BY <1>0, <1>1, <4>1, Frames DEF IInv, ConnTypes
    <3> QED
      BY <3>1, <3>2
  <2>13. ConnTypes'
    BY <1>1, <1>3, <2>6, <2>7, <2>11, <2>12 DEF IInv, ConnTypes, Popped
  <2>14. Wire'
    <3> SUFFICES ASSUME NEW d \in Conns, ~closed[d]
                 PROVE  /\ written'[d] \o outputBuffer_'[d] = accepted[d]
                        /\ outputBuffer_'[d] # <<>> => "W" \in events_'[d]
      BY <1>1 DEF Wire
    <3>1. CASE d = c
      <4>1. w \o o = accepted[c]
        BY <3>1, <1>6, <1>7 DEF IInv, Wire
      <4> QED
        BY <3>1, <4>1, <2>4, <2>5, <2>9, <2>11
    <3>2. CASE d # c
      BY <3>2, <2>5, <2>11 DEF IInv, Wire
    <3> QED
      BY <3>1, <3>2
  <2>15. Life'
    BY <1>0, <1>1, <1>4, <2>11 DEF IInv, Life
  <2>16. Reading'
    BY <1>0, <1>1, <1>2, <1>3, <2>11, PoppedReading DEF IInv
  <2>17. OwnConn'
    <3>1. CASE foreign
      BY <3>1, <1>0 DEF OwnConn
    <3>2. CASE ~foreign
      <4>1. \A d \in Conns : /\ registeredInEpoller_'[d] <=> registeredInEpoller_[d]
                             /\ events_[d] = {} => events_'[d] = {}
        BY <3>2, <2>10, <2>11
      <4> QED
        BY <1>0, <1>1, <1>2, <1>3, <4>1, PoppedOwnConn DEF IInv
    <3> QED
      BY <3>1, <3>2
  <2>18. OwnFault'
    BY <1>0, <2>11 DEF IInv, OwnFault
  <2>19. ServerTypes'
    BY <1>0, Frames DEF IInv
  <2> QED
    BY <1>5, <2>8, <2>11, <2>12, <2>13, <2>14, <2>15, <2>16, <2>17, <2>18, <2>19 DEF IInv
<1> QED
  BY <1>10, <1>11

(* sendInLoop (TcpConnection.cc:57-86) on a connection that exists.  What is *)
(* still buffered goes first: as long as the connection is not closed, the   *)
(* direct write is not taken.                                                *)
LEMMA SendInLoopFacts ==
  ASSUME IInv, NEW c \in Conns, c \in live, NEW m \in 1 .. MaxSends, sendInLoop(c, m),
         UNCHANGED <<state_, closed, foreign, live, nextConnfd_>>,
         ~foreign => state_[c] = "kConnected"
  PROVE  /\ EpollInv' /\ Wire' /\ Shut'
         /\ outputBuffer_' \in [Conns -> Seq(Nat)]
         /\ accepted' \in [Conns -> Seq(Nat)]
         /\ written' \in [Conns -> Seq(Nat)]
         /\ sock' \in [Conns -> Socket]
         /\ pendingFunctors_' \in {pendingFunctors_,
                                   Append(pendingFunctors_, <<"writeComplete", c, 0>>)}
         /\ \A d \in Conns : d # c => /\ events_'[d] = events_[d]
                                      /\ registeredInEpoller_'[d] <=> registeredInEpoller_[d]
         /\ "R" \in events_'[c] => "R" \in events_[c]
         /\ registeredInEpoller_[c] => registeredInEpoller_'[c]
         /\ fault' \in {fault, "assert"}
         /\ ~foreign => fault' = fault
<1> DEFINE M == Message(m)
           direct == ~isWriting(c) /\ outputBuffer_[c] # <<>>
<1>1. sock[c] \in Socket /\ outputBuffer_[c] \in Seq(Nat) /\ accepted[c] \in Seq(Nat)
      /\ written[c] \in Seq(Nat)
  BY DEF IInv, ConnTypes
<1>2. PICK k \in 0 .. 2 : /\ k = IF direct THEN Writes(sock[c], 2) ELSE 0
                          /\ k <= sock[c].room /\ (k > 0 => ~sock[c].shutWr)
  <2>1. /\ Writes(sock[c], 2) \in Nat /\ Writes(sock[c], 2) <= 2
        /\ Writes(sock[c], 2) <= sock[c].room
        /\ Writes(sock[c], 2) > 0 => ~sock[c].shutWr
    BY <1>1, WritesFacts
  <2>2. 0 <= sock[c].room
    BY <1>1, BuffersAssumption DEF Socket
  <2>3. CASE direct
    BY <2>1, <2>3
  <2>4. CASE ~direct
    BY <2>2, <2>4
  <2> QED
    BY <2>3, <2>4
<1>3. /\ accepted' = [accepted EXCEPT ![c] = accepted[c] \o M]
      /\ written' = [written EXCEPT ![c] = written[c] \o SubSeq(M, 1, k)]
      /\ sock' = [sock EXCEPT ![c].room = @ - k]
      /\ outputBuffer_' = [outputBuffer_ EXCEPT ![c] = outputBuffer_[c] \o SubSeq(M, k + 1, 2)]
      /\ IF k = 2 THEN queueInLoop(<<"writeComplete", c, 0>>) ELSE UNCHANGED pendingFunctors_
      /\ IF k < 2 /\ ~isWriting(c) THEN enableWriting(c) ELSE UNCHANGED epollVars
  BY <1>2 DEF sendInLoop
<1>4. /\ M \in Seq(Nat) /\ SubSeq(M, 1, k) \in Seq(Nat) /\ SubSeq(M, k + 1, 2) \in Seq(Nat)
      /\ SubSeq(M, 1, 0) = <<>> /\ SubSeq(M, 1, 2) = M
  BY MessageFacts
<1>5. ~closed[c] => k = 0
  <2>1. ~closed[c] => ~direct
    BY DEF IInv, Wire, isWriting
  <2> QED
    BY <2>1, <1>2
<1> HIDE DEF M, direct
<1>6. /\ accepted[c] \o M \in Seq(Nat)
      /\ written[c] \o SubSeq(M, 1, k) \in Seq(Nat)
      /\ outputBuffer_[c] \o SubSeq(M, k + 1, 2) \in Seq(Nat)
  BY <1>1, <1>4, ConcatProperties
<1>7. /\ outputBuffer_' \in [Conns -> Seq(Nat)]
      /\ accepted' \in [Conns -> Seq(Nat)]
      /\ written' \in [Conns -> Seq(Nat)]
  BY <1>3, <1>6 DEF IInv, ConnTypes
<1>8. /\ \A d \in Conns : d # c => /\ outputBuffer_'[d] = outputBuffer_[d]
                                   /\ written'[d] = written[d] /\ accepted'[d] = accepted[d]
      /\ accepted'[c] = accepted[c] \o M
      /\ written'[c] = written[c] \o SubSeq(M, 1, k)
      /\ outputBuffer_'[c] = outputBuffer_[c] \o SubSeq(M, k + 1, 2)
  BY <1>3 DEF IInv, ConnTypes
<1>9. sock' \in [Conns -> Socket] /\ \A d \in Conns : sock'[d].shutWr = sock[d].shutWr
  <2>1. PICK r \in Socket : r = [sock[c] EXCEPT !.room = @ - k] /\ r.shutWr = sock[c].shutWr
    <3>1. k \in Nat /\ k <= sock[c].room /\ sock[c] \in Socket
      BY <1>1, <1>2
    <3>2. /\ [sock[c] EXCEPT !.room = @ - k] \in Socket
          /\ [sock[c] EXCEPT !.room = @ - k].shutWr = sock[c].shutWr
      BY <3>1, RoomFacts
    <3> QED
      BY <3>2
  <2>2. sock' = [sock EXCEPT ![c] = r]
    BY <2>1, <1>3
  <2> QED
    BY <2>1, <2>2 DEF IInv, ConnTypes
<1>10. pendingFunctors_' \in {pendingFunctors_,
                              Append(pendingFunctors_, <<"writeComplete", c, 0>>)}
  BY <1>3 DEF queueInLoop
<1>11. /\ EpollInv'
       /\ \A d \in Conns : events_'[d] = IF d = c /\ k < 2 THEN events_[d] \cup {"W"}
                                                           ELSE events_[d]
       /\ \A d \in Conns : d # c => (registeredInEpoller_'[d] <=> registeredInEpoller_[d])
       /\ registeredInEpoller_[c] => registeredInEpoller_'[c]
       /\ fault' \in {fault, "assert"}
       /\ ~foreign => fault' = fault
  <2>1. CASE k < 2 /\ ~isWriting(c)
    <3>1. PICK ev \in SUBSET {"R", "W"} : ev = events_[c] \cup {"W"}
      BY DEF IInv, EpollInv, EpollTypes
    <3>2. update(c, ev, TRUE)
      BY <3>1, <2>1, <1>3 DEF enableWriting
    <3>3. c < nextConnfd_
      BY LiveNumbered DEF IInv, EpollInv
    <3>4. /\ EpollInv'
          /\ events_' = [events_ EXCEPT ![c] = ev]
          /\ \A d \in Conns : registeredInEpoller_'[d] <=>
                                registeredInEpoller_[d] \/ (d = c /\ ev # {})
          /\ fault' \in {fault, "assert"}
          /\ ~foreign => fault' = fault
      BY <3>2, <3>3, UpdateFacts DEF IInv
    <3>5. \A d \in Conns : events_'[d] = IF d = c THEN events_[d] \cup {"W"} ELSE events_[d]
      BY <3>1, <3>4 DEF IInv, EpollInv, EpollTypes
    <3> QED
      BY <2>1, <3>4, <3>5
  <2>2. CASE ~(k < 2 /\ ~isWriting(c))
    <3>1. UNCHANGED epollVars
      BY <2>2, <1>3
    <3>2. EpollInv'
      BY <3>1, Frames DEF IInv, epollVars
    <3>3. k < 2 => events_[c] = events_[c] \cup {"W"}
      BY <2>2 DEF isWriting
    <3> QED
      BY <3>1, <3>2, <3>3 DEF epollVars
  <2> QED
    BY <2>1, <2>2
<1>12. Wire'
  <2> SUFFICES ASSUME NEW d \in Conns, ~closed[d]
               PROVE  /\ written'[d] \o outputBuffer_'[d] = accepted'[d]
                      /\ outputBuffer_'[d] # <<>> => "W" \in events_'[d]
    BY DEF Wire
  <2>1. CASE d = c
    <3>1. k = 0
      BY <2>1, <1>5
    <3>2. SubSeq(M, 1, k) = <<>> /\ SubSeq(M, k + 1, 2) = M
      BY <3>1, <1>4
    <3>3. written'[c] = written[c] /\ outputBuffer_'[c] = outputBuffer_[c] \o M
      BY <3>2, <1>1, <1>8, ConcatEmptySeq
    <3>4. written[c] \o outputBuffer_[c] = accepted[c]
      BY <2>1 DEF IInv, Wire
    <3>5. written[c] \o (outputBuffer_[c] \o M) = (written[c] \o outputBuffer_[c]) \o M
      <4>1. \A a, b, e \in Seq(Nat) : a \o (b \o e) = (a \o b) \o e
        BY ConcatAssociative
      <4>2. M \in Seq(Nat) /\ written[c] \in Seq(Nat) /\ outputBuffer_[c] \in Seq(Nat)
        BY <1>1, <1>4
      <4> QED
        BY <4>1, <4>2, Zenon
    <3>6. "W" \in events_'[c]
      <4>1. k < 2
        BY <3>1
      <4>2. events_'[c] = events_[c] \cup {"W"}
        BY <4>1, <1>11
      <4> QED
        BY <4>2
    <3> QED
      BY <2>1, <3>3, <3>4, <3>5, <3>6, <1>8
  <2>2. CASE d # c
    BY <2>2, <1>8, <1>11 DEF IInv, Wire
  <2> QED
    BY <2>1, <2>2
<1>13. Shut'
  <2> SUFFICES ASSUME ~foreign, NEW d \in Conns, sock'[d].shutWr
               PROVE  /\ state_[d] \in {"kDisconnecting", "kDisConnected"}
                      /\ ~closed[d] => outputBuffer_'[d] = <<>>
    BY DEF Shut
  <2>1. sock[d].shutWr
    BY <1>9
  <2>2. d # c
    BY <2>1 DEF IInv, Shut
  <2> QED
    BY <2>1, <2>2, <1>8 DEF IInv, Shut
<1>14. \A d \in Conns : d # c => events_'[d] = events_[d]
  BY <1>11
<1>15. "R" \in events_'[c] => "R" \in events_[c]
  <2>1. events_'[c] \in {events_[c], events_[c] \cup {"W"}}
    BY <1>11
  <2> QED
    BY <2>1
<1>16. /\ EpollInv'
       /\ \A d \in Conns : d # c => (registeredInEpoller_'[d] <=> registeredInEpoller_[d])
       /\ registeredInEpoller_[c] => registeredInEpoller_'[c]
       /\ fault' \in {fault, "assert"}
       /\ ~foreign => fault' = fault
  BY <1>11
<1>17. sock' \in [Conns -> Socket]
  BY <1>9
<1> QED
  BY <1>7, <1>10, <1>12, <1>13, <1>14, <1>15, <1>16, <1>17

(* shutdownInLoop (TcpConnection.cc:97-103) waits for the output buffer.     *)
LEMMA ShutdownInLoopFacts ==
  ASSUME ConnTypes, Wire, Shut, NEW c \in Conns, shutdownInLoop(c),
         UNCHANGED <<closed, outputBuffer_, foreign>>,
         \A d \in Conns : d # c => state_'[d] = state_[d],
         ~foreign => state_'[c] = "kDisconnecting"
  PROVE  sock' \in [Conns -> Socket] /\ Shut'
<1>1. sock' \in [Conns -> Socket]
  BY SocketFacts DEF shutdownInLoop, shutdownWrite, ConnTypes
<1>2. \A d \in Conns : d # c => sock'[d] = sock[d]
  BY DEF shutdownInLoop, ConnTypes
<1>3. "W" \in events_[c] => sock'[c] = sock[c]
  BY DEF shutdownInLoop, isWriting
<1>4. "W" \notin events_[c] /\ ~closed[c] => outputBuffer_[c] = <<>>
  BY DEF Wire
<1>5. Shut'
  <2> SUFFICES ASSUME ~foreign, NEW d \in Conns, sock'[d].shutWr
               PROVE  /\ state_'[d] \in {"kDisconnecting", "kDisConnected"}
                      /\ ~closed[d] => outputBuffer_[d] = <<>>
    BY DEF Shut
  <2>1. CASE d # c
    BY <2>1, <1>2 DEF Shut
  <2>2. CASE d = c
    BY <2>2, <1>3, <1>4 DEF Shut
  <2> QED
    BY <2>1, <2>2
<1> QED
  BY <1>1, <1>5

(* A fault ends the process, whatever the calls are.                         *)
LEMMA StackFault ==
  ASSUME Stack, fault = "none", UNCHANGED <<phase, calls, active, batch, kept, live>>
  PROVE  Stack'
BY DEF Stack

(* send and shutdown in the loop's thread (TcpConnection.cc:45-55, 88-95):   *)
(* the application uses a connection that it was told is up.                 *)
LEMMA ClientSendKeeps ==
  ASSUME IInv, fault = "none", NEW c \in Known, send(c), UNCHANGED serverVars
  PROVE  IInv'
<1>0. UNCHANGED <<phase, active, revents_, batch, kept, nextConnfd_, connections_, live,
                  sending, foreign, backlog>>
  BY DEF serverVars
<1>1. c \in Conns /\ c \in live /\ seen[c] = Up /\ state_[c] = "kConnected"
  BY DEF Known, IInv, EpollInv, EpollTypes, Up, send
<1>2. UNCHANGED <<state_, calls, closed, seen>> /\ sends' \in 0 .. MaxSends
  BY BuffersAssumption DEF IInv, ConnTypes, send
<1>3. PICK m \in 1 .. MaxSends : sendInLoop(c, m)
  BY BuffersAssumption DEF IInv, ConnTypes, send
<1>4. /\ EpollInv' /\ Wire' /\ Shut'
      /\ outputBuffer_' \in [Conns -> Seq(Nat)]
      /\ accepted' \in [Conns -> Seq(Nat)]
      /\ written' \in [Conns -> Seq(Nat)]
      /\ sock' \in [Conns -> Socket]
      /\ pendingFunctors_' \in {pendingFunctors_,
                                Append(pendingFunctors_, <<"writeComplete", c, 0>>)}
      /\ \A d \in Conns : d # c => /\ events_'[d] = events_[d]
                                   /\ registeredInEpoller_'[d] <=> registeredInEpoller_[d]
      /\ "R" \in events_'[c] => "R" \in events_[c]
      /\ registeredInEpoller_[c] => registeredInEpoller_'[c]
      /\ fault' \in {fault, "assert"}
      /\ ~foreign => fault' = fault
  BY <1>0, <1>1, <1>2, <1>3, SendInLoopFacts
<1>5. pendingFunctors_' \in Seq(Functor) /\ Deaths' /\ Held' /\ OwnQueue'
  <2>1. <<"writeComplete", c, 0>> \in Functor
    BY <1>1, BuffersAssumption DEF Functor, Strong
  <2>2. PICK f \in Functor : f = <<"writeComplete", c, 0>>
    BY <2>1
  <2>3. f[1] # "connectDestoryed" /\ f[2] \in live /\ f[1] \in Strong
    BY <2>2, <1>1 DEF Strong
  <2>4. BatchShrinks
    BY <1>0 DEF BatchShrinks
  <2> QED
    BY <1>0, <1>2, <1>4, <2>2, <2>3, <2>4, QueuedFacts DEF IInv
<1>6. ConnTypes'
  BY <1>2, <1>4, <1>5 DEF IInv, ConnTypes
<1>7. Life'
  <2>1. state_[c] # "none"
    BY <1>1
  <2> QED
    BY <1>0, <1>2, <1>4, <2>1 DEF IInv, Life
<1>8. Stack'
  BY <1>0, <1>2, StackFault DEF IInv
<1>9. Reading'
  <2>1. \A d \in Conns : "R" \in events_'[d] => "R" \in events_[d]
    BY <1>4
  <2> QED
    BY <1>0, <1>2, <2>1 DEF IInv, Reading
<1>10. OwnConn'
  <2> SUFFICES ASSUME ~foreign, NEW d \in Conns
               PROVE  /\ seen[d] = Up => registeredInEpoller_'[d]
                                         /\ state_[d] \in {"kConnected", "kDisconnecting"}
                      /\ In(<<"removeChannel", d>>, calls) =>
                           registeredInEpoller_'[d] /\ events_'[d] = {} /\ seen[d] = UpDown
                      /\ registeredInEpoller_'[d] =>
                           seen[d] = Up \/ In(<<"removeChannel", d>>, calls)
                      /\ events_'[d] # {} => seen[d] = Up
    BY <1>0, <1>2 DEF OwnConn
  <2>1. CASE d = c
    <3>1. Up # UpDown
      BY DEF Up, UpDown
    <3>2. registeredInEpoller_[c] /\ ~In(<<"removeChannel", c>>, calls)
      BY <3>1, <1>1 DEF IInv, OwnConn
    <3>3. registeredInEpoller_'[c]
      BY <3>2, <1>4
    <3> QED
      BY <2>1, <3>2, <3>3, <1>1
  <2>2. CASE d # c
    BY <2>2, <1>4 DEF IInv, OwnConn
  <2> QED
    BY <2>1, <2>2
<1>11. OwnFault'
  BY <1>0, <1>4 DEF IInv, OwnFault
<1> QED
  BY <1>0, <1>2, <1>4, <1>5, <1>6, <1>7, <1>8, <1>9, <1>10, <1>11, Frames DEF IInv

(* shutdown in the loop's thread (TcpConnection.cc:88-103).                  *)
LEMMA ClientShutdownKeeps ==
  ASSUME IInv, NEW c \in Known, shutdown(c), UNCHANGED serverVars
  PROVE  IInv'
<1>0. UNCHANGED <<phase, active, revents_, batch, kept, nextConnfd_, connections_, live,
                  sending, foreign, backlog>>
  BY DEF serverVars
<1>1. c \in Conns /\ c \in live /\ seen[c] = Up /\ state_[c] = "kConnected"
  BY DEF Known, IInv, EpollInv, EpollTypes, Up, shutdown
<1>2. /\ state_' = [state_ EXCEPT ![c] = "kDisconnecting"]
      /\ shutdownInLoop(c)
      /\ UNCHANGED <<epollVars, outputBuffer_, pendingFunctors_, calls, sends, accepted,
                     written, closed, seen>>
  BY DEF shutdown, setState
<1>3. state_'[c] = "kDisconnecting" /\ \A d \in Conns : d # c => state_'[d] = state_[d]
  BY <1>1, <1>2 DEF IInv, ConnTypes
<1>4. sock' \in [Conns -> Socket] /\ Shut'
  BY <1>0, <1>1, <1>2, <1>3, ShutdownInLoopFacts DEF IInv
<1>5. ConnTypes'
  <2>1. state_' \in [Conns -> States]
    BY <1>2 DEF IInv, ConnTypes, States
  <2> QED
    BY <1>2, <1>4, <2>1 DEF IInv, ConnTypes, epollVars
<1>6. Life'
  BY <1>0, <1>1, <1>2, <1>3 DEF IInv, Life, epollVars
<1>7. Births'
  <2> SUFFICES ASSUME NEW d \in Conns
               PROVE  /\ state_'[d] # "none" /\ seen[d] = <<>> <=>
                           In(<<"connectEstablished", d>>, calls)
                      /\ In(<<"connectEstablished", d>>, calls) =>
                           state_'[d] = "kConnecting" /\ ~closed[d]
    BY <1>0, <1>2 DEF IInv, Births
  <2>1. CASE d = c
    BY <2>1, <1>1, <1>3 DEF IInv, Births, Up
  <2>2. CASE d # c
    BY <2>2, <1>3 DEF IInv, Births
  <2> QED
    BY <2>1, <2>2
<1>8. Reading'
  <2>1. \A d \in Conns : d \in active => state_'[d] # "none"
    BY <1>3 DEF IInv, Reading
  <2> QED
    BY <1>0, <1>2, <2>1 DEF IInv, Reading, epollVars
<1>9. OwnConn'
  <2>1. ~foreign => \A d \in Conns : seen[d] = Up =>
                                       state_'[d] \in {"kConnected", "kDisconnecting"}
    BY <1>3 DEF IInv, OwnConn
  <2> QED
    BY <1>0, <1>2, <2>1 DEF IInv, OwnConn, epollVars, In
<1> QED
  BY <1>0, <1>2, <1>4, <1>5, <1>6, <1>7, <1>8, <1>9, Frames DEF IInv, epollVars

-----------------------------------------------------------------------------
(* The functors.                                                             *)

(* The connections that a sequence of functors holds.                        *)
LEMMA HeldByFacts ==
  ASSUME NEW q \in Seq(Functor)
  PROVE  /\ HeldBy(q) \subseteq Conns
         /\ \A f \in Functor : f[1] \in Strong /\ In(f, q) => f[2] \in HeldBy(q)
         /\ \A c \in HeldBy(q) : \E f \in Functor : f[1] \in Strong /\ In(f, q) /\ f[2] = c
<1>1. \A i \in DOMAIN q : q[i] \in Functor
  BY ElementOfSeq, LenProperties
<1>2. \A f \in Functor : f[2] \in Conns
  BY DEF Functor
<1>3. \A f \in Functor : f[1] \in Strong /\ In(f, q) => f[2] \in HeldBy(q)
  BY DEF HeldBy, In
<1>4. \A c \in HeldBy(q) : \E f \in Functor : f[1] \in Strong /\ In(f, q) /\ f[2] = c
  BY <1>1 DEF HeldBy, In
<1> QED
  BY <1>2, <1>3, <1>4

(* The first functor of batch is taken (EventLoop.cc:186-188).               *)
LEMMA DequeuedFacts ==
  ASSUME ServerTypes, NEW f, NextFunctor(f)
  PROVE  /\ f \in Functor /\ In(f, batch) /\ ServerTypes'
         /\ \A x : In(x, batch') => In(x, batch)
         /\ \A x : In(x, batch) => x = f \/ In(x, batch')
         /\ \A x : Once(x, batch) => Once(x, batch')
         /\ Once(f, batch) => ~In(f, batch')
         /\ f[1] # "connectDestoryed" => BatchShrinks
<1>1. batch \in Seq(Functor) /\ batch # <<>> /\ f = Head(batch) /\ batch' = Tail(batch)
  BY DEF ServerTypes, NextFunctor
<1>2. /\ batch' \in Seq(Functor) /\ f \in Functor /\ In(f, batch)
      /\ \A x : In(x, batch') => In(x, batch)
      /\ \A x : In(x, batch) => x = f \/ In(x, batch')
      /\ \A x : Once(x, batch) => Once(x, batch')
      /\ Once(f, batch) => ~In(f, batch')
  BY <1>1, TailFacts
<1>3. ServerTypes'
  BY <1>2 DEF ServerTypes, NextFunctor
<1>4. f[1] # "connectDestoryed" => BatchShrinks
  BY <1>2 DEF BatchShrinks, Destroy
<1> QED
  BY <1>2, <1>3, <1>4

(* doPendingFunctions takes the queue (EventLoop.cc:179-185).                *)
LEMMA DoPendingKeeps ==
  ASSUME IInv, doPendingFunctions
  PROVE  IInv'
<1>1. /\ phase = "handle" /\ calls = <<>> /\ active = {}
      /\ batch' = pendingFunctors_ /\ kept' = HeldBy(pendingFunctors_)
      /\ pendingFunctors_' = <<>> /\ phase' = "functors"
      /\ UNCHANGED <<epollVars, state_, outputBuffer_, sock, calls, sends, accepted, written,
                     closed, seen, active, revents_, nextConnfd_, connections_, live, sending,
                     foreign, backlog>>
  BY DEF doPendingFunctions
<1>2. batch = <<>> /\ pendingFunctors_ \in Seq(Functor)
  BY <1>1 DEF IInv, Stack, ConnTypes
<1>3. \A x : ~In(x, <<>>) /\ Once(x, <<>>)
  BY SmallFacts
<1>4. /\ HeldBy(pendingFunctors_) \subseteq Conns
      /\ \A f \in Functor : f[1] \in Strong /\ In(f, pendingFunctors_) =>
                              f[2] \in HeldBy(pendingFunctors_)
      /\ \A c \in HeldBy(pendingFunctors_) :
           \E f \in Functor : f[1] \in Strong /\ In(f, pendingFunctors_) /\ f[2] = c
  BY <1>2, HeldByFacts
<1>5. ConnTypes'
  <2>1. <<>> \in Seq(Functor)
    OBVIOUS
  <2> QED
    BY <1>1, <2>1 DEF IInv, ConnTypes, epollVars
<1>6. ServerTypes'
  BY <1>1, <1>2, <1>4 DEF IInv, ServerTypes
<1>7. Deaths'
  <2> SUFFICES ASSUME NEW d \in Conns
               PROVE  /\ In(Destroy(d), <<>>) \/ In(Destroy(d), pendingFunctors_) <=>
                           closed[d] /\ seen[d] = Up
                      /\ Once(Destroy(d), <<>>) /\ Once(Destroy(d), pendingFunctors_)
                      /\ ~(In(Destroy(d), <<>>) /\ In(Destroy(d), pendingFunctors_))
    BY <1>1 DEF Deaths, Destroy
  <2> QED
    BY <1>2, <1>3 DEF IInv, Deaths
<1>8. Held'
  <2>1. HeldBy(pendingFunctors_) \subseteq live
    BY <1>4 DEF IInv, Held
  <2> QED
    BY <1>1, <1>3, <1>4, <2>1 DEF Held
<1>9. Stack'
  BY <1>1, <1>3 DEF Stack
<1>10. OwnQueue'
  BY <1>1, <1>3 DEF IInv, OwnQueue
<1> QED
  BY <1>1, <1>5, <1>6, <1>7, <1>8, <1>9, <1>10, Frames DEF IInv, epollVars

(* The calls with which an event or a functor begins: there were none.       *)
LEMMA BeginCalls ==
  ASSUME IInv, calls = <<>>
  PROVE  \A x : ~In(x, calls)
BY SmallFacts

(* A functor that holds a shared pointer keeps its connection alive.         *)
LEMMA StrongLive ==
  ASSUME IInv, NEW f \in Functor, f[1] \in Strong, In(f, batch)
  PROVE  /\ f[2] \in Conns /\ f[2] \in kept /\ f[2] \in live /\ f[2] < nextConnfd_
         /\ state_[f[2]] # "none" /\ phase = "functors" /\ active = {}
<1>1. f[2] \in kept /\ f[2] \in live /\ f[2] \in Conns
  BY DEF IInv, Held, Functor
<1>2. phase = "functors" /\ active = {}
  BY <1>1 DEF IInv, Stack
<1> QED
  BY <1>1, <1>2, LiveNumbered DEF IInv, EpollInv

(* writeCompleteCallback_ (TcpConnection.cc:68-70, 141-144).                 *)
LEMMA WriteCompleteKeeps ==
  ASSUME IInv, NEW c \in Conns, RunWriteComplete(c)
  PROVE  IInv'
<1>1. /\ NextFunctor(<<"writeComplete", c, 0>>)
      /\ calls = <<>> /\ calls' = <<<<"client", c>>>>
      /\ UNCHANGED <<epollVars, state_, outputBuffer_, sock, pendingFunctors_, sends, accepted,
                     written, closed, seen, phase, active, revents_, kept, nextConnfd_,
                     connections_, live, sending, foreign, backlog>>
  BY DEF RunWriteComplete, NextFunctor
<1>2. PICK f : f = <<"writeComplete", c, 0>>
  OBVIOUS
<1>3. f \in Functor /\ In(f, batch) /\ ServerTypes' /\ BatchShrinks
  <2>1. f[1] # "connectDestoryed"
    BY <1>2
  <2>2. NextFunctor(f)
    BY <1>1, <1>2
  <2> QED
    BY <2>1, <2>2, DequeuedFacts DEF IInv
<1>4. f[1] \in Strong /\ f[2] = c /\ f[1] # "connectDestoryed"
  BY <1>2 DEF Strong
<1>5. c \in kept /\ c \in live /\ phase = "functors" /\ active = {}
  BY <1>3, <1>4, StrongLive
<1>6. Deaths' /\ Held' /\ OwnQueue'
  BY <1>1, <1>3, <1>4, <1>5, QueuedFacts DEF IInv
<1>7. /\ calls' \in Seq(Call)
      /\ \A x : In(x, calls') <=> x = <<"client", c>>
  <2>1. <<"client", c>> \in Call
    BY DEF Call, CallNames
  <2> QED
    BY <1>1, <2>1, SmallFacts
<1>8. \A x : ~In(x, calls)
  BY <1>1, BeginCalls
<1>9. ConnTypes'
  BY <1>1, <1>7 DEF IInv, ConnTypes, epollVars
<1>10. Births'
  <2>1. \A d \in Conns : ~In(<<"connectEstablished", d>>, calls')
    BY <1>7
  <2> QED
    BY <1>1, <1>8, <2>1 DEF IInv, Births
<1>11. Stack'
  <2>1. \A n \in CallNames, d \in Conns : In(<<n, d>>, calls') => n = "client" /\ d = c
    BY <1>7
  <2> QED
    BY <1>1, <1>5, <2>1 DEF Stack
<1>12. Reading'
  <2>1. \A d \in Conns : ~In(<<"handleRead", d>>, calls')
    BY <1>7
  <2> QED
    BY <1>1, <2>1 DEF IInv, Reading, epollVars
<1>13. OwnConn'
  <2>1. \A d \in Conns : ~In(<<"removeChannel", d>>, calls')
    BY <1>7
  <2> QED
    BY <1>1, <1>8, <2>1 DEF IInv, OwnConn, epollVars
<1> QED
  BY <1>1, <1>3, <1>6, <1>9, <1>10, <1>11, <1>12, <1>13, Frames DEF IInv, epollVars

(* Only another thread queues functors with raw pointers.                    *)
LEMMA WeakForeign ==
  ASSUME IInv, NEW f \in Functor, f[1] \notin Strong, In(f, batch)
  PROVE  foreign
BY DEF IInv, OwnQueue

(* Two calls.                                                                *)
LEMMA PairFacts ==
  ASSUME NEW S, NEW a \in S, NEW b \in S, a # b
  PROVE  /\ <<a, b>> \in Seq(S)
         /\ \A x : In(x, <<a, b>>) <=> x = a \/ x = b
         /\ \A x : Once(x, <<a, b>>)
<1>1. <<a, b>> \in Seq(S) /\ DOMAIN <<a, b>> = 1 .. 2 /\ <<a, b>>[1] = a /\ <<a, b>>[2] = b
  OBVIOUS
<1>2. PICK q : q = <<a, b>>
  OBVIOUS
<1>3. DOMAIN q = {1, 2} /\ q[1] = a /\ q[2] = b
  BY <1>1, <1>2
<1>4. \A x : In(x, q) <=> x = a \/ x = b
  BY <1>3 DEF In
<1>5. \A x : Once(x, q)
  BY <1>3 DEF Once
<1> QED
  BY <1>1, <1>2, <1>4, <1>5

(* connectionCallback_ with the connection down, after it was up.            *)
LEMMA UpDownFacts ==
  Append(Up, "down") = UpDown /\ Up # UpDown
<1> DEFINE S == {"up", "down"}
<1>1. Up \in Seq(S) /\ Len(Up) = 1 /\ Up[1] = "up"
  BY DEF Up
<1>2. UpDown \in Seq(S) /\ Len(UpDown) = 2 /\ UpDown[1] = "up" /\ UpDown[2] = "down"
  BY DEF UpDown
<1>0. "down" \in S
  OBVIOUS
<1> HIDE DEF S
<1>3. PICK w \in S, u \in Seq(S) : w = "down" /\ u = Up
  BY <1>0, <1>1
<1> DEFINE q == Append(u, w)
<1>4. q \in Seq(S) /\ Len(q) = 2 /\ q[1] = "up" /\ q[2] = "down"
  <2>1. /\ q \in Seq(S) /\ Len(q) = Len(u) + 1
        /\ \A i \in 1 .. Len(u) : q[i] = u[i]
        /\ q[Len(u) + 1] = w
    BY AppendProperties
  <2>2. Len(u) = 1 /\ u[1] = "up"
    BY <1>1, <1>3
  <2> HIDE DEF q
  <2>3. Len(q) = 2 /\ q[2] = w
    BY <2>1, <2>2
  <2>4. q[1] = u[1]
    BY <2>1, <2>2
  <2> QED
    BY <1>3, <2>1, <2>2, <2>3, <2>4
<1> HIDE DEF q
<1>5. \A i \in 1 .. Len(q) : q[i] = UpDown[i]
  BY <1>2, <1>4
<1>6. q = UpDown
  BY <1>2, <1>4, <1>5, SeqEqual
<1>7. Append(Up, "down") = UpDown
  BY <1>3, <1>6, Zenon DEF q
<1> QED
  BY <1>1, <1>2, <1>7

(* connectDestoryed (TcpConnection.cc:176-185): it runs once for every       *)
(* closed connection, which is still registered if only the loop's thread    *)
(* used it.                                                                  *)
LEMMA DestroyedKeeps ==
  ASSUME IInv, fault = "none", NEW c \in Conns, RunDestroyed(c)
  PROVE  IInv'
<1>1. /\ NextFunctor(Destroy(c))
      /\ disableAll(c, state_[c] \in {"kConnected", "kDisconnecting"})
      /\ state_' = [state_ EXCEPT ![c] = "kDisConnected"]
      /\ seen' = [seen EXCEPT ![c] = Append(@, "down")]
      /\ calls = <<>> /\ calls' = <<<<"client", c>>, <<"removeChannel", c>>>>
      /\ UNCHANGED <<outputBuffer_, sock, pendingFunctors_, sends, accepted, written, closed,
                     phase, active, revents_, kept, nextConnfd_, connections_, live, sending,
                     foreign, backlog>>
  BY DEF RunDestroyed, NextFunctor, connectDestoryed, setState, ConnectionCallback, Destroy
<1>2. PICK f : f = Destroy(c)
  OBVIOUS
<1>3. /\ f \in Functor /\ In(f, batch) /\ ServerTypes'
      /\ \A x : In(x, batch') => In(x, batch)
      /\ \A x : In(x, batch) => x = f \/ In(x, batch')
      /\ \A x : Once(x, batch) => Once(x, batch')
      /\ Once(f, batch) => ~In(f, batch')
  <2>1. NextFunctor(f)
    BY <1>1, <1>2
  <2> QED
    BY <2>1, DequeuedFacts DEF IInv
<1>4. f[1] \in Strong /\ f[2] = c
  BY <1>2 DEF Destroy, Strong
<1>5. c \in kept /\ c \in live /\ c < nextConnfd_ /\ state_[c] # "none"
      /\ phase = "functors" /\ active = {}
  BY <1>3, <1>4, StrongLive
<1>6. closed[c] /\ seen[c] = Up /\ ~In(f, batch') /\ ~In(f, pendingFunctors_)
  BY <1>2, <1>3 DEF IInv, Deaths
<1>7. ~foreign => state_[c] \in {"kConnected", "kDisconnecting"} /\ registeredInEpoller_[c]
  BY <1>6 DEF IInv, OwnConn
<1>8. PICK ev \in SUBSET {"R", "W"} : ev = {}
  OBVIOUS
<1>9. update(c, ev, TRUE) \/ (foreign /\ update(c, ev, FALSE))
  BY <1>1, <1>7, <1>8 DEF disableAll, update, epollMod, epollAdd, Assert_
<1>10. /\ EpollInv'
       /\ events_' = [events_ EXCEPT ![c] = {}]
       /\ \A d \in Conns : registeredInEpoller_'[d] <=> registeredInEpoller_[d]
       /\ fault' \in {fault, "assert"}
       /\ ~foreign => fault' = fault
  <2>1. EpollInv /\ c \in live /\ c < nextConnfd_ /\ live' = live
        /\ nextConnfd_' = nextConnfd_ /\ foreign' = foreign
    BY <1>1, <1>5 DEF IInv
  <2>2. /\ EpollInv'
        /\ events_' = [events_ EXCEPT ![c] = ev]
        /\ \A d \in Conns : registeredInEpoller_'[d] <=>
                              registeredInEpoller_[d] \/ (d = c /\ ev # {})
        /\ fault' \in {fault, "assert"}
        /\ ~foreign => fault' = fault
    <3>1. CASE update(c, ev, TRUE)
      BY <2>1, <3>1, UpdateFacts
    <3>2. CASE foreign /\ update(c, ev, FALSE)
      BY <2>1, <3>2, UpdateFacts
    <3> QED
      BY <3>1, <3>2, <1>9
  <2> QED
    BY <2>2, <1>8
<1>11. \A d \in Conns : d # c => /\ events_'[d] = events_[d] /\ state_'[d] = state_[d]
                                 /\ seen'[d] = seen[d]
  BY <1>1, <1>10 DEF IInv, ConnTypes, EpollInv, EpollTypes
<1>12. Append(seen[c], "down") = UpDown
  BY <1>6, UpDownFacts
<1>13. events_'[c] = {} /\ state_'[c] = "kDisConnected" /\ seen'[c] = UpDown
  BY <1>1, <1>10, <1>12 DEF IInv, ConnTypes, EpollInv, EpollTypes
<1>14. /\ calls' \in Seq(Call)
       /\ \A x : In(x, calls') <=> x = <<"client", c>> \/ x = <<"removeChannel", c>>
       /\ \A x : Once(x, calls')
  <2>1. /\ <<"client", c>> \in Call /\ <<"removeChannel", c>> \in Call
        /\ <<"client", c>> # <<"removeChannel", c>>
    BY DEF Call, CallNames
  <2> QED
    BY <1>1, <2>1, PairFacts
<1>15. \A x : ~In(x, calls)
  BY <1>1, BeginCalls
<1>16. ConnTypes'
  <2>1. state_' \in [Conns -> States]
    BY <1>1 DEF IInv, ConnTypes, States
  <2>2. seen' \in [Conns -> {<<>>, Up, UpDown}]
    BY <1>1, <1>12 DEF IInv, ConnTypes
  <2> QED
    BY <1>1, <1>10, <1>14, <2>1, <2>2 DEF IInv, ConnTypes
<1>17. Wire'
  BY <1>1, <1>6, <1>11 DEF IInv, Wire
<1>18. Shut'
  BY <1>1, <1>6, <1>11, <1>13 DEF IInv, Shut
<1>19. Life'
  <2> SUFFICES ASSUME NEW d \in Conns
               PROVE  /\ state_'[d] = "none" <=> d >= nextConnfd_
                      /\ state_'[d] = "none" =>
                           /\ d \notin live /\ events_'[d] = {} /\ ~closed[d]
                           /\ seen'[d] = <<>> /\ ~registeredInEpoller_'[d]
                      /\ d \in connections_ <=> state_'[d] # "none" /\ ~closed[d]
                      /\ state_'[d] # "none" /\ d \notin live => seen'[d] = UpDown
    BY <1>1 DEF Life
  <2>1. CASE d = c
    BY <2>1, <1>5, <1>6, <1>13 DEF IInv, Life
  <2>2. CASE d # c
    BY <2>2, <1>10, <1>11 DEF IInv, Life
  <2> QED
    BY <2>1, <2>2
<1>20. Births'
  <2>1. \A d \in Conns : ~In(<<"connectEstablished", d>>, calls')
    BY <1>14
  <2>2. \A d \in Conns : seen'[d] = <<>> => seen[d] = <<>> /\ state_'[d] = state_[d]
    BY <1>11, <1>13 DEF UpDown
  <2>3. \A t \in Senders : sending[t] # Idle => seen'[sending[t][2]] # <<>>
    <3> SUFFICES ASSUME NEW t \in Senders, sending[t] # Idle PROVE seen'[sending[t][2]] # <<>>
      OBVIOUS
    <3>1. sending[t][2] \in Conns /\ seen[sending[t][2]] # <<>>
      BY DEF IInv, ServerTypes, Births, WeakFunctor
    <3> QED
      BY <3>1, <2>2
  <2> QED
    BY <1>1, <1>15, <2>1, <2>2, <2>3 DEF IInv, Births
<1>21. Deaths'
  <2> SUFFICES ASSUME NEW d \in Conns
               PROVE  /\ In(Destroy(d), pendingFunctors_) \/ In(Destroy(d), batch') <=>
                           closed[d] /\ seen'[d] = Up
                      /\ Once(Destroy(d), pendingFunctors_) /\ Once(Destroy(d), batch')
                      /\ ~(In(Destroy(d), pendingFunctors_) /\ In(Destroy(d), batch'))
    BY <1>1 DEF Deaths, Destroy
  <2>1. CASE d = c
    BY <2>1, <1>2, <1>3, <1>6, <1>13 DEF IInv, Deaths, Up, UpDown
  <2>2. CASE d # c
    <3>1. Destroy(d) # f
      BY <2>2, <1>2 DEF Destroy
    <3> QED
      BY <2>2, <3>1, <1>3, <1>11 DEF IInv, Deaths
  <2> QED
    BY <2>1, <2>2
<1>22. Held'
  BY <1>1, <1>3 DEF IInv, Held
<1>23. Stack'
  <2>1. \A n \in CallNames, d \in Conns : In(<<n, d>>, calls') => d = c
    BY <1>14
  <2> QED
    BY <1>1, <1>5, <1>14, <2>1 DEF Stack
<1>24. Reading'
  <2>1. \A d \in Conns : ~In(<<"handleRead", d>>, calls')
    BY <1>14
  <2> QED
    BY <1>1, <1>5, <1>11, <1>13, <2>1 DEF IInv, Reading
<1>25. OwnQueue'
  BY <1>1, <1>3 DEF IInv, OwnQueue
<1>26. OwnConn'
  <2> SUFFICES ASSUME ~foreign, NEW d \in Conns
               PROVE  /\ seen'[d] = Up => registeredInEpoller_'[d]
                                          /\ state_'[d] \in {"kConnected", "kDisconnecting"}
                      /\ In(<<"removeChannel", d>>, calls') =>
                           registeredInEpoller_'[d] /\ events_'[d] = {} /\ seen'[d] = UpDown
                      /\ registeredInEpoller_'[d] =>
                           seen'[d] = Up \/ In(<<"removeChannel", d>>, calls')
                      /\ events_'[d] # {} => seen'[d] = Up
    BY <1>1 DEF OwnConn
  <2>1. CASE d = c
    BY <2>1, <1>7, <1>10, <1>13, <1>14 DEF Up, UpDown
  <2>2. CASE d # c
    <3>1. ~In(<<"removeChannel", d>>, calls')
      BY <2>2, <1>14
    <3> QED
      BY <2>2, <3>1, <1>10, <1>11, <1>15 DEF IInv, OwnConn
  <2> QED
    BY <2>1, <2>2
<1>27. OwnFault'
  BY <1>1, <1>10 DEF IInv, OwnFault
<1> QED
  BY <1>3, <1>10, <1>16, <1>17, <1>18, <1>19, <1>20, <1>21, <1>22, <1>23, <1>24, <1>25, <1>26,
     <1>27 DEF IInv

(* sendInLoop and shutdownInLoop as another thread queued them, on the raw   *)
(* pointer (TcpConnection.cc:51-53, 57-86).                                  *)
LEMMA RunSendKeeps ==
  ASSUME IInv, fault = "none", NEW c \in Conns, NEW m \in 1 .. MaxSends, RunSend(c, m)
  PROVE  IInv'
<1>1. /\ NextFunctor(<<"sendInLoop", c, m>>)
      /\ UNCHANGED <<phase, active, revents_, kept, nextConnfd_, connections_, live, sending,
                     foreign, backlog>>
  BY DEF RunSend, NextFunctor
<1>2. PICK f : f = <<"sendInLoop", c, m>>
  OBVIOUS
<1>3. f \in Functor /\ In(f, batch) /\ ServerTypes' /\ BatchShrinks
      /\ (\A x : In(x, batch') => In(x, batch))
  <2>1. f[1] # "connectDestoryed"
    BY <1>2
  <2>2. NextFunctor(f)
    BY <1>1, <1>2
  <2> QED
    BY <2>1, <2>2, DequeuedFacts DEF IInv
<1>4. foreign
  <2>1. f[1] \notin Strong
    BY <1>2 DEF Strong
  <2> QED
    BY <2>1, <1>3, WeakForeign
<1>5. phase = "functors" /\ OwnConn' /\ OwnQueue' /\ OwnFault'
  BY <1>1, <1>4 DEF NextFunctor, OwnConn, OwnQueue, OwnFault
<1>6. CASE c \in live
  <2>1. sendInLoop(c, m) /\ UNCHANGED <<state_, calls, sends, closed, seen>>
    BY <1>6 DEF RunSend
  <2>2. /\ EpollInv' /\ Wire' /\ Shut'
        /\ outputBuffer_' \in [Conns -> Seq(Nat)]
        /\ accepted' \in [Conns -> Seq(Nat)]
        /\ written' \in [Conns -> Seq(Nat)]
        /\ sock' \in [Conns -> Socket]
        /\ pendingFunctors_' \in {pendingFunctors_,
                                  Append(pendingFunctors_, <<"writeComplete", c, 0>>)}
        /\ \A d \in Conns : d # c => /\ events_'[d] = events_[d]
                                     /\ registeredInEpoller_'[d] <=> registeredInEpoller_[d]
        /\ "R" \in events_'[c] => "R" \in events_[c]
        /\ fault' \in {fault, "assert"}
    BY <1>1, <1>4, <1>6, <2>1, SendInLoopFacts
  <2>3. pendingFunctors_' \in Seq(Functor) /\ Deaths' /\ Held'
    <3>1. <<"writeComplete", c, 0>> \in Functor
      BY BuffersAssumption DEF Functor, Strong
    <3>2. PICK g \in Functor : g = <<"writeComplete", c, 0>>
      BY <3>1
    <3>3. g[1] # "connectDestoryed" /\ g[2] \in live /\ g[1] \in Strong
      BY <3>2, <1>6 DEF Strong
    <3> QED
      BY <1>1, <1>3, <2>1, <2>2, <3>2, <3>3, QueuedFacts DEF IInv
  <2>4. ConnTypes'
    BY <2>1, <2>2, <2>3 DEF IInv, ConnTypes
  <2>5. Life'
    <3>1. state_[c] # "none"
      BY <1>6, LiveNumbered DEF IInv, EpollInv
    <3> QED
      BY <1>1, <2>1, <2>2, <3>1 DEF IInv, Life
  <2>6. Births'
    BY <1>1, <2>1, Frames DEF IInv
  <2>7. Stack'
    BY <1>1, <1>5, <2>1 DEF IInv, Stack
  <2>8. Reading'
    <3>1. \A d \in Conns : "R" \in events_'[d] => "R" \in events_[d]
      BY <2>2
    <3> QED
      BY <1>1, <2>1, <3>1 DEF IInv, Reading
  <2> QED
    BY <1>3, <1>5, <2>2, <2>3, <2>4, <2>5, <2>6, <2>7, <2>8 DEF IInv
<1>7. CASE c \notin live
  <2>1. /\ fault' = "dangling"
        /\ UNCHANGED <<fd, events_, registeredInEpoller_, channels_, interest, connVars>>
    BY <1>7 DEF RunSend, Dangling
  <2>2. ConnTypes'
    BY <2>1 DEF IInv, ConnTypes, connVars
  <2>3. Deaths'
    BY <1>3, <2>1 DEF IInv, Deaths, BatchShrinks, connVars
  <2>4. Held'
    BY <1>1, <1>3, <2>1 DEF IInv, Held, connVars
  <2>5. Stack'
    BY <1>1, <1>5, <2>1 DEF IInv, Stack, connVars
  <2> QED
    BY <1>1, <1>3, <1>5, <2>1, <2>2, <2>3, <2>4, <2>5, Frames DEF IInv, connVars
<1> QED
  BY <1>6, <1>7

(* ... and the shutdownInLoop of another thread (TcpConnection.cc:88-103).   *)
LEMMA RunShutdownKeeps ==
  ASSUME IInv, fault = "none", NEW c \in Conns, RunShutdown(c)
  PROVE  IInv'
<1>1. /\ NextFunctor(<<"shutdownInLoop", c, 0>>)
      /\ UNCHANGED <<phase, active, revents_, kept, nextConnfd_, connections_, live, sending,
                     foreign, backlog>>
  BY DEF RunShutdown, NextFunctor
<1>2. PICK f : f = <<"shutdownInLoop", c, 0>>
  OBVIOUS
<1>3. f \in Functor /\ In(f, batch) /\ ServerTypes' /\ BatchShrinks
      /\ (\A x : In(x, batch') => In(x, batch))
  <2>1. f[1] # "connectDestoryed"
    BY <1>2
  <2>2. NextFunctor(f)
    BY <1>1, <1>2
  <2> QED
    BY <2>1, <2>2, DequeuedFacts DEF IInv
<1>4. foreign
  <2>1. f[1] \notin Strong
    BY <1>2 DEF Strong
  <2> QED
    BY <2>1, <1>3, WeakForeign
<1>5. phase = "functors" /\ OwnConn' /\ OwnQueue' /\ OwnFault' /\ Shut'
  BY <1>1, <1>4 DEF NextFunctor, OwnConn, OwnQueue, OwnFault, Shut
<1>6. /\ UNCHANGED <<fd, events_, registeredInEpoller_, channels_, interest, state_,
                     outputBuffer_, pendingFunctors_, calls, sends, accepted, written, closed,
                     seen>>
      /\ sock' \in [Conns -> Socket] /\ fault' \in {"none", "dangling"}
  <2>1. CASE c \in live
    <3>1. /\ shutdownInLoop(c)
          /\ UNCHANGED <<epollVars, state_, outputBuffer_, pendingFunctors_, calls, sends,
                         accepted, written, closed, seen>>
      BY <2>1 DEF RunShutdown
    <3>2. sock' \in [Conns -> Socket]
      BY <1>1, <1>4, <3>1, ShutdownInLoopFacts DEF IInv
    <3> QED
      BY <3>1, <3>2 DEF epollVars
  <2>2. CASE c \notin live
    BY <2>2 DEF RunShutdown, Dangling, connVars, IInv, ConnTypes
  <2> QED
    BY <2>1, <2>2
<1>7. ConnTypes'
  BY <1>6 DEF IInv, ConnTypes
<1>8. Deaths'
  BY <1>3, <1>6 DEF IInv, Deaths, BatchShrinks
<1>9. Held'
  BY <1>1, <1>3, <1>6 DEF IInv, Held
<1>10. Stack'
  BY <1>1, <1>5, <1>6 DEF IInv, Stack
<1> QED
  BY <1>1, <1>3, <1>5, <1>6, <1>7, <1>8, <1>9, <1>10, Frames DEF IInv

(* A connection that nothing refers to any more was reported as down: the    *)
(* connectDestoryed that handleClose queued has run.                         *)
LEMMA GoneDown ==
  ASSUME IInv, NEW gone \in SUBSET live, gone \cap connections_ = {},
         \A c \in gone : c \notin HeldBy(pendingFunctors_) /\ ~In(Destroy(c), batch)
  PROVE  \A c \in gone : c \in Conns /\ state_[c] # "none" /\ seen[c] = UpDown
<1> SUFFICES ASSUME NEW c \in gone PROVE c \in Conns /\ state_[c] # "none" /\ seen[c] = UpDown
  OBVIOUS
<1>1. c \in Conns /\ c \in live /\ c \notin connections_
  BY DEF IInv, EpollInv, EpollTypes
<1>2. state_[c] # "none" /\ closed[c]
  BY <1>1, LiveNumbered DEF IInv, EpollInv, Life
<1>3. seen[c] # <<>>
  BY <1>1, <1>2 DEF IInv, Births
<1>4. ~In(Destroy(c), pendingFunctors_)
  <2>1. Destroy(c) \in Functor
    BY <1>1, BuffersAssumption DEF Destroy, Functor, Strong
  <2>2. PICK f \in Functor : f = Destroy(c)
    BY <2>1
  <2>3. f[1] \in Strong /\ f[2] = c
    BY <2>2 DEF Destroy, Strong
  <2>4. pendingFunctors_ \in Seq(Functor)
    BY DEF IInv, ConnTypes
  <2>5. In(f, pendingFunctors_) => c \in HeldBy(pendingFunctors_)
    BY <2>3, <2>4, HeldByFacts
  <2> QED
    BY <2>2, <2>5
<1>5. seen[c] # Up
  BY <1>1, <1>2, <1>4 DEF IInv, Deaths
<1> QED
  BY <1>1, <1>2, <1>3, <1>5 DEF IInv, ConnTypes

(* The vector of functors is destroyed (EventLoop.cc:190): a connection that *)
(* only it kept has been reported as down and has left the epoll map.        *)
LEMMA EndFunctorsKeeps ==
  ASSUME IInv, EndFunctors
  PROVE  IInv'
<1>1. PICK gone : gone = Unreferenced(HeldBy(pendingFunctors_), {})
  OBVIOUS
<1>2. /\ phase = "functors" /\ calls = <<>> /\ batch = <<>> /\ phase' = "poll" /\ kept' = {}
      /\ live' = live \ gone /\ CloseFds(gone)
      /\ UNCHANGED <<fault, state_, outputBuffer_, sock, pendingFunctors_, calls, sends,
                     accepted, written, closed, seen, active, revents_, batch, nextConnfd_,
                     connections_, sending, foreign, backlog>>
  BY <1>1 DEF EndFunctors, connVars
<1>3. /\ gone \in SUBSET live /\ gone \cap connections_ = {}
      /\ gone \cap HeldBy(pendingFunctors_) = {}
  BY <1>1 DEF Unreferenced
<1>4. \A x : ~In(x, <<>>)
  BY SmallFacts
<1>5. \A c \in gone : c \in Conns /\ state_[c] # "none" /\ seen[c] = UpDown
  <2>1. \A c \in gone : c \notin HeldBy(pendingFunctors_) /\ ~In(Destroy(c), batch)
    BY <1>2, <1>3, <1>4
  <2> QED
    BY <2>1, <1>3, GoneDown
<1>6. ~foreign => \A c \in gone : ~registeredInEpoller_[c]
  <2>1. \A c \in gone : c \in Conns /\ seen[c] # Up
    BY <1>5, UpDownFacts
  <2>2. \A c \in gone : ~In(<<"removeChannel", c>>, calls)
    BY <1>2, <1>4
  <2> QED
    BY <2>1, <2>2 DEF IInv, OwnConn
<1>7. EpollInv' /\ events_' = events_ /\ registeredInEpoller_' = registeredInEpoller_
  BY <1>2, <1>3, <1>6, CloseFacts DEF IInv
<1>8. ServerTypes'
  BY <1>2, <1>3 DEF IInv, ServerTypes
<1>9. Life'
  BY <1>2, <1>5, <1>7 DEF IInv, Life
<1>10. Held'
  <2>1. \A f \in Functor : f[1] \in Strong /\ In(f, pendingFunctors_) =>
                              f[2] \in HeldBy(pendingFunctors_)
    BY HeldByFacts DEF IInv, ConnTypes
  <2> QED
    BY <1>2, <1>3, <1>4, <2>1 DEF IInv, Held
<1>11. Stack'
  BY <1>2, <1>4 DEF IInv, Stack
<1>12. Reading'
  BY <1>2, <1>7 DEF IInv, Reading
<1>13. OwnQueue'
  <2>1. active = {}
    BY <1>2 DEF IInv, Stack
  <2> QED
    BY <1>2, <2>1 DEF IInv, OwnQueue
<1> QED
  BY <1>2, <1>7, <1>8, <1>9, <1>10, <1>11, <1>12, <1>13, Frames DEF IInv

-----------------------------------------------------------------------------
(* Other threads.                                                            *)

(* send() and shutdown() in another thread, up to the test of state_         *)
(* (TcpConnection.cc:45-48, 88-90).                                          *)
LEMMA SenderBeginsKeeps ==
  ASSUME IInv, NEW t \in Senders, NEW c \in Conns, SenderBegins(t, c)
  PROVE  IInv'
<1>1. /\ c \in Known /\ foreign' = TRUE
      /\ UNCHANGED <<epollVars, state_, outputBuffer_, sock, pendingFunctors_, calls, accepted,
                     written, closed, seen, phase, active, revents_, batch, kept, nextConnfd_,
                     connections_, live, backlog>>
  BY DEF SenderBegins
<1>2. PICK f \in WeakFunctor : sending' = [sending EXCEPT ![t] = f] /\ f[2] = c
                               /\ sends' \in 0 .. MaxSends
  <2>1. CASE sends < MaxSends /\ sends' = sends + 1
             /\ sending' = [sending EXCEPT ![t] = <<"sendInLoop", c, sends + 1>>]
    <3>1. sends + 1 \in 0 .. MaxSends
      BY <2>1, BuffersAssumption DEF IInv, ConnTypes
    <3>2. <<"sendInLoop", c, sends + 1>> \in WeakFunctor
      BY <3>1 DEF WeakFunctor
    <3> QED
      BY <2>1, <3>1, <3>2
  <2>2. CASE sending' = [sending EXCEPT ![t] = <<"shutdownInLoop", c, 0>>] /\ sends' = sends
    <3>1. <<"shutdownInLoop", c, 0>> \in WeakFunctor
      BY BuffersAssumption DEF WeakFunctor
    <3> QED
      BY <2>2, <3>1 DEF IInv, ConnTypes
  <2> QED
    BY <2>1, <2>2 DEF SenderBegins
<1>3. seen[c] = Up
  BY <1>1 DEF Known, Up
<1>4. EpollInv'
  BY <1>1 DEF IInv, EpollInv, EpollTypes, Kernel, EpollAgrees, epollVars
<1>5. ConnTypes'
  BY <1>1, <1>2 DEF IInv, ConnTypes, epollVars
<1>6. ServerTypes'
  BY <1>1, <1>2 DEF IInv, ServerTypes
<1>7. Births'
  <2>1. \A u \in Senders : sending'[u] # Idle => seen[sending'[u][2]] # <<>>
    <3> SUFFICES ASSUME NEW u \in Senders, sending'[u] # Idle
                 PROVE  seen[sending'[u][2]] # <<>>
      OBVIOUS
    <3>1. CASE u = t
      <4>1. sending'[u] = f
        BY <3>1, <1>2 DEF IInv, ServerTypes
      <4> QED
        BY <4>1, <1>2, <1>3 DEF Up
    <3>2. CASE u # t
      <4>1. sending'[u] = sending[u]
        BY <3>2, <1>2 DEF IInv, ServerTypes
      <4> QED
        BY <4>1 DEF IInv, Births
    <3> QED
      BY <3>1, <3>2
  <2> QED
    BY <1>1, <2>1 DEF IInv, Births
<1>8. Shut' /\ OwnQueue' /\ OwnConn' /\ OwnFault'
  BY <1>1 DEF Shut, OwnQueue, OwnConn, OwnFault
<1> QED
  BY <1>1, <1>4, <1>5, <1>6, <1>7, <1>8, Frames DEF IInv, epollVars

(* The rest of send() and shutdown() in another thread (TcpConnection.cc:    *)
(* 51-53, 91-94), and the destructor if it held the last shared pointer.     *)
LEMMA SenderQueuesKeeps ==
  ASSUME IInv, fault = "none", NEW t \in Senders, SenderQueues(t)
  PROVE  IInv'
<1>1. PICK gone : gone = Unreferenced(HeldBy(pendingFunctors_) \cup kept, {t})
  OBVIOUS
<1>2. /\ sending[t] # Idle /\ sending' = [sending EXCEPT ![t] = Idle]
      /\ pendingFunctors_' = Append(pendingFunctors_, sending[t])
      /\ state_' = IF sending[t][1] = "shutdownInLoop"
                   THEN [state_ EXCEPT ![sending[t][2]] = "kDisconnecting"] ELSE state_
      /\ live' = live \ gone /\ CloseFds(gone)
      /\ fault' = IF phase = "handle" /\ calls # <<>> => Head(calls)[2] \notin gone
                  THEN fault ELSE "assert"
      /\ UNCHANGED <<outputBuffer_, sock, calls, sends, accepted, written, closed, seen, phase,
                     active, revents_, batch, kept, nextConnfd_, connections_, foreign, backlog>>
  BY <1>1 DEF SenderQueues, queueInLoop, setState, Assert_
<1>3. PICK f \in WeakFunctor : f = sending[t]
  BY <1>2 DEF IInv, ServerTypes
<1>4. f \in Functor /\ f[1] \notin Strong /\ f[2] \in Conns
  BY DEF WeakFunctor, Functor, Strong
<1>5. seen[f[2]] # <<>> /\ state_[f[2]] # "none"
  <2>1. seen[f[2]] # <<>>
    BY <1>2, <1>3 DEF IInv, Births
  <2> QED
    BY <2>1, <1>4 DEF IInv, Life
<1>6. foreign /\ foreign'
  BY <1>2 DEF IInv, OwnQueue
<1>7. /\ gone \in SUBSET live /\ gone \cap connections_ = {}
      /\ gone \cap HeldBy(pendingFunctors_) = {} /\ gone \cap kept = {}
  BY <1>1 DEF Unreferenced
<1>8. \A c \in gone : c \in Conns /\ state_[c] # "none" /\ seen[c] = UpDown
  <2>1. \A c \in gone : ~In(Destroy(c), batch)
    <3> SUFFICES ASSUME NEW c \in gone, In(Destroy(c), batch) PROVE FALSE
      OBVIOUS
    <3>1. c \in Conns
      BY <1>7 DEF IInv, EpollInv, EpollTypes
    <3>2. Destroy(c) \in Functor
      BY <3>1, BuffersAssumption DEF Destroy, Functor, Strong
    <3>3. PICK g \in Functor : g = Destroy(c)
      BY <3>2
    <3>4. g[1] \in Strong /\ g[2] = c
      BY <3>3 DEF Destroy, Strong
    <3>5. c \in kept
      BY <3>3, <3>4 DEF IInv, Held
    <3> QED
      BY <3>5, <1>7
  <2> QED
    BY <2>1, <1>7, GoneDown
<1>9. EpollInv' /\ events_' = events_ /\ registeredInEpoller_' = registeredInEpoller_
  BY <1>2, <1>6, <1>7, CloseFacts DEF IInv
<1>10. \A d \in Conns : state_'[d] = state_[d] \/ (d = f[2] /\ state_'[d] = "kDisconnecting")
  BY <1>2, <1>3, <1>4 DEF IInv, ConnTypes
<1>11. /\ pendingFunctors_' \in Seq(Functor)
       /\ \A x : In(x, pendingFunctors_') <=> In(x, pendingFunctors_) \/ x = f
       /\ \A x : Once(x, pendingFunctors_) /\ x # f => Once(x, pendingFunctors_')
  <2>1. pendingFunctors_ \in Seq(Functor)
    BY DEF IInv, ConnTypes
  <2> QED
    BY <2>1, <1>2, <1>3, <1>4, AppendFacts
<1>12. ConnTypes'
  <2>1. state_' \in [Conns -> States]
    BY <1>2, <1>3, <1>4 DEF IInv, ConnTypes, States
  <2>2. fault' \in {"none", "assert", "dangling", "wrongthread"}
    BY <1>2 DEF IInv, ConnTypes
  <2> QED
    BY <1>2, <1>11, <2>1, <2>2 DEF IInv, ConnTypes
<1>13. ServerTypes'
  <2>1. sending' \in [Senders -> WeakFunctor \cup {Idle}]
    BY <1>2 DEF IInv, ServerTypes
  <2>2. connections_' \subseteq live'
    BY <1>2, <1>7 DEF IInv, ServerTypes
  <2> QED
    BY <1>2, <2>1, <2>2 DEF IInv, ServerTypes
<1>14. Wire'
  BY <1>2, <1>9, Frames DEF IInv
<1>15. Life'
  <2> SUFFICES ASSUME NEW d \in Conns
               PROVE  /\ state_'[d] = "none" <=> d >= nextConnfd_
                      /\ state_'[d] = "none" =>
                           /\ d \notin live' /\ events_[d] = {} /\ ~closed[d]
                           /\ seen[d] = <<>> /\ ~registeredInEpoller_[d]
                      /\ d \in connections_ <=> state_'[d] # "none" /\ ~closed[d]
                      /\ state_'[d] # "none" /\ d \notin live' => seen[d] = UpDown
    BY <1>2, <1>9 DEF Life
  <2>1. state_'[d] = "none" <=> state_[d] = "none"
    BY <1>5, <1>10
  <2>2. d \notin live' <=> d \notin live \/ d \in gone
    BY <1>2, <1>7
  <2> QED
    BY <2>1, <2>2, <1>8 DEF IInv, Life
<1>16. Births'
  <2>1. \A d \in Conns : In(<<"connectEstablished", d>>, calls) => state_'[d] = state_[d]
    BY <1>5, <1>10 DEF IInv, Births
  <2>2. \A d \in Conns : state_'[d] = "none" <=> state_[d] = "none"
    BY <1>5, <1>10
  <2>3. \A u \in Senders : sending'[u] = Idle \/ sending'[u] = sending[u]
    BY <1>2 DEF IInv, ServerTypes
  <2>4. \A u \in Senders : sending'[u] # Idle => seen[sending'[u][2]] # <<>>
    BY <2>3 DEF IInv, Births
  <2> QED
    BY <1>2, <2>1, <2>2, <2>4 DEF IInv, Births
<1>17. Deaths'
  <2> SUFFICES ASSUME NEW d \in Conns
               PROVE  /\ In(Destroy(d), pendingFunctors_') \/ In(Destroy(d), batch) <=>
                           closed[d] /\ seen[d] = Up
                      /\ Once(Destroy(d), pendingFunctors_') /\ Once(Destroy(d), batch)
                      /\ ~(In(Destroy(d), pendingFunctors_') /\ In(Destroy(d), batch))
    BY <1>2 DEF Deaths, Destroy
  <2>1. Destroy(d) # f
    BY <1>4 DEF Destroy, Strong
  <2> QED
    BY <2>1, <1>11 DEF IInv, Deaths
<1>18. Held'
  <2>1. \A g \in Functor : g[1] \in Strong /\ In(g, pendingFunctors_) =>
                              g[2] \in HeldBy(pendingFunctors_)
    BY HeldByFacts DEF IInv, ConnTypes
  <2>2. \A g \in Functor : g[1] \in Strong /\ In(g, pendingFunctors_') => In(g, pendingFunctors_)
    BY <1>4, <1>11
  <2> QED
    BY <1>2, <1>7, <2>1, <2>2 DEF IInv, Held
<1>19. Stack'
  <2>1. \A n \in CallNames : \A c \in Conns : In(<<n, c>>, calls) /\ fault' = "none" => c \in live'
    <3> SUFFICES ASSUME NEW n \in CallNames, NEW c \in Conns, In(<<n, c>>, calls), fault' = "none"
                 PROVE  c \notin gone
      BY <1>2 DEF IInv, Stack
    <3>1. calls \in Seq(Call) /\ calls # <<>>
      <4>1. \A x : ~In(x, <<>>)
        BY SmallFacts
      <4> QED
        BY <4>1 DEF IInv, ConnTypes
    <3>2. Head(calls) \in Call /\ In(Head(calls), calls)
      BY <3>1, TailFacts
    <3>3. Head(calls)[2] = c
      <4>1. PICK m \in CallNames, d \in Conns : Head(calls) = <<m, d>>
        BY <3>2 DEF Call
      <4>2. In(<<m, d>>, calls)
        BY <3>2, <4>1
      <4>3. c = d
        BY <4>2 DEF IInv, Stack
      <4> QED
        BY <4>1, <4>3
    <3>4. CASE phase = "handle"
      BY <3>1, <3>3, <3>4, <1>2
    <3>5. CASE phase = "functors"
      BY <3>5, <1>7 DEF IInv, Stack
    <3> QED
      BY <3>1, <3>4, <3>5 DEF IInv, Stack, ServerTypes
  <2> QED
    BY <1>2, <2>1 DEF IInv, Stack
<1>20. Reading'
  <2>1. \A d \in Conns : d \in active => state_'[d] # "none"
    BY <1>5, <1>10 DEF IInv, Reading
  <2> QED
    BY <1>2, <1>9, <2>1 DEF IInv, Reading
<1>21. Shut' /\ OwnQueue' /\ OwnConn' /\ OwnFault'
  BY <1>6 DEF Shut, OwnQueue, OwnConn, OwnFault
<1> QED
  BY <1>9, <1>12, <1>13, <1>14, <1>15, <1>16, <1>17, <1>18, <1>19, <1>20, <1>21 DEF IInv

-----------------------------------------------------------------------------
(* The poll and the events.                                                  *)

(* What epoll_wait reports: the end of the stream only together with input,  *)
(* and input only to who waits for it.                                       *)
LEMMA ReventsFacts ==
  ASSUME NEW s, NEW i
  PROVE  /\ Revents(s, i) \subseteq EventNames
         /\ "RDHUP" \in Revents(s, i) => "IN" \in Revents(s, i)
         /\ "IN" \in Revents(s, i) => "R" \in i
BY DEF Revents, EventNames

(* epoll_wait and fillActiveChannels (Epoller.cc:27-58).                     *)
LEMMA EpollKeeps ==
  ASSUME IInv, fault = "none", epoll
  PROVE  IInv'
<1> DEFINE cs(f) == {c \in live : fd[c] = f}
           ev(f) == IF interest[f] = NotWatched \/ cs(f) = {} THEN {}
                    ELSE Revents(sock[CHOOSE c \in cs(f) : TRUE], interest[f])
           hot == {f \in Fds : ev(f) # {}}
<1>1. /\ phase = "poll" /\ phase' = "handle"
      /\ active' = ({channels_[f] : f \in hot} \ {NoConn})
                     \cup (IF listenning_ /\ backlog > 0 THEN {0} ELSE {})
      /\ revents_' = [c \in Conns |-> IF fd[c] \in hot /\ channels_[fd[c]] = c
                                      THEN ev(fd[c]) ELSE revents_[c]]
      /\ fault' = IF \A f \in hot : channels_[f] # NoConn THEN fault ELSE "assert"
      /\ UNCHANGED <<fd, events_, registeredInEpoller_, channels_, interest, state_,
                     outputBuffer_, sock, pendingFunctors_, calls, sends, accepted, written,
                     closed, seen, batch, kept, nextConnfd_, connections_, live, sending,
                     foreign, backlog>>
  BY DEF epoll, connVars, Assert_
<1>2. \A f \in Fds : /\ ev(f) \subseteq EventNames
                     /\ "RDHUP" \in ev(f) => "IN" \in ev(f)
                     /\ "IN" \in ev(f) => "R" \in interest[f]
                     /\ ev(f) # {} => interest[f] # NotWatched
  BY ReventsFacts
<1> HIDE DEF ev
<1>3. hot \subseteq Fds /\ \A f \in hot : interest[f] # NotWatched
  BY <1>2
<1>4. \A d \in Conns : d \in active' => \E f \in hot : channels_[f] = d
  BY <1>1 DEF Conns
<1> HIDE DEF hot
<1>5. \A d \in Conns : d \in active' => d < nextConnfd_ /\ state_[d] # "none"
  <2> SUFFICES ASSUME NEW d \in Conns, d \in active'
               PROVE  d < nextConnfd_ /\ state_[d] # "none"
    OBVIOUS
  <2>1. PICK f \in Fds : channels_[f] = d
    BY <1>3, <1>4
  <2>2. d < nextConnfd_
    BY <2>1 DEF IInv, EpollInv, Kernel, Conns, NoConn
  <2> QED
    BY <2>2 DEF IInv, Life, ServerTypes, Conns
<1>6. active' \subseteq Conns \cup {0}
  BY <1>1, <1>3 DEF IInv, EpollInv, EpollTypes
<1>7. ~foreign => /\ \A f \in hot : channels_[f] # NoConn
                  /\ active' \subseteq live \cup {0}
  BY <1>1, <1>3 DEF IInv, EpollInv, EpollAgrees
<1>8. \A d \in Conns : /\ revents_'[d] \subseteq EventNames
                       /\ "RDHUP" \in revents_'[d] => "IN" \in revents_'[d]
  <2> SUFFICES ASSUME NEW d \in Conns
               PROVE  /\ revents_'[d] \subseteq EventNames
                      /\ "RDHUP" \in revents_'[d] => "IN" \in revents_'[d]
    OBVIOUS
  <2>1. CASE fd[d] \in hot /\ channels_[fd[d]] = d
    <3>1. revents_'[d] = ev(fd[d]) /\ fd[d] \in Fds
      BY <2>1, <1>1, <1>3
    <3> QED
      BY <3>1, <1>2
  <2>2. CASE ~(fd[d] \in hot /\ channels_[fd[d]] = d)
    <3>1. revents_'[d] = revents_[d]
      BY <2>2, <1>1
    <3> QED
      BY <3>1 DEF IInv, ServerTypes, Reading
  <2> QED
    BY <2>1, <2>2
<1>9. revents_' \in [Conns -> SUBSET EventNames]
  BY <1>1, <1>8
<1>10. \A d \in Conns : d \in live /\ "IN" \in revents_'[d] /\ d \in active' => "R" \in events_[d]
  <2> SUFFICES ASSUME NEW d \in Conns, d \in live, "IN" \in revents_'[d], d \in active'
               PROVE  "R" \in events_[d]
    OBVIOUS
  <2>1. PICK f \in hot : channels_[f] = d
    BY <1>4
  <2>2. f \in Fds /\ interest[f] # NotWatched
    BY <1>3
  <2>3. fd[d] = f
    BY <2>1, <2>2 DEF IInv, EpollInv, Kernel, Conns, NoConn
  <2>4. "R" \in interest[f]
    BY <2>1, <2>2, <2>3, <1>1, <1>2
  <2>5. interest[f] = events_[d]
    BY <2>2, <2>3 DEF IInv, EpollInv, Kernel
  <2> QED
    BY <2>4, <2>5
<1>11. calls = <<>> /\ batch = <<>> /\ kept = {} /\ \A x : ~In(x, <<>>)
  BY <1>1, SmallFacts DEF IInv, Stack
<1>12. ConnTypes'
  BY <1>1 DEF IInv, ConnTypes
<1>13. ServerTypes'
  BY <1>1, <1>6, <1>9 DEF IInv, ServerTypes
<1>14. Stack'
  BY <1>1, <1>11 DEF Stack
<1>15. Reading'
  BY <1>1, <1>5, <1>8, <1>10, <1>11 DEF IInv, Reading
<1>16. OwnQueue'
  BY <1>1, <1>7 DEF IInv, OwnQueue
<1>17. OwnFault'
  BY <1>1, <1>7 DEF IInv, OwnFault
<1> QED
  BY <1>1, <1>12, <1>13, <1>14, <1>15, <1>16, <1>17, Frames DEF IInv

(* The events of a channel (EventLoop.cc:74-76, Channel.cc:55-80).           *)
LEMMA HandleEventKeeps ==
  ASSUME IInv, fault = "none", NEW c \in Conns, HandleEvent(c)
  PROVE  IInv'
<1>1. PICK r : r = revents_[c]
  OBVIOUS
<1>2. /\ phase = "handle" /\ calls = <<>> /\ c \in active /\ active' = active \ {c}
      /\ calls' = handleEvent(c, r)
      /\ fault' = IF c \in live THEN fault ELSE "dangling"
      /\ UNCHANGED <<fd, events_, registeredInEpoller_, channels_, interest, state_,
                     outputBuffer_, sock, pendingFunctors_, sends, accepted, written, closed,
                     seen, phase, revents_, batch, kept, nextConnfd_, connections_, live,
                     sending, foreign, backlog>>
  BY <1>1 DEF HandleEvent
<1>3. "RDHUP" \in r => "IN" \in r
  BY <1>1 DEF IInv, Reading
<1>4. /\ calls' \in Seq(Call)
      /\ \A x : In(x, calls') => \/ x = <<"handleError", c>>
                                 \/ x = <<"handleRead", c>> /\ "IN" \in r
                                 \/ x = <<"handleWrite", c>>
      /\ \A x : Once(x, calls')
  BY <1>2, <1>3, HandleEventFacts
<1>5. \A n \in CallNames : \A d \in Conns : In(<<n, d>>, calls') =>
        /\ d = c /\ n \in {"handleError", "handleRead", "handleWrite"}
        /\ n = "handleRead" => "IN" \in r
  BY <1>4
<1>6. \A x : ~In(x, calls)
  BY <1>2, BeginCalls
<1>7. ConnTypes'
  BY <1>2, <1>4 DEF IInv, ConnTypes
<1>8. ServerTypes'
  BY <1>2 DEF IInv, ServerTypes
<1>9. Births'
  <2>1. \A d \in Conns : ~In(<<"connectEstablished", d>>, calls')
    BY <1>5 DEF CallNames
  <2> QED
    BY <1>2, <1>6, <2>1 DEF IInv, Births
<1>10. Stack'
  <2>1. fault' = "none" => c \in live
    BY <1>2
  <2> QED
    BY <1>2, <1>4, <1>5, <2>1 DEF IInv, Stack
<1>11. Reading'
  <2>1. \A d \in Conns : In(<<"handleRead", d>>, calls') => d = c /\ "IN" \in revents_[c]
    BY <1>1, <1>5 DEF CallNames
  <2> QED
    BY <1>2, <2>1 DEF IInv, Reading
<1>12. OwnQueue'
  BY <1>2 DEF IInv, OwnQueue
<1>13. OwnConn'
  <2>1. \A d \in Conns : ~In(<<"removeChannel", d>>, calls')
    BY <1>5 DEF CallNames
  <2> QED
    BY <1>2, <1>6, <2>1 DEF IInv, OwnConn
<1>14. OwnFault'
  <2>1. ~foreign => c \in live
    BY <1>2 DEF IInv, OwnQueue, Conns
  <2> QED
    BY <1>2, <2>1 DEF IInv, OwnFault
<1> QED
  BY <1>2, <1>7, <1>8, <1>9, <1>10, <1>11, <1>12, <1>13, <1>14, Frames DEF IInv

(* A set of numbers that is not empty has a least.                           *)
LEMMA LeastNumber ==
  ASSUME NEW N \in SUBSET Nat, N # {}
  PROVE  \E n \in N : \A m \in N : n <= m
<1>1. PICK n \in N : \A m \in N : ~(<<m, n>> \in OpToRel(<, Nat))
  BY NatLessThanWellFounded, WFMin, Zenon
<1>2. \A m \in N : ~(m < n)
  BY <1>1 DEF OpToRel
<1> QED
  BY <1>2

(* accept gives a descriptor that no connection has (Acceptor.cc:28-39).     *)
LEMMA NewFdFree ==
  ASSUME NEW connfd \in Fds, accept(connfd)
  PROVE  NewFd \in Fds /\ \A d \in Conns : fd[d] # NewFd
<1>1. FreeFds # {}
  BY DEF accept, Fds
<1>2. FreeFds \in SUBSET Nat
  BY DEF FreeFds, Fds
<1>3. \E f \in FreeFds : \A g \in FreeFds : f <= g
  BY <1>1, <1>2, LeastNumber
<1>4. NewFd \in FreeFds
  BY <1>3 DEF NewFd
<1> QED
  BY <1>4 DEF FreeFds

(* newConnection (TcpServer.cc:53-74, Acceptor.cc:28-39).                    *)
LEMMA NewConnectionKeeps ==
  ASSUME IInv, newConnection
  PROVE  IInv'
<1>1. PICK c, f : c = nextConnfd_ /\ f = NewFd
  OBVIOUS
<1>2. /\ phase = "handle" /\ calls = <<>> /\ active' = active \ {0}
      /\ backlog > 0 /\ backlog' = backlog - 1 /\ fd' = [fd EXCEPT ![c] = f]
      /\ state_' = [state_ EXCEPT ![c] = "kConnecting"]
      /\ connections_' = connections_ \cup {c} /\ live' = live \cup {c}
      /\ calls' = <<<<"connectEstablished", c>>>> /\ nextConnfd_' = c + 1
      /\ UNCHANGED <<events_, registeredInEpoller_, channels_, interest, fault, outputBuffer_,
                     sock, pendingFunctors_, sends, accepted, written, closed, seen, phase,
                     revents_, batch, kept, sending, foreign>>
  BY <1>1 DEF newConnection, accept, setState
<1>3. f \in Fds /\ \A d \in Conns : fd[d] # f
  BY <1>1, NewFdFree DEF newConnection
<1>4. c \in Conns /\ c \in Nat
  BY <1>1, <1>2, SizesAssumption DEF IInv, ServerTypes, Conns
<1>5. /\ state_[c] = "none" /\ c \notin live /\ events_[c] = {} /\ ~closed[c]
      /\ seen[c] = <<>> /\ ~registeredInEpoller_[c] /\ c \notin active
  <2>1. state_[c] = "none"
    BY <1>1, <1>4 DEF IInv, Life
  <2> QED
    BY <2>1, <1>4 DEF IInv, Life, Reading
<1>6. \A d \in Conns : d # c => fd'[d] = fd[d] /\ state_'[d] = state_[d]
  BY <1>2 DEF IInv, EpollInv, EpollTypes, ConnTypes
<1>7. fd'[c] = f /\ state_'[c] = "kConnecting"
  BY <1>2, <1>4 DEF IInv, EpollInv, EpollTypes, ConnTypes
<1>8. \A g \in Fds : channels_[g] # c
  BY <1>1, <1>4 DEF IInv, EpollInv, EpollTypes, Kernel, Conns, NoConn
<1>9. EpollInv'
  <2>1. EpollTypes'
    BY <1>2, <1>3, <1>4, <1>6, <1>7 DEF IInv, EpollInv, EpollTypes, Fds
  <2>2. Kernel'
    <3>1. \A d, e \in live' : fd'[d] = fd'[e] => d = e
      BY <1>2, <1>3, <1>6, <1>7 DEF IInv, EpollInv, EpollTypes, Kernel
    <3>2. \A g \in Fds : channels_[g] # NoConn =>
            channels_[g] < nextConnfd_' /\ (channels_[g] \in live' => fd'[channels_[g]] = g)
      <4> SUFFICES ASSUME NEW g \in Fds, channels_[g] # NoConn
                   PROVE  channels_[g] < c + 1 /\ (channels_[g] \in live' => fd'[channels_[g]] = g)
        BY <1>2
      <4>1. /\ channels_[g] \in Conns /\ channels_[g] < c /\ channels_[g] # c
            /\ channels_[g] \in live => fd[channels_[g]] = g
        BY <1>1, <1>8 DEF IInv, EpollInv, EpollTypes, Kernel
      <4> QED
        BY <4>1, <1>2, <1>4, <1>6 DEF Conns
    <3>3. interest[f] = NotWatched
      BY <1>3 DEF IInv, EpollInv, EpollTypes, Kernel
    <3>4. \A d \in live' :
            interest[fd'[d]] = IF registeredInEpoller_[d] THEN events_[d] ELSE NotWatched
      BY <1>2, <1>5, <1>6, <1>7, <3>3 DEF IInv, EpollInv, EpollTypes, Kernel
    <3>5. \A g \in Fds : (\A d \in live' : fd'[d] # g) => interest[g] = NotWatched
      BY <1>2, <1>5, <1>6 DEF IInv, EpollInv, EpollTypes, Kernel
    <3> QED
      BY <1>2, <3>1, <3>2, <3>4, <3>5 DEF Kernel
  <2>3. EpollAgrees'
    BY <1>2, <1>5, <1>6, <1>8 DEF IInv, EpollInv, EpollTypes, EpollAgrees
  <2> QED
    BY <2>1, <2>2, <2>3 DEF EpollInv
<1>10. /\ calls' \in Seq(Call)
       /\ \A x : In(x, calls') <=> x = <<"connectEstablished", c>>
       /\ \A x : Once(x, calls')
  <2>1. <<"connectEstablished", c>> \in Call
    BY <1>4 DEF Call, CallNames
  <2> QED
    BY <1>2, <2>1, SmallFacts
<1>11. \A x : ~In(x, calls)
  BY <1>2, BeginCalls
<1>12. ConnTypes'
  <2>1. state_' \in [Conns -> States]
    BY <1>2 DEF IInv, ConnTypes, States
  <2> QED
    BY <1>2, <1>10, <2>1 DEF IInv, ConnTypes
<1>13. ServerTypes'
  <2>1. nextConnfd_' \in Nat \ {0} /\ backlog' \in Nat /\ nextConnfd_' + backlog' <= MaxConns + 1
    BY <1>1, <1>2, SizesAssumption DEF IInv, ServerTypes
  <2> QED
    BY <1>2, <2>1 DEF IInv, ServerTypes
<1>14. Shut'
  BY <1>2, <1>5, <1>6 DEF IInv, Shut
<1>15. Life'
  <2> SUFFICES ASSUME NEW d \in Conns
               PROVE  /\ state_'[d] = "none" <=> d >= c + 1
                      /\ state_'[d] = "none" =>
                           /\ d \notin live' /\ events_[d] = {} /\ ~closed[d]
                           /\ seen[d] = <<>> /\ ~registeredInEpoller_[d]
                      /\ d \in connections_' <=> state_'[d] # "none" /\ ~closed[d]
                      /\ state_'[d] # "none" /\ d \notin live' => seen[d] = UpDown
    BY <1>2 DEF Life
  <2>1. CASE d = c
    BY <2>1, <1>2, <1>4, <1>5, <1>7
  <2>2. CASE d # c
    <3>1. d >= c + 1 <=> d >= nextConnfd_
      BY <2>2, <1>1, <1>4 DEF Conns
    <3> QED
      BY <2>2, <3>1, <1>2, <1>6 DEF IInv, Life
  <2> QED
    BY <2>1, <2>2
<1>16. Births'
  <2> SUFFICES ASSUME NEW d \in Conns
               PROVE  /\ state_'[d] # "none" /\ seen[d] = <<>> <=>
                            In(<<"connectEstablished", d>>, calls')
                      /\ In(<<"connectEstablished", d>>, calls') =>
                            state_'[d] = "kConnecting" /\ ~closed[d]
    BY <1>2 DEF IInv, Births
  <2>1. CASE d = c
    BY <2>1, <1>5, <1>7, <1>10
  <2>2. CASE d # c
    <3>1. ~In(<<"connectEstablished", d>>, calls')
      BY <2>2, <1>10
    <3> QED
      BY <2>2, <3>1, <1>6, <1>11 DEF IInv, Births
  <2> QED
    BY <2>1, <2>2
<1>17. Held'
  BY <1>2 DEF IInv, Held
<1>18. Stack'
  <2>1. \A n \in CallNames, d \in Conns : In(<<n, d>>, calls') => d = c
    BY <1>10
  <2> QED
    BY <1>2, <1>5, <1>10, <2>1 DEF IInv, Stack
<1>19. Reading'
  <2>1. \A d \in Conns : ~In(<<"handleRead", d>>, calls')
    BY <1>10
  <2> QED
    BY <1>2, <1>5, <1>6, <1>7, <2>1 DEF IInv, Reading
<1>20. OwnQueue'
  BY <1>2 DEF IInv, OwnQueue
<1>21. OwnConn'
  <2>1. \A d \in Conns : ~In(<<"removeChannel", d>>, calls')
    BY <1>10
  <2>2. seen[c] # Up
    BY <1>5 DEF Up
  <2> QED
    BY <1>2, <1>6, <1>11, <2>1, <2>2 DEF IInv, OwnConn
<1> QED
  BY <1>2, <1>9, <1>12, <1>13, <1>14, <1>15, <1>16, <1>17, <1>18, <1>19, <1>20, <1>21, Frames
  DEF IInv

(* An accept that fails leaves everything to the next poll.                  *)
LEMMA AcceptFailsKeeps ==
  ASSUME IInv, acceptFails
  PROVE  IInv'
<1>1. /\ phase = "handle" /\ calls = <<>> /\ active' = active \ {0}
      /\ UNCHANGED <<epollVars, connVars, phase, revents_, batch, kept, nextConnfd_,
                     connections_, live, sending, foreign, backlog>>
  BY DEF acceptFails, accept
<1>2. \A x : ~In(x, calls)
  BY <1>1, BeginCalls
<1>3. ServerTypes'
  BY <1>1 DEF IInv, ServerTypes
<1>4. Stack'
  BY <1>1, <1>2 DEF IInv, Stack, connVars
<1>5. Reading'
  BY <1>1 DEF IInv, Reading, epollVars, connVars
<1>6. OwnQueue'
  BY <1>1 DEF IInv, OwnQueue, connVars
<1> QED
  BY <1>1, <1>3, <1>4, <1>5, <1>6, Frames DEF IInv, epollVars, connVars

-----------------------------------------------------------------------------
(* Every step keeps the invariant.                                           *)
LEMMA Consecution ==
  IInv /\ [Next]_vars => IInv'
<1> SUFFICES ASSUME IInv, [Next]_vars PROVE IInv'
  OBVIOUS
<1>1. CASE UNCHANGED vars
  BY <1>1, StartKeeps
<1>2. CASE Next
  <2>1. fault = "none"
    BY <1>2 DEF Next
  <2>2. CASE start
    BY <2>2, StartKeeps
  <2>3. CASE LoopStep
    <3>1. CASE epoll
      BY <3>1, <2>1, EpollKeeps
    <3>2. CASE newConnection
      BY <3>2, NewConnectionKeeps
    <3>3. CASE acceptFails
      BY <3>3, AcceptFailsKeeps
    <3>4. CASE doPendingFunctions
      BY <3>4, DoPendingKeeps
    <3>5. CASE EndFunctors
      BY <3>5, EndFunctorsKeeps
    <3>6. ASSUME NEW c \in Conns,
                 \/ HandleEvent(c) \/ ConnCall(c) \/ removeConnection(c) \/ RunDestroyed(c)
                 \/ RunWriteComplete(c) \/ RunShutdown(c)
                 \/ \E m \in 1 .. MaxSends : RunSend(c, m)
          PROVE  IInv'
      <4>1. CASE HandleEvent(c)
        BY <4>1, <2>1, HandleEventKeeps
      <4>2. CASE ConnCall(c)
        <5>1. UNCHANGED serverVars
          BY <4>2 DEF ConnCall
        <5>2. CASE connectEstablished(c, NumThreads > 0)
          BY <5>1, <5>2, <2>1, ConnectEstablishedKeeps
        <5>3. CASE handleError(c) \/ handleReadData(c) \/ handleReadError(c) \/ ClientReturn(c)
          BY <5>1, <5>3, <2>1, SockCallKeeps
        <5>4. CASE handleWrite(c)
          BY <5>1, <5>4, <2>1, HandleWriteKeeps
        <5>5. CASE removeChannel(c)
          BY <5>1, <5>5, <2>1, RemoveChannelKeeps
        <5> QED
          BY <4>2, <5>2, <5>3, <5>4, <5>5 DEF ConnCall
      <4>3. CASE removeConnection(c)
        BY <4>3, <2>1, RemoveConnectionKeeps
      <4>4. CASE RunDestroyed(c)
        BY <4>4, <2>1, DestroyedKeeps
      <4>5. CASE RunWriteComplete(c)
        BY <4>5, WriteCompleteKeeps
      <4>6. CASE RunShutdown(c)
        BY <4>6, <2>1, RunShutdownKeeps
      <4>7. CASE \E m \in 1 .. MaxSends : RunSend(c, m)
        BY <4>7, <2>1, RunSendKeeps
      <4> QED
        BY <3>6, <4>1, <4>2, <4>3, <4>4, <4>5, <4>6, <4>7
    <3> QED
      BY <2>3, <3>1, <3>2, <3>3, <3>4, <3>5, <3>6 DEF LoopStep
  <2>4. CASE ClientCall
    <3>1. PICK d \in Known : send(d) \/ shutdown(d)
      BY <2>4 DEF ClientCall
    <3>2. UNCHANGED serverVars
      BY <2>4 DEF ClientCall
    <3> QED
      BY <3>1, <3>2, <2>1, ClientSendKeeps, ClientShutdownKeeps
  <2>5. CASE PeerConnects
    BY <2>5, PeerConnectsKeeps
  <2>6. ASSUME NEW t \in Senders, SenderStep(t) PROVE IInv'
    BY <2>6, <2>1, SenderQueuesKeeps, SenderBeginsKeeps DEF SenderStep
  <2>7. ASSUME NEW c \in Conns, PeerStep(c) PROVE IInv'
    BY <2>7, PeerKeeps
  <2> QED
    BY <1>2, <2>2, <2>3, <2>4, <2>5, <2>6, <2>7 DEF Next
<1> QED
  BY <1>1, <1>2

(* The inductive invariant holds, whatever the connections, the peers, the   *)
(* application and other threads do (TcpServer.cc, TcpConnection.cc,         *)
(* Epoller.cc).                                                              *)
THEOREM Invariance ==
  Spec => []IInv
BY InitHolds, Consecution, PTL DEF Spec

(* The variables have their types, the connections of the map exist, and a   *)
(* connection has an open descriptor exactly while it exists                 *)
(* (Socket.cc:9-11, TcpServer.cc:53-93).                                     *)
THEOREM TypeCorrect ==
  Spec => []TypeOK
<1>1. IInv => TypeOK
  BY DEF IInv, EpollInv, EpollTypes, ConnTypes, ServerTypes, TypeOK
<1> QED
  BY <1>1, Invariance, PTL

(* With one loop and only its thread using connections, no assert of         *)
(* TcpConnection, TcpServer, Channel or Epoller fails and no destroyed       *)
(* connection is used, whatever the peers and the application do             *)
(* (TcpConnection.cc:108, 170, 179, TcpServer.cc:89, Epoller.cc:53-94).      *)
THEOREM NoFaultCorrect ==
  ASSUME NumThreads = 0
  PROVE  Spec => []NoFault
<1>1. IInv => NoFault
  BY DEF IInv, OwnFault, NoFault
<1> QED
  BY <1>1, Invariance, PTL

(* The loop's map, the kernel's list and the channels agree                  *)
(* (Epoller.cc:60-123).                                                      *)
THEOREM EpollCorrect ==
  Spec => []EpollAgrees
<1>1. IInv => EpollAgrees
  BY DEF IInv, EpollInv
<1> QED
  BY <1>1, Invariance, PTL

(* Whichever threads send, what is written to a socket and then buffered is  *)
(* what was handed to sendInLoop, in order (TcpConnection.cc:57-86,          *)
(* 130-157).                                                                 *)
THEOREM WireCorrect ==
  Spec => []WireInOrder
<1>1. IInv => WireInOrder
  BY DEF IInv, Wire, WireInOrder
<1> QED
  BY <1>1, Invariance, PTL

(* A FIN goes out only when the output buffer is empty                       *)
(* (TcpConnection.cc:88-103, 145-147).                                       *)
THEOREM FlushCorrect ==
  Spec => []ShutdownFlushes
<1>1. IInv => ShutdownFlushes
  BY DEF IInv, Shut, ShutdownFlushes
<1> QED
  BY <1>1, Invariance, PTL

(* The application is told of a connection up and then down, and of the      *)
(* second before the connection is destroyed (TcpConnection.cc:112, 182,     *)
(* TcpServer.cc:81-93).                                                      *)
THEOREM UpDownCorrect ==
  Spec => []UpThenDown
<1>1. IInv => UpThenDown
  BY DEF IInv, ConnTypes, Life, Up, UpDown, UpThenDown
<1> QED
  BY <1>1, Invariance, PTL
=============================================================================
