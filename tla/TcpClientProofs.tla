-------------------------- MODULE TcpClientProofs --------------------------
(***************************************************************************)
(* Proofs about TcpClient for any number of calls and connections: the     *)
(* inductive invariant IInv, and from it the invariants that the run of    *)
(* TcpClient checks.  What the Connector has under way (a call of start,   *)
(* a functor of it, a timer, a channel, a connection that shall be made    *)
(* again) is never more than one thing.                                    *)
(***************************************************************************)
EXTENDS TcpClient, SequenceTheorems, TLAPS

-----------------------------------------------------------------------------
(* The inductive invariant.                                                  *)

Members ==
  [connect_ : BOOLEAN, state_ : {"kDisconnected", "kConnecting", "kConnected"},
   channel_ : {"none", "active", "removed"}, retryDelayMs_ : Delays,
   timers : Seq(Delays), open : Nat, gaveUp : BOOLEAN,
   fault : {"none", "startInLoop: state_", "connecting: channel_"}]

FunctorNames == {"startInLoop", "resetChannel", "shutdownInLoop", "connectDestoryed"}
Functors == {x \in [f : FunctorNames, id : Int] : x.f = "startInLoop" => x.id = 0}

(* The functors in the order in which they are run.                          *)
Queue == batch \o pending

Has(q, f) == \E i \in DOMAIN q : q[i].f = f
Once(q, f) == \A i, j \in DOMAIN q : q[i].f = f /\ q[j].f = f => i = j

HasStart == Has(Queue, "startInLoop")
HasReset == Has(Queue, "resetChannel")
HasShutdown == Has(Queue, "shutdownInLoop")
HasDestroy == Has(Queue, "connectDestoryed")
OneDestroy == Once(Queue, "connectDestoryed")

Types ==
  /\ connector \in Members
  /\ connect_ \in BOOLEAN /\ retry_ \in BOOLEAN /\ connection_ \in BOOLEAN
  /\ userRef \in BOOLEAN /\ keepAlive \in BOOLEAN /\ misused \in BOOLEAN
  /\ conn \in {"none", "kConnecting", "kConnected", "kDisconnecting"}
  /\ nextConnId_ \in Nat /\ calls \in 0 .. MaxCalls
  /\ alive \in {"all", "connector", "none"}
  /\ active \subseteq {"connector", "connection", "timer", "keepAlive"}
  /\ pc \in {"poll", "handle", "establish", "restart", "functors"}
  /\ user \in {"idle", "start", "stop", "shutdown"}
  /\ batch \in Seq(Functors) /\ pending \in Seq(Functors)

(* Only handlers queue the two functors that only the loop's thread queues,  *)
(* and the batch that follows runs them all.                                 *)
OfHandlers == Has(pending, "resetChannel") \/ Has(pending, "connectDestoryed")

Phases ==
  /\ pc # "functors" => batch = <<>>
  /\ pc \in {"poll", "functors"} => active = {} /\ ~OfHandlers

Open(channel, c) == (IF channel = "active" THEN 1 ELSE 0) + (IF c # "none" THEN 1 ELSE 0)

(* What holds until a fault, however the client is used.                     *)
Always ==
  /\ connector.fault = "none"
  /\ Phases
  /\ "connector" \in active => connector.channel_ = "active"
  /\ "connection" \in active => conn # "none" /\ ~HasDestroy
  /\ pc = "establish" => conn # "none"
  /\ HasDestroy => conn # "none"
  /\ OneDestroy
  /\ connector.open >= Open(connector.channel_, conn)

(* connectDestoryed is the last functor of a connection, and the others are  *)
(* those of the connection there is.                                         *)
Ordered(q, id) ==
  /\ Once(q, "startInLoop") /\ Once(q, "resetChannel")
  /\ \A i, j \in DOMAIN q :
       i < j /\ q[i].f = "connectDestoryed" => q[j].f # "shutdownInLoop"
  /\ \A i \in DOMAIN q : q[i].f = "shutdownInLoop" => q[i].id = id

InOrder == Ordered(Queue, nextConnId_ - 1)

Starting == user = "start" \/ HasStart

OneAttempt ==
  /\ ~(user = "start" /\ HasStart)
  /\ Starting =>
       /\ connector.state_ = "kDisconnected" /\ connector.channel_ = "none"
       /\ connector.timers = <<>>
       /\ pc # "restart" /\ ~connection_ /\ alive # "none"
  /\ connector.timers # <<>> =>
       /\ Len(connector.timers) = 1
       /\ connector.state_ = "kDisconnected" /\ connector.channel_ # "active"
       /\ pc # "restart" /\ ~connection_ /\ alive # "none"
  /\ connector.channel_ = "active" => pc # "restart" /\ ~connection_ /\ alive = "all"
  /\ connector.channel_ = "removed" <=> HasReset

OneConnection ==
  /\ connection_ =>
       /\ alive = "all" /\ conn # "none" /\ ~HasDestroy
       /\ connector.state_ = "kConnected" /\ pc # "restart"
  /\ conn # "none" => connection_ \/ HasDestroy \/ alive = "none"
  /\ HasShutdown => conn # "none"
  /\ pc = "restart" => connector.channel_ = "none"

(* What was active when the loop polled still is what it was.                *)
ActiveFresh ==
  /\ "timer" \in active => connector.timers # <<>> /\ connector.channel_ = "none"
  /\ "connector" \in active => conn = "none"
  /\ "connection" \in active => connector.channel_ = "none"
  /\ "keepAlive" \in active =>
       alive = "connector" /\ connector.channel_ = "none" /\ connector.timers = <<>> /\ ~HasStart

Deleted ==
  /\ alive # "all" => user = "idle" /\ pc # "restart" /\ pc # "establish"
  /\ alive = "connector" =>
       /\ ~connector.connect_
       /\ \A i \in DOMAIN connector.timers : connector.timers[i] <= KeepAliveMs
  /\ keepAlive <=> alive = "connector"
  /\ alive = "none" => connector.channel_ = "none"

(* What holds as long as the client is used as it must be.                   *)
Disciplined ==
  /\ fault = "none"
  /\ InOrder
  /\ OneAttempt /\ OneConnection /\ ActiveFresh /\ Deleted
  /\ connector.open = Open(connector.channel_, conn)

IInv ==
  /\ Types
  /\ fault = "none" => Always
  /\ ~misused => Disciplined

-----------------------------------------------------------------------------
(* The queue of functors.                                                    *)

(* A functor that is appended.                                              *)
LEMMA AppendFacts ==
  ASSUME NEW q \in Seq(Functors), NEW x \in Functors, NEW f \in FunctorNames, NEW id \in Int
  PROVE  /\ Append(q, x) \in Seq(Functors)
         /\ Has(Append(q, x), f) <=> Has(q, f) \/ x.f = f
         /\ Once(q, f) /\ (x.f = f => ~Has(q, f)) => Once(Append(q, x), f)
<1> DEFINE r == Append(q, x)
<1>1. r \in Seq(Functors) /\ Len(r) = Len(q) + 1 /\ Len(q) \in Nat
      /\ DOMAIN r = 1 .. Len(q) + 1 /\ DOMAIN q = 1 .. Len(q)
      /\ r[Len(q) + 1] = x /\ \A i \in 1 .. Len(q) : r[i] = q[i]
  OBVIOUS
<1> HIDE DEF r
<1>2. Has(r, f) <=> Has(q, f) \/ x.f = f
  BY <1>1 DEF Has
<1>3. Once(q, f) /\ (x.f = f => ~Has(q, f)) => Once(r, f)
  BY <1>1 DEF Once, Has
<1> QED BY <1>1, <1>2, <1>3 DEF r

(* It keeps the order if it may be last.                                    *)
LEMMA OrderedAppend ==
  ASSUME NEW q \in Seq(Functors), NEW x \in Functors, NEW m \in Int, NEW n \in Int,
         Ordered(q, m), m = n \/ ~Has(q, "shutdownInLoop"),
         x.f \in {"startInLoop", "resetChannel"} => ~Has(q, x.f),
         x.f = "shutdownInLoop" => ~Has(q, "connectDestoryed") /\ x.id = n
  PROVE  Ordered(Append(q, x), n)
<1> DEFINE r == Append(q, x)
<1>1. r \in Seq(Functors) /\ Len(r) = Len(q) + 1 /\ Len(q) \in Nat
      /\ DOMAIN r = 1 .. Len(q) + 1 /\ DOMAIN q = 1 .. Len(q)
      /\ r[Len(q) + 1] = x /\ \A i \in 1 .. Len(q) : r[i] = q[i]
  OBVIOUS
<1>2. Once(r, "startInLoop") /\ Once(r, "resetChannel")
  BY AppendFacts DEF Ordered, FunctorNames
<1> HIDE DEF r
<1>3. \A i, j \in DOMAIN r : i < j /\ r[i].f = "connectDestoryed" => r[j].f # "shutdownInLoop"
  BY <1>1 DEF Ordered, Has
<1>4. \A i \in DOMAIN r : r[i].f = "shutdownInLoop" => r[i].id = n
  BY <1>1 DEF Ordered, Has
<1> QED BY <1>2, <1>3, <1>4 DEF Ordered, r

(* The first functor is taken away.                                         *)
LEMMA TailFacts ==
  ASSUME NEW q \in Seq(Functors), q # <<>>, NEW f \in FunctorNames, NEW n \in Int
  PROVE  /\ Tail(q) \in Seq(Functors)
         /\ Has(q, Head(q).f) /\ Head(q) \in Functors
         /\ Has(Tail(q), f) => Has(q, f)
         /\ Has(q, f) /\ Head(q).f # f => Has(Tail(q), f)
         /\ Once(q, f) => Once(Tail(q), f) /\ (Head(q).f = f => ~Has(Tail(q), f))
         /\ Ordered(q, n) => Ordered(Tail(q), n)
         /\ Ordered(q, n) /\ Head(q).f = "shutdownInLoop" => Head(q).id = n
         /\ Ordered(q, n) /\ Head(q).f = "connectDestoryed" => ~Has(Tail(q), "shutdownInLoop")
<1> DEFINE r == Tail(q)
<1>1. r \in Seq(Functors) /\ Len(q) \in Nat \ {0} /\ Len(r) = Len(q) - 1
      /\ DOMAIN r = 1 .. Len(q) - 1 /\ DOMAIN q = 1 .. Len(q)
      /\ q[1] = Head(q) /\ Head(q) \in Functors /\ \A i \in 1 .. Len(q) - 1 : r[i] = q[i + 1]
  OBVIOUS
<1> HIDE DEF r
<1>2. Has(q, Head(q).f)
  BY <1>1 DEF Has
<1>3. \A g : Has(r, g) => Has(q, g)
  BY <1>1 DEF Has
<1>4. ASSUME Has(q, f), Head(q).f # f PROVE Has(r, f)
  <2>1. PICK i \in DOMAIN q : q[i].f = f
    BY <1>4 DEF Has
  <2>2. i # 1 /\ i - 1 \in DOMAIN r /\ r[i - 1] = q[i]
    BY <2>1, <1>1, <1>4
  <2> QED BY <2>1, <2>2 DEF Has
<1>7. \A i \in DOMAIN r : i \in Int /\ i + 1 # 1 /\ i + 1 \in DOMAIN q /\ r[i] = q[i + 1]
  BY <1>1
<1>5. ASSUME NEW g, Once(q, g) PROVE Once(r, g) /\ (Head(q).f = g => ~Has(r, g))
  <2>1. ASSUME NEW i \in DOMAIN r, NEW j \in DOMAIN r, r[i].f = g, r[j].f = g PROVE i = j
    <3>1. i + 1 = j + 1
      BY <1>7, <1>5, <2>1 DEF Once
    <3> QED BY <1>7, <3>1
  <2>2. ASSUME Head(q).f = g, NEW i \in DOMAIN r, r[i].f = g PROVE FALSE
    <3>1. 1 \in DOMAIN q /\ q[1].f = g
      BY <1>1, <2>2
    <3>2. i + 1 = 1
      BY <1>7, <1>5, <2>2, <3>1 DEF Once
    <3> QED BY <1>7, <3>2
  <2> QED BY <2>1, <2>2 DEF Once, Has
<1>6. ASSUME Ordered(q, n)
      PROVE  /\ Ordered(r, n)
             /\ Head(q).f = "shutdownInLoop" => Head(q).id = n
             /\ Head(q).f = "connectDestoryed" => ~Has(r, "shutdownInLoop")
  <2>1. Once(r, "startInLoop") /\ Once(r, "resetChannel")
    BY <1>5, <1>6 DEF Ordered
  <2>2. \A i, j \in DOMAIN r : i < j /\ r[i].f = "connectDestoryed" => r[j].f # "shutdownInLoop"
    <3> SUFFICES ASSUME NEW i \in DOMAIN r, NEW j \in DOMAIN r, i < j,
                        r[i].f = "connectDestoryed"
                 PROVE  r[j].f # "shutdownInLoop"
      OBVIOUS
    <3>1. i + 1 < j + 1 /\ i + 1 \in DOMAIN q /\ j + 1 \in DOMAIN q
      BY <1>7
    <3> QED BY <1>7, <1>6, <3>1 DEF Ordered
  <2>3. \A i \in DOMAIN r : r[i].f = "shutdownInLoop" => r[i].id = n
    BY <1>1, <1>6 DEF Ordered
  <2>4. Head(q).f = "shutdownInLoop" => Head(q).id = n
    BY <1>1, <1>6 DEF Ordered
  <2>5. Head(q).f = "connectDestoryed" => ~Has(r, "shutdownInLoop")
    BY <1>1, <1>6 DEF Ordered, Has
  <2> QED BY <2>1, <2>2, <2>3, <2>4, <2>5 DEF Ordered
<1> QED BY <1>1, <1>2, <1>3, <1>4, <1>5, <1>6 DEF r

(* How the queue changes with its two parts.                                 *)
LEMMA ConcatFacts ==
  ASSUME NEW b \in Seq(Functors), NEW p \in Seq(Functors), NEW x \in Functors
  PROVE  /\ b \o p \in Seq(Functors)
         /\ b \o Append(p, x) = Append(b \o p, x)
         /\ b = <<>> => b \o p = p
         /\ p = <<>> => b \o p = b
         /\ b # <<>> => /\ b \o p # <<>> /\ Head(b \o p) = Head(b)
                        /\ Tail(b \o p) = Tail(b) \o p
<1>1. b \o p \in Seq(Functors)
  OBVIOUS
<1>2. b \o Append(p, x) = Append(b \o p, x)
  OBVIOUS
<1>3. b = <<>> => b \o p = p
  OBVIOUS
<1>4. p = <<>> => b \o p = b
  OBVIOUS
<1>5. b # <<>> => b \o p # <<>> /\ Head(b \o p) = Head(b)
  OBVIOUS
<1>6. b # <<>> => Tail(b \o p) = Tail(b) \o p
  OBVIOUS
<1> QED BY <1>1, <1>2, <1>3, <1>4, <1>5, <1>6

-----------------------------------------------------------------------------
(* The operations of the Connector.                                          *)

(* A delay that is doubled is a delay again, for it is cut off.              *)
LEMMA DelayFacts ==
  ASSUME NEW k \in Delays
  PROVE  (IF 2 * k < kMaxRetryDelayMs THEN 2 * k ELSE kMaxRetryDelayMs) \in Delays
<1>1. k \in Int /\ 500 <= k /\ k <= 30000
  BY DEF Delays, kInitRetryDelayMs, kMaxRetryDelayMs
<1> QED BY <1>1 DEF Delays, kInitRetryDelayMs, kMaxRetryDelayMs

(* retry() closes the socket, and waits for a timer unless it was stopped.   *)
LEMMA RetryFacts ==
  ASSUME NEW c \in Members, c.open > 0
  PROVE  /\ retry(c) \in Members
         /\ retry(c).connect_ = c.connect_ /\ retry(c).channel_ = c.channel_
         /\ retry(c).fault = c.fault
         /\ retry(c).open = c.open - 1 /\ retry(c).state_ = "kDisconnected"
         /\ \/ retry(c).timers = c.timers
            \/ c.connect_ /\ retry(c).timers = Append(c.timers, c.retryDelayMs_)
<1> DEFINE closed == [closefd(c) EXCEPT !.state_ = "kDisconnected"]
           delay == IF 2 * closed.retryDelayMs_ < kMaxRetryDelayMs THEN 2 * closed.retryDelayMs_
                    ELSE kMaxRetryDelayMs
<1>0. c.open \in Nat
  BY DEF Members
<1>a. PICK k \in Delays : k = c.retryDelayMs_
  BY DEF Members
<1>b. PICK t \in Seq(Delays) : t = c.timers
  BY DEF Members
<1>1. PICK n \in Nat : n = c.open - 1
  BY <1>0
<1>2. closed = [[c EXCEPT !.open = n] EXCEPT !.state_ = "kDisconnected"]
  BY <1>1 DEF closefd
<1>3. /\ closed \in Members
      /\ closed.connect_ = c.connect_ /\ closed.channel_ = c.channel_ /\ closed.fault = c.fault
      /\ closed.open = n /\ closed.state_ = "kDisconnected"
      /\ closed.timers = c.timers /\ closed.retryDelayMs_ = c.retryDelayMs_
  BY <1>2, Zenon DEF Members
<1>4. retry(c) = IF ~c.connect_ THEN closed
                 ELSE [closed EXCEPT !.timers = Append(closed.timers, c.retryDelayMs_),
                                     !.retryDelayMs_ = delay]
  BY DEF retry
<1> HIDE DEF closed
<1>5. (IF 2 * k < kMaxRetryDelayMs THEN 2 * k ELSE kMaxRetryDelayMs) \in Delays
  BY DelayFacts
<1>6. PICK m \in Delays : m = delay
  BY <1>3, <1>5, <1>a
<1> HIDE DEF delay
<1>c. Append(t, k) \in Seq(Delays)
  OBVIOUS
<1>7. PICK s \in Seq(Delays) : s = Append(c.timers, c.retryDelayMs_)
  BY <1>a, <1>b, <1>c
<1>8. CASE ~c.connect_
  BY <1>1, <1>3, <1>4, <1>8
<1>9. CASE c.connect_
  <2>1. retry(c) = [closed EXCEPT !.timers = s, !.retryDelayMs_ = m]
    BY <1>3, <1>4, <1>6, <1>7, <1>9
  <2>2. /\ retry(c) \in Members
        /\ retry(c).connect_ = closed.connect_ /\ retry(c).channel_ = closed.channel_
        /\ retry(c).fault = closed.fault /\ retry(c).open = closed.open
        /\ retry(c).state_ = closed.state_ /\ retry(c).timers = s
    BY <1>3, <2>1, Zenon DEF Members
  <2> QED BY <1>1, <1>3, <1>7, <1>9, <2>2
<1> QED BY <1>8, <1>9

(* startInLoop() makes an attempt, which ends at once or has a channel.     *)
LEMMA StartFacts ==
  ASSUME NEW c \in Members, NEW d \in startInLoop(c)
  PROVE  /\ d \in Members /\ d.connect_ = c.connect_
         /\ c.channel_ = "active" => d.channel_ = "active"
         /\ d.channel_ # "active" => d.open >= c.open
         /\ d.channel_ = "active" => d.open = c.open + 1 \/ (c.channel_ = "active" /\ d.open >= c.open)
         /\ c.state_ = "kDisconnected" /\ c.channel_ = "none" =>
              /\ d.fault = c.fault
              /\ \/ /\ d.channel_ = "active" /\ d.open = c.open + 1 /\ d.timers = c.timers
                    /\ c.connect_
                 \/ /\ d.channel_ = "none" /\ d.state_ = "kDisconnected" /\ d.open = c.open
                    /\ \/ d.timers = c.timers
                       \/ c.connect_ /\ d.timers = Append(c.timers, c.retryDelayMs_)
<1> DEFINE opened == createNonblockingOrDie(c)
<1>0. c.open \in Nat
  BY DEF Members
<1>1. /\ opened \in Members
      /\ opened.connect_ = c.connect_ /\ opened.channel_ = c.channel_ /\ opened.fault = c.fault
      /\ opened.open = c.open + 1 /\ opened.state_ = c.state_ /\ opened.open > 0
      /\ opened.timers = c.timers /\ opened.retryDelayMs_ = c.retryDelayMs_
  <2>1. PICK n \in Nat : n = c.open + 1
    BY <1>0
  <2>2. opened = [c EXCEPT !.open = n]
    BY <2>1 DEF createNonblockingOrDie
  <2>3. /\ opened \in Members
        /\ opened.connect_ = c.connect_ /\ opened.channel_ = c.channel_
        /\ opened.fault = c.fault /\ opened.open = n /\ opened.state_ = c.state_
        /\ opened.timers = c.timers /\ opened.retryDelayMs_ = c.retryDelayMs_
    BY <2>2, Zenon DEF Members
  <2>4. n > 0
    BY <1>0, <2>1
  <2> QED BY <2>1, <2>3, <2>4
<1>2. \/ c.state_ # "kDisconnected" /\ d = Fail(c, "startInLoop: state_")
      \/ d = c
      \/ /\ c.connect_
         /\ \/ d = connecting(opened) \/ d = retry(opened)
            \/ d = [closefd(opened) EXCEPT !.gaveUp = TRUE]
  BY DEF startInLoop, connect
<1> HIDE DEF opened
<1>3. CASE c.state_ # "kDisconnected" /\ d = Fail(c, "startInLoop: state_")
  <2>1. /\ d \in Members /\ d.connect_ = c.connect_ /\ d.channel_ = c.channel_
        /\ d.open = c.open
    BY <1>3, Zenon DEF Fail, Members
  <2>2. d.open >= c.open
    BY <1>0, <2>1
  <2> QED BY <1>3, <2>1, <2>2
<1>4. CASE d = c
  BY <1>0, <1>4
<1>5. CASE c.connect_ /\ d = connecting(opened)
  <2>1. CASE c.channel_ # "none"
    <3>1. d = [opened EXCEPT !.fault = "connecting: channel_"]
      BY <1>1, <1>5, <2>1 DEF connecting, Fail
    <3>2. /\ d \in Members /\ d.connect_ = opened.connect_ /\ d.channel_ = opened.channel_
          /\ d.open = opened.open
      BY <1>1, <3>1, Zenon DEF Members
    <3> QED BY <1>0, <1>1, <2>1, <3>2
  <2>2. CASE c.channel_ = "none"
    <3>1. d = [opened EXCEPT !.state_ = "kConnecting", !.channel_ = "active"]
      BY <1>1, <1>5, <2>2 DEF connecting
    <3>2. /\ d \in Members /\ d.connect_ = opened.connect_ /\ d.channel_ = "active"
          /\ d.open = opened.open /\ d.fault = opened.fault /\ d.timers = opened.timers
      BY <1>1, <3>1, Zenon DEF Members
    <3> QED BY <1>0, <1>1, <1>5, <2>2, <3>2
  <2> QED BY <2>1, <2>2
<1>6. CASE c.connect_ /\ d = retry(opened)
  <2>1. d \in Members /\ d.open = c.open
    BY <1>0, <1>1, <1>6, RetryFacts
  <2>2. d.open >= c.open
    BY <1>0, <2>1
  <2>3. /\ d.connect_ = opened.connect_ /\ d.channel_ = opened.channel_
        /\ d.fault = opened.fault /\ d.state_ = "kDisconnected"
        /\ \/ d.timers = opened.timers
           \/ d.timers = Append(opened.timers, opened.retryDelayMs_)
    BY <1>1, <1>6, RetryFacts
  <2> QED BY <1>1, <1>6, <2>1, <2>2, <2>3
<1>7. CASE c.connect_ /\ d = [closefd(opened) EXCEPT !.gaveUp = TRUE]
  <2>1. PICK n \in Nat : n = opened.open - 1
    BY <1>0, <1>1
  <2>2. d = [[opened EXCEPT !.open = n] EXCEPT !.gaveUp = TRUE]
    BY <1>7, <2>1 DEF closefd
  <2>3. /\ d \in Members /\ d.connect_ = opened.connect_ /\ d.channel_ = opened.channel_
        /\ d.open = n /\ d.fault = opened.fault /\ d.timers = opened.timers
        /\ d.state_ = opened.state_
    BY <1>1, <2>2, Zenon DEF Members
  <2> QED BY <1>0, <1>1, <2>1, <2>3
<1> QED BY <1>2, <1>3, <1>4, <1>5, <1>6, <1>7

(* An event ends the attempt, with a connection, a timer or nothing.        *)
LEMMA EventFacts ==
  ASSUME NEW c \in Members, c.open > 0, NEW d \in {handleError(c)} \cup handleWrite(c)
  PROVE  /\ d \in Members /\ d.connect_ = c.connect_ /\ d.channel_ = "removed"
         /\ d.fault = c.fault
         /\ \/ d.state_ = "kConnected" /\ c.connect_ /\ d.open = c.open /\ d.timers = c.timers
            \/ /\ d.state_ = "kConnected" /\ ~c.connect_ /\ d.open = c.open - 1
               /\ d.timers = c.timers
            \/ /\ d.state_ = "kDisconnected" /\ d.open = c.open - 1
               /\ \/ d.timers = c.timers
                  \/ c.connect_ /\ d.timers = Append(c.timers, c.retryDelayMs_)
<1> DEFINE r == removeAndResetChannel(c)
<1>1. /\ r \in Members
      /\ r.connect_ = c.connect_ /\ r.channel_ = "removed" /\ r.fault = c.fault
      /\ r.open = c.open /\ r.timers = c.timers /\ r.retryDelayMs_ = c.retryDelayMs_
  BY Zenon DEF removeAndResetChannel, Members
<1>0. c.open \in Nat
  BY DEF Members
<1>2. d = retry(r) \/ d = connected(c)
  BY DEF handleError, handleWrite
<1>3. connected(c) = IF c.connect_ THEN [r EXCEPT !.state_ = "kConnected"]
                     ELSE closefd([r EXCEPT !.state_ = "kConnected"])
  BY DEF connected
<1> HIDE DEF r
<1>4. CASE d = retry(r)
  <2>1. /\ d \in Members /\ d.connect_ = r.connect_ /\ d.channel_ = r.channel_
        /\ d.open = r.open - 1 /\ d.fault = r.fault /\ d.state_ = "kDisconnected"
        /\ \/ d.timers = r.timers
           \/ r.connect_ /\ d.timers = Append(r.timers, r.retryDelayMs_)
    BY <1>1, <1>4, RetryFacts
  <2> QED BY <1>1, <2>1
<1>5. CASE d = connected(c) /\ c.connect_
  <2>1. d = [r EXCEPT !.state_ = "kConnected"]
    BY <1>3, <1>5
  <2>2. /\ d \in Members /\ d.connect_ = r.connect_ /\ d.channel_ = r.channel_
        /\ d.open = r.open /\ d.fault = r.fault /\ d.timers = r.timers /\ d.state_ = "kConnected"
    BY <1>1, <2>1, Zenon DEF Members
  <2> QED BY <1>1, <1>5, <2>2
<1>6. CASE d = connected(c) /\ ~c.connect_
  <2>1. PICK n \in Nat : n = c.open - 1
    BY <1>0
  <2>2. d = [[r EXCEPT !.state_ = "kConnected"] EXCEPT !.open = n]
    <3>1. [r EXCEPT !.state_ = "kConnected"].open = r.open
      BY <1>1, Zenon DEF Members
    <3> QED BY <1>1, <1>3, <1>6, <2>1, <3>1 DEF closefd
  <2>3. /\ d \in Members /\ d.connect_ = r.connect_ /\ d.channel_ = r.channel_
        /\ d.open = n /\ d.fault = r.fault /\ d.timers = r.timers /\ d.state_ = "kConnected"
    BY <1>1, <2>2, Zenon DEF Members
  <2> QED BY <1>1, <1>6, <2>1, <2>3
<1> QED BY <1>2, <1>4, <1>5, <1>6

(* A timer that expires is taken from those that are running.                *)
LEMMA RemoveFacts ==
  ASSUME NEW s \in Seq(Delays), NEW i \in DOMAIN s
  PROVE  RemoveAt(s, i) \in Seq(Delays) /\ (Len(s) = 1 => RemoveAt(s, i) = <<>>)
<1>1. SubSeq(s, 1, i - 1) \in Seq(Delays) /\ SubSeq(s, i + 1, Len(s)) \in Seq(Delays)
  OBVIOUS
<1>2. Len(s) = 1 => SubSeq(s, 1, i - 1) = <<>> /\ SubSeq(s, i + 1, Len(s)) = <<>>
  OBVIOUS
<1> QED BY <1>1, <1>2 DEF RemoveAt

-----------------------------------------------------------------------------
(* What a step does to the queue.                                            *)

(* A step that leaves the functors alone.                                   *)
LEMMA QueueSame ==
  ASSUME batch' = batch, pending' = pending
  PROVE  /\ HasStart' <=> HasStart
         /\ HasReset' <=> HasReset
         /\ HasShutdown' <=> HasShutdown
         /\ HasDestroy' <=> HasDestroy
         /\ OneDestroy' <=> OneDestroy
         /\ OfHandlers' <=> OfHandlers
         /\ nextConnId_' = nextConnId_ => (InOrder' <=> InOrder)
BY DEF HasStart, HasReset, HasShutdown, HasDestroy, OneDestroy, OfHandlers, InOrder, Queue

(* A step that queues a functor.                                            *)
LEMMA QueueAppend ==
  ASSUME Types, nextConnId_' \in Nat, NEW x \in Functors,
         batch' = batch, pending' = Append(pending, x)
  PROVE  /\ pending' \in Seq(Functors)
         /\ HasStart' <=> HasStart \/ x.f = "startInLoop"
         /\ HasReset' <=> HasReset \/ x.f = "resetChannel"
         /\ HasShutdown' <=> HasShutdown \/ x.f = "shutdownInLoop"
         /\ HasDestroy' <=> HasDestroy \/ x.f = "connectDestoryed"
         /\ OneDestroy /\ (x.f = "connectDestoryed" => ~HasDestroy) => OneDestroy'
         /\ OfHandlers' => OfHandlers \/ x.f = "resetChannel" \/ x.f = "connectDestoryed"
         /\ /\ InOrder /\ (nextConnId_' = nextConnId_ \/ ~HasShutdown)
            /\ x.f = "startInLoop" => ~HasStart
            /\ x.f = "resetChannel" => ~HasReset
            /\ x.f = "shutdownInLoop" => ~HasDestroy /\ x.id = nextConnId_' - 1
            => InOrder'
<1>1. PICK q \in Seq(Functors), p \in Seq(Functors) : q = Queue /\ p = pending
  BY ConcatFacts DEF Types, Queue
<1>2. Queue' = Append(q, x)
  BY <1>1, ConcatFacts DEF Types, Queue
<1>3. \A f \in FunctorNames : Has(Append(p, x), f) <=> Has(p, f) \/ x.f = f
  BY AppendFacts
<1>4. \A f \in FunctorNames : Has(Append(q, x), f) <=> Has(q, f) \/ x.f = f
  BY AppendFacts
<1>5. pending' = Append(p, x) /\ pending' \in Seq(Functors)
  BY <1>1
<1>6. /\ HasStart' <=> HasStart \/ x.f = "startInLoop"
      /\ HasReset' <=> HasReset \/ x.f = "resetChannel"
      /\ HasShutdown' <=> HasShutdown \/ x.f = "shutdownInLoop"
      /\ HasDestroy' <=> HasDestroy \/ x.f = "connectDestoryed"
  BY <1>1, <1>2, <1>4, Zenon DEF HasStart, HasReset, HasShutdown, HasDestroy, FunctorNames
<1>7. OfHandlers' => OfHandlers \/ x.f = "resetChannel" \/ x.f = "connectDestoryed"
  BY <1>1, <1>3, <1>5, Zenon DEF OfHandlers, FunctorNames
<1>8. OneDestroy /\ (x.f = "connectDestoryed" => ~HasDestroy) => OneDestroy'
  BY <1>1, <1>2, AppendFacts DEF OneDestroy, HasDestroy, FunctorNames
<1>9. ASSUME InOrder, nextConnId_' = nextConnId_ \/ ~HasShutdown,
             x.f = "startInLoop" => ~HasStart, x.f = "resetChannel" => ~HasReset,
             x.f = "shutdownInLoop" => ~HasDestroy /\ x.id = nextConnId_' - 1
      PROVE  InOrder'
  <2>0. nextConnId_ - 1 \in Int /\ nextConnId_' - 1 \in Int
    BY DEF Types
  <2>1. PICK m \in Int, n \in Int : m = nextConnId_ - 1 /\ n = nextConnId_' - 1
    BY <2>0, Zenon
  <2>2. Ordered(q, m) /\ (m = n \/ ~Has(q, "shutdownInLoop"))
    BY <1>1, <1>9, <2>1 DEF InOrder, HasShutdown
  <2>3. x.f \in {"startInLoop", "resetChannel"} => ~Has(q, x.f)
    BY <1>1, <1>9 DEF HasStart, HasReset
  <2>4. x.f = "shutdownInLoop" => ~Has(q, "connectDestoryed") /\ x.id = n
    BY <1>1, <1>9, <2>1 DEF HasDestroy
  <2>5. Ordered(Append(q, x), n)
    BY <2>2, <2>3, <2>4, OrderedAppend
  <2> QED BY <1>2, <2>1, <2>5 DEF InOrder
<1> QED BY <1>5, <1>6, <1>7, <1>8, <1>9

(* The functors become a batch.                                             *)
LEMMA QueueBatch ==
  ASSUME Types, batch = <<>>, batch' = pending, pending' = <<>>
  PROVE  /\ batch' \in Seq(Functors) /\ pending' \in Seq(Functors)
         /\ HasStart' <=> HasStart
         /\ HasReset' <=> HasReset
         /\ HasShutdown' <=> HasShutdown
         /\ HasDestroy' <=> HasDestroy
         /\ OneDestroy' <=> OneDestroy
         /\ ~OfHandlers'
         /\ nextConnId_' = nextConnId_ => (InOrder' <=> InOrder)
<1>1. PICK b \in Seq(Functors), p \in Seq(Functors) : b = batch /\ p = pending
  BY DEF Types
<1>2. Queue' = Queue
  <2>1. <<>> \o p = p /\ p \o <<>> = p
    OBVIOUS
  <2> QED BY <1>1, <2>1 DEF Queue
<1>3. ~OfHandlers'
  BY DEF OfHandlers, Has
<1> QED BY <1>1, <1>2, <1>3 DEF HasStart, HasReset, HasShutdown, HasDestroy, OneDestroy, InOrder

(* A functor is taken from the batch: what was in the queue only once is     *)
(* there no more.                                                            *)
LEMMA QueueRun ==
  ASSUME Types, batch # <<>>, batch' = Tail(batch), pending' = pending,
         nextConnId_' = nextConnId_, OneDestroy, NEW f, Head(batch).f = f
  PROVE  /\ batch' \in Seq(Functors) /\ f \in FunctorNames
         /\ HasStart' => HasStart
         /\ HasReset' => HasReset
         /\ HasShutdown' => HasShutdown
         /\ HasDestroy' => HasDestroy
         /\ f # "startInLoop" => (HasStart' <=> HasStart)
         /\ f # "resetChannel" => (HasReset' <=> HasReset)
         /\ f # "connectDestoryed" => (HasDestroy' <=> HasDestroy)
         /\ f = "startInLoop" => HasStart /\ (InOrder => ~HasStart')
         /\ f = "resetChannel" => HasReset /\ (InOrder => ~HasReset')
         /\ f = "shutdownInLoop" =>
              HasShutdown /\ (InOrder => Head(batch).id = nextConnId_ - 1)
         /\ f = "connectDestoryed" =>
              HasDestroy /\ ~HasDestroy' /\ (InOrder => ~HasShutdown')
         /\ OneDestroy' /\ (InOrder => InOrder')
         /\ OfHandlers' <=> OfHandlers
<1>1. PICK q \in Seq(Functors), b \in Seq(Functors), p \in Seq(Functors) :
        q = Queue /\ p = pending /\ b = batch
  <2>1. batch \in Seq(Functors) /\ pending \in Seq(Functors)
    BY DEF Types
  <2>2. Queue \in Seq(Functors)
    BY <2>1 DEF Queue
  <2> QED BY <2>1, <2>2, Zenon
<1>2. q # <<>> /\ Head(q) = Head(batch) /\ Queue' = Tail(q) /\ Head(q).f = f
  BY <1>1, ConcatFacts DEF Queue
<1>3. PICK n \in Int : n = nextConnId_ - 1
  BY DEF Types
<1>4. Head(q) \in Functors /\ Has(q, f) /\ f \in FunctorNames
  BY <1>2, TailFacts DEF FunctorNames, Functors
<1>5. \A g \in FunctorNames :
        /\ Has(Tail(q), g) => Has(q, g)
        /\ Has(q, g) /\ f # g => Has(Tail(q), g)
        /\ Once(q, g) => Once(Tail(q), g) /\ (f = g => ~Has(Tail(q), g))
  BY <1>2, TailFacts
<1>6. /\ Ordered(q, n) => Ordered(Tail(q), n)
      /\ Ordered(q, n) /\ f = "shutdownInLoop" => Head(q).id = n
      /\ Ordered(q, n) /\ f = "connectDestoryed" => ~Has(Tail(q), "shutdownInLoop")
  BY <1>2, TailFacts DEF FunctorNames
<1>7. batch' \in Seq(Functors)
  BY <1>1
<1>8. OfHandlers' <=> OfHandlers
  BY DEF OfHandlers
<1>9. /\ HasStart <=> Has(q, "startInLoop")
      /\ HasStart' <=> Has(Tail(q), "startInLoop")
      /\ HasReset <=> Has(q, "resetChannel")
      /\ HasReset' <=> Has(Tail(q), "resetChannel")
      /\ HasShutdown <=> Has(q, "shutdownInLoop")
      /\ HasShutdown' <=> Has(Tail(q), "shutdownInLoop")
      /\ HasDestroy <=> Has(q, "connectDestoryed")
      /\ HasDestroy' <=> Has(Tail(q), "connectDestoryed")
      /\ OneDestroy <=> Once(q, "connectDestoryed")
      /\ OneDestroy' <=> Once(Tail(q), "connectDestoryed")
  BY <1>1, <1>2 DEF HasStart, HasReset, HasShutdown, HasDestroy, OneDestroy
<1>10. /\ InOrder <=> Ordered(q, n)
       /\ InOrder' <=> Ordered(Tail(q), n)
  <2>1. nextConnId_' - 1 = n
    BY <1>3
  <2> QED BY <1>1, <1>2, <1>3, <2>1 DEF InOrder
<1>11. /\ Once(q, "connectDestoryed")
       /\ InOrder => Once(q, "startInLoop") /\ Once(q, "resetChannel")
  BY <1>9, <1>10 DEF Ordered
<1>12. /\ HasStart' => HasStart
       /\ HasReset' => HasReset
       /\ HasShutdown' => HasShutdown
       /\ HasDestroy' => HasDestroy
       /\ f # "startInLoop" => (HasStart' <=> HasStart)
       /\ f # "resetChannel" => (HasReset' <=> HasReset)
       /\ f # "connectDestoryed" => (HasDestroy' <=> HasDestroy)
  BY <1>5, <1>9, Zenon DEF FunctorNames
<1>13. /\ f = "startInLoop" => HasStart /\ (InOrder => ~HasStart')
       /\ f = "resetChannel" => HasReset /\ (InOrder => ~HasReset')
       /\ f = "connectDestoryed" => HasDestroy /\ ~HasDestroy'
       /\ f = "shutdownInLoop" => HasShutdown
       /\ OneDestroy'
  BY <1>4, <1>5, <1>9, <1>11, Zenon DEF FunctorNames
<1>14. /\ f = "shutdownInLoop" /\ InOrder => Head(batch).id = nextConnId_ - 1
       /\ f = "connectDestoryed" /\ InOrder => ~HasShutdown'
       /\ InOrder => InOrder'
  BY <1>2, <1>3, <1>6, <1>9, <1>10
<1> QED BY <1>4, <1>7, <1>8, <1>12, <1>13, <1>14

-----------------------------------------------------------------------------
(* Every step keeps the invariant.                                           *)

(* The invariant holds at the start.                                        *)
LEMMA InitHolds == Init => IInv
<1> SUFFICES ASSUME Init PROVE IInv
  OBVIOUS
<1>1. <<>> \in Seq(Functors) /\ <<>> \in Seq(Delays) /\ Queue = <<>> /\ 500 \in Delays
  BY DEF Init, Queue, Delays, kInitRetryDelayMs, kMaxRetryDelayMs
<1>2. ~HasStart /\ ~HasReset /\ ~HasShutdown /\ ~HasDestroy /\ OneDestroy /\ ~OfHandlers
  BY <1>1 DEF Init, HasStart, HasReset, HasShutdown, HasDestroy, OneDestroy, OfHandlers, Has, Once
<1>3. InOrder
  BY <1>1 DEF InOrder, Ordered, Once
<1>4. connector \in Members
  BY <1>1 DEF Init, Members, kInitRetryDelayMs
<1>5. Types
  <2>1. calls \in 0 .. MaxCalls /\ nextConnId_ \in Nat
    BY ClientAssumption DEF Init
  <2> QED BY <1>1, <1>4, <2>1 DEF Init, Types
<1>6. Always
  BY <1>2 DEF Init, Always, Phases, Open
<1>7. Disciplined
  BY <1>2, <1>3 DEF Init, Disciplined, OneAttempt, OneConnection, ActiveFresh, Deleted, Starting,
                    Open
<1> QED BY <1>5, <1>6, <1>7 DEF IInv

(* A stuttering step keeps it.                                              *)
LEMMA StutterKeeps == IInv /\ UNCHANGED vars => IInv'
<1> SUFFICES ASSUME IInv, UNCHANGED vars PROVE IInv'
  OBVIOUS
<1> USE DEF vars, client, connection
<1>1. Types'
  BY DEF IInv, Types
<1>2. (fault = "none" => Always) => (fault = "none" => Always)'
  BY QueueSame DEF Always, Phases
<1>3. (~misused => Disciplined) => (~misused => Disciplined)'
  BY QueueSame DEF Disciplined, OneAttempt, OneConnection, ActiveFresh, Deleted, Starting
<1> QED BY <1>1, <1>2, <1>3 DEF IInv

(* When the loop polls, what the handlers queued last time has been run.     *)
LEMMA QueueAtPoll ==
  ASSUME Types, batch = <<>>, ~OfHandlers
  PROVE  ~HasReset /\ ~HasDestroy /\ (pending = <<>> => ~HasStart)
<1>1. PICK p \in Seq(Functors) : p = pending
  BY DEF Types
<1>2. Queue = p
  <2>1. <<>> \o p = p
    OBVIOUS
  <2> QED BY <1>1, <2>1 DEF Queue
<1>3. pending = <<>> => ~HasStart
  BY <1>1, <1>2 DEF HasStart, Has
<1> QED BY <1>1, <1>2, <1>3 DEF OfHandlers, HasReset, HasDestroy

(* A poll: what it finds active is still so when it is handled.             *)
LEMMA PollKeeps ==
  ASSUME IInv, fault = "none", Poll
  PROVE  IInv'
<1> USE DEF client, connection
<1>0. Types /\ Always
  BY DEF IInv
<1>1. Types'
  BY <1>0 DEF Types, Poll, Ready
<1>2. ~HasReset /\ ~HasDestroy /\ (pending = <<>> => ~HasStart)
  BY <1>0, QueueAtPoll DEF Always, Phases, Poll
<1>3. /\ "connector" \in active' => connector.channel_ = "active"
      /\ "connection" \in active' => conn # "none"
      /\ "timer" \in active' => connector.timers # <<>>
      /\ "keepAlive" \in active' => KeepAliveOver
  BY DEF Poll, Ready
<1>4. Always'
  BY <1>0, <1>2, <1>3, QueueSame DEF Always, Phases, Poll
<1>5. ASSUME ~misused' PROVE Disciplined'
  <2>1. Disciplined
    BY <1>5 DEF Poll, IInv
  <2>2. connector.channel_ # "removed" /\ connector.channel_ \in {"none", "active", "removed"}
    BY <1>0, <1>2, <2>1 DEF Disciplined, OneAttempt, Types, Members
  <2>3. "keepAlive" \in active' =>
          alive = "connector" /\ connector.timers = <<>> /\ ~HasStart
    <3> SUFFICES ASSUME KeepAliveOver
                 PROVE  alive = "connector" /\ connector.timers = <<>> /\ ~HasStart
      BY <1>3
    <3>1. keepAlive /\ pending = <<>> /\ alive = "connector"
      BY <2>1 DEF KeepAliveOver, Disciplined, Deleted
    <3>2. PICK s \in Seq(Delays) : s = connector.timers
      BY <1>0 DEF Types, Members
    <3>3. \A i \in DOMAIN s : s[i] > KeepAliveMs /\ s[i] <= KeepAliveMs
      BY <2>1, <3>1, <3>2 DEF KeepAliveOver, Disciplined, Deleted
    <3>4. \A i \in DOMAIN s : s[i] \in Int
      <4>1. Delays \subseteq Int
        BY DEF Delays, kInitRetryDelayMs, kMaxRetryDelayMs
      <4>2. \A i \in DOMAIN s : s[i] \in Delays
        BY <3>2, ElementOfSeq
      <4> QED BY <4>1, <4>2
    <3>5. s = <<>>
      BY <3>2, <3>3, <3>4 DEF KeepAliveMs
    <3> QED BY <1>2, <3>1, <3>2, <3>5
  <2>4. ActiveFresh'
    BY <1>2, <1>3, <2>1, <2>2, <2>3, QueueSame
       DEF Poll, Disciplined, ActiveFresh, OneAttempt, OneConnection, Deleted
  <2> QED BY <2>1, <2>4, QueueSame
          DEF Poll, Disciplined, OneAttempt, OneConnection, Deleted, Starting
<1> QED BY <1>1, <1>4, <1>5 DEF IInv

(* The queue is the same when it becomes the batch.                         *)
LEMMA StartBatchKeeps ==
  ASSUME IInv, fault = "none", StartBatch
  PROVE  IInv'
<1> USE DEF client, connection
<1>0. Types /\ Always /\ batch = <<>>
  BY DEF IInv, StartBatch, Always, Phases
<1>1. Types'
  BY <1>0, QueueBatch DEF Types, StartBatch
<1>2. Always'
  BY <1>0, QueueBatch DEF Always, Phases, StartBatch
<1>3. ASSUME ~misused' PROVE Disciplined'
  <2>1. Disciplined
    BY <1>3 DEF StartBatch, IInv
  <2> QED BY <1>0, <2>1, QueueBatch
          DEF Disciplined, OneAttempt, OneConnection, ActiveFresh, Deleted, Starting, StartBatch
<1> QED BY <1>1, <1>2, <1>3 DEF IInv

(* The end of the batch.                                                    *)
LEMMA EndBatchKeeps ==
  ASSUME IInv, fault = "none", EndBatch
  PROVE  IInv'
<1> USE DEF client, connection
<1>0. Types /\ Always
  BY DEF IInv
<1>1. Types'
  BY <1>0 DEF Types, EndBatch
<1>2. Always'
  BY <1>0, QueueSame DEF Always, Phases, EndBatch
<1>3. ASSUME ~misused' PROVE Disciplined'
  <2>1. Disciplined
    BY <1>3 DEF EndBatch, IInv
  <2> QED BY <1>0, <2>1, QueueSame
          DEF Disciplined, OneAttempt, OneConnection, ActiveFresh, Deleted, Starting, EndBatch
<1> QED BY <1>1, <1>2, <1>3 DEF IInv

(* disconnect() begins: only the flag of the client changes.                *)
LEMMA DisconnectKeeps ==
  ASSUME IInv, fault = "none", Disconnect
  PROVE  IInv'
<1> USE DEF client, connection, Call
<1>0. Types /\ Always
  BY DEF IInv
<1>1. Types'
  BY <1>0 DEF Types, Disconnect
<1>2. Always'
  BY <1>0, QueueSame DEF Always, Phases, Disconnect
<1>3. ASSUME ~misused' PROVE Disciplined'
  <2>1. Disciplined
    BY <1>3 DEF Disconnect, IInv
  <2> QED BY <1>0, <2>1, QueueSame
          DEF Disciplined, OneAttempt, OneConnection, ActiveFresh, Deleted, Starting, Disconnect
<1> QED BY <1>1, <1>2, <1>3 DEF IInv

(* stop() begins: only the flag of the client changes.                      *)
LEMMA StopKeeps ==
  ASSUME IInv, fault = "none", Stop
  PROVE  IInv'
<1> USE DEF client, connection, Call
<1>0. Types /\ Always
  BY DEF IInv
<1>1. Types'
  BY <1>0 DEF Types, Stop
<1>2. Always'
  BY <1>0, QueueSame DEF Always, Phases, Stop
<1>3. ASSUME ~misused' PROVE Disciplined'
  <2>1. Disciplined
    BY <1>3 DEF Stop, IInv
  <2> QED BY <1>0, <2>1, QueueSame
          DEF Disciplined, OneAttempt, OneConnection, ActiveFresh, Deleted, Starting, Stop
<1> QED BY <1>1, <1>2, <1>3 DEF IInv

(* connect() begins: when that is no misuse, nothing else is under way.     *)
LEMMA ConnectKeeps ==
  ASSUME IInv, fault = "none", Connect
  PROVE  IInv'
<1> USE DEF client, connection, Call
<1>0. Types /\ Always
  BY DEF IInv
<1>1. Types'
  <2>1. calls' \in 0 .. MaxCalls
    BY <1>0, ClientAssumption DEF Types, Connect
  <2>2. misused' \in BOOLEAN
    BY DEF Connect
  <2> QED BY <1>0, <2>1, <2>2 DEF Types, Connect
<1>2. Always'
  BY <1>0, QueueSame DEF Always, Phases, Connect
<1>3. ASSUME ~misused' PROVE Disciplined'
  <2>1. Disciplined /\ AtRest
    BY <1>3 DEF Connect, IInv
  <2>2. ~HasStart
    <3>1. PICK b \in Seq(Functors), p \in Seq(Functors) : b = batch /\ p = pending
      BY <1>0 DEF Types
    <3>2. ASSUME NEW i \in DOMAIN (b \o p), (b \o p)[i].f = "startInLoop"
          PROVE  (b \o p)[i] \in Range(p \o b)
      <4>1. i \in 1 .. Len(b) + Len(p) /\ Len(b) \in Nat /\ Len(p) \in Nat
        BY <3>1, <3>2
      <4>2. CASE i <= Len(b)
        <5>1. Len(p) + i \in DOMAIN (p \o b) /\ (p \o b)[Len(p) + i] = (b \o p)[i]
          BY <3>1, <4>1, <4>2
        <5> QED BY <5>1, Zenon DEF Range
      <4>3. CASE i > Len(b)
        <5>1. i - Len(b) \in DOMAIN (p \o b) /\ (p \o b)[i - Len(b)] = (b \o p)[i]
          BY <3>1, <4>1, <4>3
        <5> QED BY <5>1, Zenon DEF Range
      <4> QED BY <4>1, <4>2, <4>3
    <3>3. \A x \in Functors : x.f = "startInLoop" => x = Functor("startInLoop", 0)
      BY DEF Functors, Functor
    <3>4. \A i \in DOMAIN (b \o p) : (b \o p)[i] \in Functors
      BY <3>1, ConcatFacts, ElementOfSeq
    <3>5. Functor("startInLoop", 0) \notin Range(p \o b)
      BY <2>1, <3>1 DEF AtRest
    <3> QED BY <3>1, <3>2, <3>3, <3>4, <3>5, Zenon DEF HasStart, Has, Queue
  <2> QED BY <1>0, <2>1, <2>2, QueueSame
          DEF Disciplined, OneAttempt, OneConnection, ActiveFresh, Deleted, Starting, Connect,
              AtRest
<1> QED BY <1>1, <1>2, <1>3 DEF IInv

(* Connector::start: the call becomes a functor.                            *)
LEMMA startKeeps ==
  ASSUME IInv, fault = "none", start
  PROVE  IInv'
<1> USE DEF client, connection
<1>0. Types /\ Always /\ connector \in Members
  BY DEF IInv, Types
<1> DEFINE x == Functor("startInLoop", 0)
<1>1. x \in Functors /\ x.f = "startInLoop"
  BY DEF Functors, Functor, FunctorNames
<1>2. nextConnId_' \in Nat /\ batch' = batch /\ pending' = Append(pending, x)
  BY <1>0 DEF Types, start
<1> HIDE DEF x
<1>3. /\ connector' \in Members
      /\ connector'.state_ = connector.state_ /\ connector'.channel_ = connector.channel_
      /\ connector'.timers = connector.timers /\ connector'.open = connector.open
      /\ connector'.fault = connector.fault
  <2>1. connector' = [connector EXCEPT !.connect_ = TRUE, !.gaveUp = FALSE]
    BY DEF start
  <2> QED BY <1>0, <2>1, Zenon DEF Members
<1>4. Types'
  BY <1>0, <1>1, <1>2, <1>3, QueueAppend DEF Types, start
<1>5. Always'
  BY <1>0, <1>1, <1>2, <1>3, QueueAppend DEF Always, Phases, start
<1>6. ASSUME ~misused' PROVE Disciplined'
  <2>1. Disciplined
    BY <1>6 DEF start, IInv
  <2>2. user = "start" /\ ~HasStart /\ alive = "all"
    BY <1>0, <2>1 DEF Disciplined, OneAttempt, Deleted, start, Types
  <2>3. InOrder'
    BY <1>0, <1>1, <1>2, <2>1, <2>2, QueueAppend DEF Disciplined, start
  <2> QED BY <1>0, <1>1, <1>2, <1>3, <2>1, <2>2, <2>3, QueueAppend
          DEF Disciplined, OneAttempt, OneConnection, ActiveFresh, Deleted, Starting, start
<1> QED BY <1>4, <1>5, <1>6 DEF IInv

(* Connector::stop: only the flag of the Connector changes.                 *)
LEMMA stopKeeps ==
  ASSUME IInv, fault = "none", stop
  PROVE  IInv'
<1> USE DEF client, connection
<1>0. Types /\ Always /\ connector \in Members
  BY DEF IInv, Types
<1>1. /\ connector' \in Members /\ connector'.connect_ = FALSE
      /\ connector'.state_ = connector.state_ /\ connector'.channel_ = connector.channel_
      /\ connector'.timers = connector.timers /\ connector'.open = connector.open
      /\ connector'.fault = connector.fault
  <2>1. connector' = [connector EXCEPT !.connect_ = FALSE]
    BY DEF stop
  <2> QED BY <1>0, <2>1, Zenon DEF Members
<1>2. Types'
  BY <1>0, <1>1 DEF Types, stop
<1>3. Always'
  BY <1>0, <1>1, QueueSame DEF Always, Phases, stop
<1>4. ASSUME ~misused' PROVE Disciplined'
  <2>1. Disciplined
    BY <1>4 DEF stop, IInv
  <2> QED BY <1>0, <1>1, <2>1, QueueSame
          DEF Disciplined, OneAttempt, OneConnection, ActiveFresh, Deleted, Starting, stop
<1> QED BY <1>2, <1>3, <1>4 DEF IInv

(* The shutdown of a connection that is not being destroyed.                *)
LEMMA shutdownKeeps ==
  ASSUME IInv, fault = "none", shutdown
  PROVE  IInv'
<1> USE DEF client, connection
<1>0. Types /\ Always
  BY DEF IInv
<1>1. CASE connection_ /\ conn = "kConnected"
  <2> DEFINE x == Functor("shutdownInLoop", nextConnId_ - 1)
  <2>1. x \in Functors /\ x.f = "shutdownInLoop" /\ x.id = nextConnId_ - 1
    BY <1>0 DEF Functors, Functor, FunctorNames, Types
  <2>2. /\ nextConnId_' = nextConnId_ /\ nextConnId_' \in Nat
        /\ batch' = batch /\ pending' = Append(pending, x) /\ conn' = "kDisconnecting"
    BY <1>0, <1>1 DEF Types, shutdown
  <2> HIDE DEF x
  <2>3. Types'
    BY <1>0, <2>1, <2>2, QueueAppend DEF Types, shutdown
  <2>4. Always'
    BY <1>0, <1>1, <2>1, <2>2, QueueAppend DEF Always, Phases, Open, shutdown
  <2>5. ASSUME ~misused' PROVE Disciplined'
    <3>1. Disciplined
      BY <2>5 DEF shutdown, IInv
    <3>2. InOrder'
      BY <1>0, <1>1, <2>1, <2>2, <3>1, QueueAppend DEF Disciplined, OneConnection
    <3> QED BY <1>0, <1>1, <2>1, <2>2, <3>1, <3>2, QueueAppend
            DEF Disciplined, OneAttempt, OneConnection, ActiveFresh, Deleted, Starting, Open,
                shutdown
  <2> QED BY <2>3, <2>4, <2>5 DEF IInv
<1>2. CASE ~(connection_ /\ conn = "kConnected")
  <2>1. Types'
    BY <1>0, <1>2 DEF Types, shutdown
  <2>2. Always'
    BY <1>0, <1>2, QueueSame DEF Always, Phases, shutdown
  <2>3. ASSUME ~misused' PROVE Disciplined'
    <3>1. Disciplined
      BY <2>3 DEF shutdown, IInv
    <3> QED BY <1>0, <1>2, <3>1, QueueSame
            DEF Disciplined, OneAttempt, OneConnection, ActiveFresh, Deleted, Starting, shutdown
  <2> QED BY <2>1, <2>2, <2>3 DEF IInv
<1> QED BY <1>1, <1>2

(* A connection is established.                                             *)
LEMMA connectEstablishedKeeps ==
  ASSUME IInv, fault = "none", connectEstablished
  PROVE  IInv'
<1> USE DEF client, connection
<1>0. Types /\ Always
  BY DEF IInv
<1>1. Types'
  BY <1>0 DEF Types, connectEstablished
<1>2. Always'
  BY <1>0, QueueSame DEF Always, Phases, Open, connectEstablished
<1>3. ASSUME ~misused' PROVE Disciplined'
  <2>1. Disciplined
    BY <1>3 DEF connectEstablished, IInv
  <2> QED BY <1>0, <2>1, QueueSame
          DEF Disciplined, OneAttempt, OneConnection, ActiveFresh, Deleted, Starting, Open,
              Always, connectEstablished
<1> QED BY <1>1, <1>2, <1>3 DEF IInv

(* A connection is removed: connectDestoryed is its last functor.           *)
LEMMA removeConnectionKeeps ==
  ASSUME IInv, fault = "none", removeConnection
  PROVE  IInv'
<1> USE DEF client, connection
<1>0. Types /\ Always
  BY DEF IInv
<1> DEFINE x == Functor("connectDestoryed", nextConnId_ - 1)
<1>1. x \in Functors /\ x.f = "connectDestoryed"
  BY <1>0 DEF Functors, Functor, FunctorNames, Types
<1>2. /\ nextConnId_' = nextConnId_ /\ nextConnId_' \in Nat
      /\ batch' = batch /\ pending' = Append(pending, x)
  BY <1>0 DEF Types, removeConnection
<1> HIDE DEF x
<1>3. Types'
  BY <1>0, <1>1, <1>2, QueueAppend DEF Types, removeConnection
<1>4. Always'
  BY <1>0, <1>1, <1>2, QueueAppend DEF Always, Phases, removeConnection
<1>5. ASSUME ~misused' PROVE Disciplined'
  <2>1. Disciplined
    BY <1>5 DEF removeConnection, IInv
  <2>2. InOrder'
    BY <1>0, <1>1, <1>2, <2>1, QueueAppend DEF Disciplined
  <2>3. alive = "all" => connection_
    BY <1>0, <2>1 DEF Always, Disciplined, OneConnection, removeConnection
  <2> QED BY <1>0, <1>1, <1>2, <2>1, <2>2, <2>3, QueueAppend
          DEF Disciplined, OneAttempt, OneConnection, ActiveFresh, Deleted, Starting,
              removeConnection
<1> QED BY <1>3, <1>4, <1>5 DEF IInv

(* The Connector is deleted when it has nothing under way.                  *)
LEMMA removeConnectorKeeps ==
  ASSUME IInv, fault = "none", removeConnector
  PROVE  IInv'
<1> USE DEF client, connection
<1>0. Types /\ Always
  BY DEF IInv
<1>1. Types'
  BY <1>0 DEF Types, removeConnector
<1>2. Always'
  BY <1>0, QueueSame DEF Always, Phases, removeConnector
<1>3. ASSUME ~misused' PROVE Disciplined'
  <2>1. Disciplined
    BY <1>3 DEF removeConnector, IInv
  <2> QED BY <1>0, <2>1, QueueSame
          DEF Disciplined, OneAttempt, OneConnection, ActiveFresh, Deleted, Starting,
              removeConnector
<1> QED BY <1>1, <1>2, <1>3 DEF IInv

(* The client is deleted; what it may have left is short.                   *)
LEMMA DestroyKeeps ==
  ASSUME IInv, fault = "none", Destroy
  PROVE  IInv'
<1> USE DEF client, connection
<1>0. Types /\ Always /\ connector \in Members
  BY DEF IInv, Types
<1>1. /\ connector' \in Members
      /\ connector'.state_ = connector.state_ /\ connector'.channel_ = connector.channel_
      /\ connector'.timers = connector.timers /\ connector'.open = connector.open
      /\ connector'.fault = connector.fault
      /\ ~connection_ => ~connector'.connect_
  <2>1. CASE connection_
    BY <1>0, <2>1 DEF Destroy
  <2>2. CASE ~connection_
    <3>1. connector' = [connector EXCEPT !.connect_ = FALSE]
      BY <2>2 DEF Destroy
    <3> QED BY <1>0, <2>2, <3>1, Zenon DEF Members
  <2> QED BY <2>1, <2>2
<1>2. Types'
  <2>1. misused' \in BOOLEAN
    BY DEF Destroy
  <2> QED BY <1>0, <1>1, <2>1 DEF Types, Destroy
<1>3. Always'
  BY <1>0, <1>1, QueueSame DEF Always, Phases, Destroy
<1>4. ASSUME ~misused' PROVE Disciplined'
  <2>1. Disciplined /\ ~Misuse
    BY <1>4 DEF Destroy, IInv
  <2>2. CASE connection_
    BY <1>0, <1>1, <2>1, <2>2, QueueSame
       DEF Disciplined, OneAttempt, OneConnection, ActiveFresh, Deleted, Starting, Destroy, Misuse
  <2>3. CASE ~connection_
    <3>1. \A i \in DOMAIN connector.timers : connector.timers[i] <= KeepAliveMs
      <4>1. PICK s \in Seq(Delays) : s = connector.timers
        BY <1>0 DEF Members
      <4>2. \A i \in DOMAIN s : s[i] \in Int
        <5>1. Delays \subseteq Int
          BY DEF Delays, kInitRetryDelayMs, kMaxRetryDelayMs
        <5>2. \A i \in DOMAIN s : s[i] \in Delays
          BY <4>1, ElementOfSeq
        <5> QED BY <5>1, <5>2
      <4>3. \A i \in DOMAIN s : ~(s[i] > KeepAliveMs)
        BY <2>1, <2>3, <4>1 DEF Misuse
      <4> QED BY <4>1, <4>2, <4>3 DEF KeepAliveMs
    <3> QED BY <1>0, <1>1, <2>1, <2>3, <3>1, QueueSame
            DEF Disciplined, OneAttempt, OneConnection, ActiveFresh, Deleted, Starting, Destroy,
                Misuse
  <2> QED BY <2>2, <2>3
<1> QED BY <1>2, <1>3, <1>4 DEF IInv

(* The channel that was removed is deleted, of a Connector that is there.   *)
LEMMA resetChannelKeeps ==
  ASSUME IInv, fault = "none", resetChannel
  PROVE  IInv'
<1> USE DEF client, connection, Run
<1>0. Types /\ Always /\ OneDestroy /\ connector \in Members
  BY DEF IInv, Types, Always
<1>1. /\ batch # <<>> /\ batch' = Tail(batch) /\ pending' = pending
      /\ nextConnId_' = nextConnId_ /\ Head(batch).f = "resetChannel"
  BY DEF resetChannel
<1>2. /\ connector' \in Members /\ connector'.connect_ = connector.connect_
      /\ connector'.state_ = connector.state_ /\ connector'.channel_ = "none"
      /\ connector'.timers = connector.timers /\ connector'.open = connector.open
      /\ connector'.fault = connector.fault
  <2>1. connector' = [connector EXCEPT !.channel_ = "none"]
    BY DEF resetChannel
  <2> QED BY <1>0, <2>1, Zenon DEF Members
<1>3. connector.open \in Nat
  BY <1>0 DEF Members
<1>4. Types'
  <2>1. batch' \in Seq(Functors)
    BY <1>0, <1>1, QueueRun
  <2> QED BY <1>0, <1>1, <1>2, <2>1 DEF Types, resetChannel
<1>5. Always'
  <2>1. connector'.open >= Open(connector'.channel_, conn')
    <3>1. connector.open >= Open(connector.channel_, conn) /\ conn' = conn
      BY <1>0 DEF Always, resetChannel
    <3> QED BY <1>2, <1>3, <3>1 DEF Open
  <2> QED BY <1>0, <1>1, <1>2, <2>1, QueueRun DEF Always, Phases, resetChannel
<1>6. ASSUME ~misused' PROVE Disciplined'
  <2>1. Disciplined
    BY <1>6 DEF resetChannel, IInv
  <2>2. HasReset /\ connector.channel_ = "removed" /\ alive # "none"
    BY <1>0, <1>1, <2>1, QueueRun DEF Disciplined, OneAttempt, Deleted
  <2>3. connector'.open = Open(connector'.channel_, conn')
    BY <1>2, <2>1, <2>2 DEF Disciplined, Open, resetChannel
  <2> QED BY <1>0, <1>1, <1>2, <2>1, <2>2, <2>3, QueueRun
          DEF Disciplined, OneAttempt, OneConnection, ActiveFresh, Deleted, Starting,
              Always, Phases, resetChannel
<1> QED BY <1>4, <1>5, <1>6 DEF IInv

(* The functor of shutdown() finds its connection.                          *)
LEMMA shutdownInLoopKeeps ==
  ASSUME IInv, fault = "none", shutdownInLoop
  PROVE  IInv'
<1> USE DEF client, connection, Run
<1>0. Types /\ Always /\ OneDestroy
  BY DEF IInv, Always
<1>1. /\ batch # <<>> /\ batch' = Tail(batch) /\ pending' = pending
      /\ nextConnId_' = nextConnId_ /\ Head(batch).f = "shutdownInLoop"
  BY DEF shutdownInLoop
<1>2. Types'
  <2>1. batch' \in Seq(Functors)
    BY <1>0, <1>1, QueueRun
  <2> QED BY <1>0, <1>1, <2>1 DEF Types, shutdownInLoop
<1>3. Always'
  BY <1>0, <1>1, QueueRun DEF Always, Phases, shutdownInLoop
<1>4. ASSUME ~misused' PROVE Disciplined'
  <2>1. Disciplined
    BY <1>4 DEF shutdownInLoop, IInv
  <2>2. fault' = "none"
    BY <1>0, <1>1, <2>1, QueueRun DEF Disciplined, OneConnection, shutdownInLoop
  <2> QED BY <1>0, <1>1, <2>1, <2>2, QueueRun
          DEF Disciplined, OneAttempt, OneConnection, ActiveFresh, Deleted, Starting,
              shutdownInLoop
<1> QED BY <1>2, <1>3, <1>4 DEF IInv

(* The connection is deleted, and its socket closed.                        *)
LEMMA connectDestoryedKeeps ==
  ASSUME IInv, fault = "none", connectDestoryed
  PROVE  IInv'
<1> USE DEF client, connection, Run
<1>0. Types /\ Always /\ OneDestroy /\ connector \in Members
  BY DEF IInv, Types, Always
<1>1. /\ batch # <<>> /\ batch' = Tail(batch) /\ pending' = pending
      /\ nextConnId_' = nextConnId_ /\ Head(batch).f = "connectDestoryed"
  BY DEF connectDestoryed
<1>2. HasDestroy /\ conn # "none" /\ pc = "functors" /\ active = {}
  BY <1>0, <1>1, QueueRun DEF Always, Phases, connectDestoryed
<1>3. connector.open \in Nat /\ connector.open >= Open(connector.channel_, conn)
  BY <1>0 DEF Members, Always
<1>4. PICK n \in Nat : n = connector.open - 1
  BY <1>2, <1>3 DEF Open
<1>5. /\ connector' \in Members /\ connector'.connect_ = connector.connect_
      /\ connector'.state_ = connector.state_ /\ connector'.channel_ = connector.channel_
      /\ connector'.timers = connector.timers /\ connector'.open = n
      /\ connector'.fault = connector.fault
  <2>1. connector' = [connector EXCEPT !.open = n]
    BY <1>4 DEF connectDestoryed, closefd
  <2> QED BY <1>0, <2>1, Zenon DEF Members
<1>6. Types'
  BY <1>0, <1>1, <1>5, QueueRun DEF Types, connectDestoryed
<1>7. Always'
  <2>1. connector'.open >= Open(connector'.channel_, conn')
    BY <1>2, <1>3, <1>4, <1>5 DEF Open, connectDestoryed
  <2> QED BY <1>0, <1>1, <1>2, <1>5, <2>1, QueueRun DEF Always, Phases, connectDestoryed
<1>8. ASSUME ~misused' PROVE Disciplined'
  <2>1. Disciplined
    BY <1>8 DEF connectDestoryed, IInv
  <2>2. connector'.open = Open(connector'.channel_, conn')
    BY <1>2, <1>3, <1>4, <1>5, <2>1 DEF Disciplined, Open, connectDestoryed
  <2> QED BY <1>0, <1>1, <1>2, <1>5, <2>1, <2>2, QueueRun
          DEF Disciplined, OneAttempt, OneConnection, ActiveFresh, Deleted, Starting,
              connectDestoryed
<1> QED BY <1>6, <1>7, <1>8 DEF IInv

(* An attempt opens no more sockets than it accounts for.                    *)
LEMMA StartOpens ==
  ASSUME NEW c \in Members, NEW d \in startInLoop(c), NEW k, c.open >= Open(c.channel_, k)
  PROVE  d.open >= Open(d.channel_, k)
<1>1. c.open \in Nat /\ d.open \in Nat
  BY StartFacts DEF Members
<1>2. CASE d.channel_ # "active"
  <2>1. d.open >= c.open /\ c.channel_ # "active"
    BY <1>2, StartFacts
  <2> QED BY <1>1, <1>2, <2>1 DEF Open
<1>3. CASE d.channel_ = "active"
  <2>1. d.open = c.open + 1 \/ (c.channel_ = "active" /\ d.open >= c.open)
    BY <1>3, StartFacts
  <2> QED BY <1>1, <1>3, <2>1 DEF Open
<1> QED BY <1>2, <1>3

(* An attempt of a Connector that is at rest: it is under way, or waits for  *)
(* the one timer there is, or is over.                                       *)
LEMMA AttemptFacts ==
  ASSUME NEW c \in Members, NEW d \in startInLoop(c), c.state_ = "kDisconnected",
         c.channel_ = "none", c.timers = <<>>, NEW k, c.open = Open(c.channel_, k)
  PROVE  /\ d.fault = c.fault /\ d.connect_ = c.connect_ /\ d.open = Open(d.channel_, k)
         /\ \/ d.channel_ = "active" /\ c.connect_ /\ d.timers = <<>>
            \/ /\ d.channel_ = "none" /\ d.state_ = "kDisconnected"
               /\ d.timers = <<>> \/ (c.connect_ /\ d.timers # <<>> /\ Len(d.timers) = 1)
<1>1. c.retryDelayMs_ \in Delays
  BY DEF Members
<1>2. Append(<<>>, c.retryDelayMs_) # <<>> /\ Len(Append(<<>>, c.retryDelayMs_)) = 1
  BY <1>1
<1>3. d.fault = c.fault /\ d.connect_ = c.connect_
  BY StartFacts
<1>4. CASE d.channel_ = "active" /\ d.open = c.open + 1 /\ d.timers = c.timers /\ c.connect_
  <2>1. d.open = Open(d.channel_, k)
    BY <1>4 DEF Open
  <2> QED BY <1>3, <1>4, <2>1
<1>5. CASE /\ d.channel_ = "none" /\ d.state_ = "kDisconnected" /\ d.open = c.open
           /\ \/ d.timers = c.timers
              \/ c.connect_ /\ d.timers = Append(c.timers, c.retryDelayMs_)
  <2>1. d.open = Open(d.channel_, k)
    BY <1>5 DEF Open
  <2> QED BY <1>2, <1>3, <1>5, <2>1
<1> QED BY <1>4, <1>5, StartFacts

(* The functor of start(): an attempt of a Connector at rest.               *)
LEMMA RunStartKeeps ==
  ASSUME IInv, fault = "none", RunStart
  PROVE  IInv'
<1> USE DEF client, connection, Run
<1>0. Types /\ Always /\ OneDestroy /\ connector \in Members
  BY DEF IInv, Types, Always
<1>1. /\ batch # <<>> /\ batch' = Tail(batch) /\ pending' = pending
      /\ nextConnId_' = nextConnId_ /\ Head(batch).f = "startInLoop"
  BY DEF RunStart
<1>2. connector' \in startInLoop(connector) /\ conn' = conn
  BY DEF RunStart
<1>3. connector' \in Members /\ connector'.open >= Open(connector'.channel_, conn')
  BY <1>0, <1>2, StartFacts, StartOpens DEF Always
<1>4. Types'
  <2>1. batch' \in Seq(Functors)
    BY <1>0, <1>1, QueueRun
  <2> QED BY <1>0, <1>1, <1>3, <2>1 DEF Types, RunStart
<1>5. ASSUME fault' = "none" PROVE Always'
  <2>1. connector'.fault = "none"
    BY <1>5 DEF RunStart
  <2> QED BY <1>0, <1>1, <1>3, <2>1, QueueRun DEF Always, Phases, RunStart
<1>6. ASSUME ~misused' PROVE Disciplined'
  <2>1. Disciplined
    BY <1>6 DEF RunStart, IInv
  <2>2. /\ connector.state_ = "kDisconnected" /\ connector.channel_ = "none"
        /\ connector.timers = <<>>
        /\ HasStart /\ ~connection_ /\ alive # "none" /\ active = {} /\ pc = "functors"
    BY <1>0, <1>1, <2>1, QueueRun
       DEF Disciplined, OneAttempt, Starting, Always, Phases, RunStart
  <2>3. /\ connector'.fault = "none" /\ connector'.connect_ = connector.connect_
        /\ connector'.open = Open(connector'.channel_, conn')
        /\ \/ connector'.channel_ = "active" /\ connector.connect_ /\ connector'.timers = <<>>
           \/ /\ connector'.channel_ = "none" /\ connector'.state_ = "kDisconnected"
              /\ \/ connector'.timers = <<>>
                 \/ /\ connector.connect_
                    /\ connector'.timers # <<>> /\ Len(connector'.timers) = 1
    BY <1>0, <1>2, <2>1, <2>2, AttemptFacts DEF Disciplined, Always
  <2>4. fault' = "none"
    BY <2>2, <2>3 DEF RunStart
  <2>5. /\ ~HasStart' /\ (HasReset' <=> HasReset) /\ (HasDestroy' <=> HasDestroy)
        /\ (HasShutdown' => HasShutdown) /\ InOrder' /\ ~HasReset
    BY <1>0, <1>1, <2>1, <2>2, QueueRun DEF Disciplined, OneAttempt
  <2>6. OneAttempt'
    BY <1>0, <2>1, <2>2, <2>3, <2>5
       DEF Disciplined, OneAttempt, Starting, Deleted, Types, RunStart
  <2>7. Deleted'
    BY <2>1, <2>2, <2>3 DEF Disciplined, Deleted, RunStart
  <2> QED BY <1>0, <2>1, <2>2, <2>3, <2>4, <2>5, <2>6, <2>7
          DEF Disciplined, OneConnection, ActiveFresh, RunStart
<1> QED BY <1>4, <1>5, <1>6 DEF IInv

(* restart(): an attempt after the connection was removed.                  *)
LEMMA ReconnectKeeps ==
  ASSUME IInv, fault = "none", Reconnect
  PROVE  IInv'
<1> USE DEF client, connection
<1>0. Types /\ Always /\ connector \in Members
  BY DEF IInv, Types
<1>1. PICK c \in Members :
        /\ connector' \in startInLoop(c) /\ c.connect_ = TRUE /\ c.state_ = "kDisconnected"
        /\ c.channel_ = connector.channel_ /\ c.timers = connector.timers
        /\ c.open = connector.open /\ c.fault = connector.fault
  <2> DEFINE e == [connector EXCEPT !.state_ = "kDisconnected",
                                    !.retryDelayMs_ = kInitRetryDelayMs, !.connect_ = TRUE]
  <2>1. kInitRetryDelayMs \in Delays
    BY DEF Delays, kInitRetryDelayMs, kMaxRetryDelayMs
  <2>2. /\ e \in Members /\ e.connect_ = TRUE /\ e.state_ = "kDisconnected"
        /\ e.channel_ = connector.channel_ /\ e.timers = connector.timers
        /\ e.open = connector.open /\ e.fault = connector.fault
    BY <1>0, <2>1, Zenon DEF Members
  <2>3. connector' \in startInLoop(e)
    BY DEF Reconnect, restart
  <2> HIDE DEF e
  <2> QED BY <2>2, <2>3
<1>2. connector' \in Members /\ connector'.open >= Open(connector'.channel_, conn')
      /\ (c.channel_ = "active" => connector'.channel_ = "active")
  BY <1>0, <1>1, StartFacts, StartOpens DEF Always, Reconnect
<1>3. Types'
  BY <1>0, <1>2 DEF Types, Reconnect
<1>4. ASSUME fault' = "none" PROVE Always'
  <2>1. connector'.fault = "none"
    BY <1>4 DEF Reconnect
  <2> QED BY <1>0, <1>1, <1>2, <2>1, QueueSame DEF Always, Phases, Reconnect
<1>5. ASSUME ~misused' PROVE Disciplined'
  <2>1. Disciplined
    BY <1>5 DEF Reconnect, IInv
  <2>2. /\ connector.channel_ = "none" /\ connector.timers = <<>>
        /\ ~Starting /\ ~connection_ /\ alive = "all"
        /\ "timer" \notin active /\ "connector" \notin active /\ "keepAlive" \notin active
    BY <1>0, <2>1
       DEF Disciplined, OneAttempt, OneConnection, ActiveFresh, Deleted, Always, Types, Reconnect
  <2>3. conn # "none" => HasDestroy
    BY <2>1, <2>2 DEF Disciplined, OneConnection
  <2>4. "connection" \notin active
    BY <1>0, <2>3 DEF Always
  <2>5. /\ connector'.fault = "none"
        /\ connector'.open = Open(connector'.channel_, conn')
        /\ \/ connector'.channel_ = "active" /\ connector'.timers = <<>>
           \/ /\ connector'.channel_ = "none" /\ connector'.state_ = "kDisconnected"
              /\ \/ connector'.timers = <<>>
                 \/ connector'.timers # <<>> /\ Len(connector'.timers) = 1
    BY <1>0, <1>1, <2>1, <2>2, AttemptFacts DEF Disciplined, Always, Reconnect
  <2>6. OneAttempt'
    BY <2>1, <2>2, <2>5, QueueSame DEF Disciplined, OneAttempt, Starting, Reconnect
  <2>7. OneConnection' /\ ActiveFresh' /\ Deleted'
    BY <2>1, <2>2, <2>3, <2>4, <2>5, QueueSame
       DEF Disciplined, OneConnection, ActiveFresh, Deleted, Reconnect
  <2> QED BY <2>1, <2>5, <2>6, <2>7, QueueSame DEF Disciplined, Reconnect
<1> QED BY <1>3, <1>4, <1>5 DEF IInv

(* The timer of retry() expires: the next attempt.                          *)
LEMMA RetryTimerKeeps ==
  ASSUME IInv, fault = "none", RetryTimer
  PROVE  IInv'
<1> USE DEF client, connection
<1>0. Types /\ Always /\ connector \in Members
  BY DEF IInv, Types
<1>1. PICK c \in Members :
        /\ connector' \in startInLoop(c) /\ c.connect_ = connector.connect_
        /\ c.state_ = connector.state_ /\ c.channel_ = connector.channel_
        /\ Len(connector.timers) = 1 => c.timers = <<>>
        /\ c.open = connector.open /\ c.fault = connector.fault
  <2>1. PICK i \in DOMAIN connector.timers :
          connector' \in startInLoop([connector EXCEPT !.timers = RemoveAt(@, i)])
    BY DEF RetryTimer
  <2>2. PICK s \in Seq(Delays) : s = connector.timers
    BY <1>0 DEF Members
  <2>3. PICK r \in Seq(Delays) : r = RemoveAt(s, i) /\ (Len(s) = 1 => r = <<>>)
    BY <2>1, <2>2, RemoveFacts
  <2> DEFINE e == [connector EXCEPT !.timers = r]
  <2>4. /\ e \in Members /\ e.connect_ = connector.connect_ /\ e.state_ = connector.state_
        /\ e.channel_ = connector.channel_ /\ e.timers = r
        /\ e.open = connector.open /\ e.fault = connector.fault
    BY <1>0, <2>3, Zenon DEF Members
  <2>5. connector' \in startInLoop(e)
    BY <2>1, <2>2, <2>3
  <2> HIDE DEF e
  <2> QED BY <2>2, <2>3, <2>4, <2>5
<1>2. connector' \in Members /\ connector'.open >= Open(connector'.channel_, conn')
      /\ (c.channel_ = "active" => connector'.channel_ = "active")
  BY <1>0, <1>1, StartFacts, StartOpens DEF Always, RetryTimer
<1>3. Types'
  BY <1>0, <1>2 DEF Types, RetryTimer
<1>4. ASSUME fault' = "none" PROVE Always'
  <2>1. connector'.fault = "none"
    BY <1>4 DEF RetryTimer
  <2> QED BY <1>0, <1>1, <1>2, <2>1, QueueSame DEF Always, Phases, RetryTimer
<1>5. ASSUME ~misused' PROVE Disciplined'
  <2>1. Disciplined
    BY <1>5 DEF RetryTimer, IInv
  <2>2. /\ connector.channel_ = "none" /\ Len(connector.timers) = 1
        /\ connector.state_ = "kDisconnected"
        /\ ~Starting /\ ~connection_ /\ alive # "none" /\ ~HasReset
        /\ "connector" \notin active /\ "keepAlive" \notin active /\ pc = "handle"
    BY <1>0, <2>1
       DEF Disciplined, OneAttempt, ActiveFresh, Always, RetryTimer
  <2>3. conn # "none" => HasDestroy
    BY <2>1, <2>2 DEF Disciplined, OneConnection
  <2>4. "connection" \notin active
    BY <1>0, <2>3 DEF Always
  <2>5. /\ connector'.fault = "none" /\ connector'.connect_ = connector.connect_
        /\ connector'.open = Open(connector'.channel_, conn')
        /\ \/ connector'.channel_ = "active" /\ connector.connect_ /\ connector'.timers = <<>>
           \/ /\ connector'.channel_ = "none" /\ connector'.state_ = "kDisconnected"
              /\ \/ connector'.timers = <<>>
                 \/ /\ connector.connect_
                    /\ connector'.timers # <<>> /\ Len(connector'.timers) = 1
    BY <1>0, <1>1, <2>1, <2>2, AttemptFacts DEF Disciplined, Always, RetryTimer
  <2>6. fault' = "none"
    BY <2>2, <2>5 DEF RetryTimer
  <2>7. OneAttempt'
    BY <1>0, <2>1, <2>2, <2>5, QueueSame
       DEF Disciplined, OneAttempt, Starting, Deleted, Types, RetryTimer
  <2>8. Deleted'
    BY <2>1, <2>2, <2>5 DEF Disciplined, Deleted, RetryTimer
  <2>9. OneConnection' /\ ActiveFresh'
    BY <2>1, <2>2, <2>3, <2>4, <2>5, QueueSame
       DEF Disciplined, OneConnection, ActiveFresh, RetryTimer
  <2> QED BY <2>1, <2>5, <2>6, <2>7, <2>8, <2>9, QueueSame DEF Disciplined, RetryTimer
<1> QED BY <1>3, <1>4, <1>5 DEF IInv

(* An attempt ends, perhaps with a connection.                              *)
LEMMA ConnectorEventKeeps ==
  ASSUME IInv, fault = "none", ConnectorEvent
  PROVE  IInv'
<1> USE DEF client, connection
<1>0. Types /\ Always /\ connector \in Members /\ nextConnId_ \in Nat
  BY DEF IInv, Types
<1> DEFINE x == Functor("resetChannel", 0)
           made == connector'.state_ = "kConnected" /\ connector.connect_
<1>1. x \in Functors /\ x.f = "resetChannel"
  BY DEF Functors, Functor, FunctorNames
<1>2. /\ batch' = batch /\ pending' = Append(pending, x)
      /\ connector' \in {handleError(connector)} \cup handleWrite(connector)
      /\ connector.channel_ = "active"
  BY <1>0 DEF ConnectorEvent, Always
<1>3. /\ made => /\ connection_' = TRUE /\ conn' = "kConnecting" /\ pc' = "establish"
                 /\ nextConnId_' = nextConnId_ + 1
      /\ ~made => /\ connection_' = connection_ /\ conn' = conn /\ pc' = pc
                  /\ nextConnId_' = nextConnId_
  BY DEF ConnectorEvent
<1>4. nextConnId_' \in Nat
  BY <1>0, <1>3
<1>5. /\ connector.open \in Nat /\ connector.open > 0
      /\ connector.open >= Open(connector.channel_, conn)
  <2>1. connector.open \in Nat /\ connector.open >= Open(connector.channel_, conn)
    BY <1>0 DEF Members, Always
  <2> QED BY <1>2, <2>1 DEF Open
<1>6. /\ connector' \in Members /\ connector'.connect_ = connector.connect_
      /\ connector'.channel_ = "removed" /\ connector'.fault = connector.fault
      /\ \/ made /\ connector'.open = connector.open /\ connector'.timers = connector.timers
         \/ /\ ~made /\ connector'.state_ = "kConnected" /\ connector'.open = connector.open - 1
            /\ connector'.timers = connector.timers
         \/ /\ ~made /\ connector'.state_ = "kDisconnected"
            /\ connector'.open = connector.open - 1
            /\ \/ connector'.timers = connector.timers
               \/ connector'.timers = Append(connector.timers, connector.retryDelayMs_)
  BY <1>0, <1>2, <1>5, EventFacts
<1> HIDE DEF x, made
<1>7. connector'.open >= Open(connector'.channel_, conn')
  BY <1>2, <1>3, <1>5, <1>6 DEF Open
<1>8. Types'
  <2>1. pending' \in Seq(Functors)
    BY <1>0, <1>1, <1>2, <1>4, QueueAppend
  <2>2. connection_' \in BOOLEAN /\ conn' \in {"none", "kConnecting", "kConnected", "kDisconnecting"}
        /\ pc' \in {"poll", "handle", "establish", "restart", "functors"}
    BY <1>0, <1>3 DEF Types
  <2> QED BY <1>0, <1>2, <1>4, <1>6, <2>1, <2>2 DEF Types, ConnectorEvent
<1>9. Always'
  <2>1. (HasDestroy' <=> HasDestroy) /\ OneDestroy'
    BY <1>0, <1>1, <1>2, <1>4, QueueAppend DEF Always
  <2>2. Phases'
    BY <1>0, <1>2, <1>3 DEF Always, Phases, ConnectorEvent
  <2>3. conn # "none" => conn' # "none"
    BY <1>3
  <2> QED BY <1>0, <1>3, <1>6, <1>7, <2>1, <2>2, <2>3 DEF Always, ConnectorEvent
<1>10. ASSUME ~misused' PROVE Disciplined'
  <2>1. Disciplined
    BY <1>10 DEF ConnectorEvent, IInv
  <2>2. /\ connector.timers = <<>> /\ ~Starting /\ ~connection_ /\ alive = "all" /\ ~HasReset
        /\ conn = "none" /\ ~HasDestroy /\ ~HasShutdown
        /\ "timer" \notin active /\ "connection" \notin active /\ "keepAlive" \notin active
        /\ pc = "handle"
    BY <1>0, <1>2, <2>1
       DEF Disciplined, OneAttempt, OneConnection, ActiveFresh, Deleted, Always, ConnectorEvent
  <2>3. /\ ~HasStart' /\ HasReset' /\ ~HasDestroy' /\ ~HasShutdown' /\ InOrder' /\ user' = user
        /\ user # "start"
    BY <1>0, <1>1, <1>2, <1>4, <2>1, <2>2, QueueAppend DEF Disciplined, Starting, ConnectorEvent
  <2>4. connector'.open = Open(connector'.channel_, conn')
    <3>1. connector.open = 1
      BY <1>2, <2>1, <2>2 DEF Disciplined, Open
    <3> QED BY <1>3, <1>6, <2>2, <3>1 DEF Open
  <2>5. \/ made /\ connector'.state_ = "kConnected" /\ connector'.timers = <<>>
        \/ ~made /\ connector'.timers = <<>>
        \/ /\ ~made /\ connector'.state_ = "kDisconnected" /\ connector'.timers # <<>>
           /\ Len(connector'.timers) = 1
    <3>1. connector.retryDelayMs_ \in Delays
      BY <1>0 DEF Members
    <3>2. /\ Append(<<>>, connector.retryDelayMs_) # <<>>
          /\ Len(Append(<<>>, connector.retryDelayMs_)) = 1
      BY <3>1
    <3> QED BY <1>6, <2>2, <3>2 DEF made
  <2>6. OneAttempt'
    BY <1>3, <1>6, <2>2, <2>3, <2>5 DEF OneAttempt, Starting, ConnectorEvent
  <2>7. OneConnection'
    BY <1>3, <1>6, <2>2, <2>3, <2>5 DEF OneConnection, ConnectorEvent
  <2>8. ActiveFresh' /\ Deleted'
    BY <1>3, <1>6, <2>1, <2>2 DEF Disciplined, ActiveFresh, Deleted, ConnectorEvent
  <2>9. fault' = "none"
    BY <1>0, <1>6 DEF Always, ConnectorEvent
  <2> QED BY <2>3, <2>4, <2>6, <2>7, <2>8, <2>9 DEF Disciplined
<1> QED BY <1>8, <1>9, <1>10 DEF IInv

-----------------------------------------------------------------------------
(* The theorems.                                                             *)

(* Every step keeps the invariant.                                          *)
LEMMA Consecution == IInv /\ [Next]_vars => IInv'
<1> SUFFICES ASSUME IInv, [Next]_vars PROVE IInv'
  OBVIOUS
<1>1. CASE UNCHANGED vars
  BY <1>1, StutterKeeps
<1>2. CASE Next
  <2>1. fault = "none"
    BY <1>2 DEF Next
  <2>2. CASE Poll
    BY <2>1, <2>2, PollKeeps
  <2>3. CASE Loop
    BY <2>1, <2>3, StartBatchKeeps, EndBatchKeeps, ConnectorEventKeeps, connectEstablishedKeeps,
       removeConnectionKeeps, ReconnectKeeps, RetryTimerKeeps, removeConnectorKeeps,
       RunStartKeeps, resetChannelKeeps, shutdownInLoopKeeps, connectDestoryedKeeps DEF Loop
  <2>4. CASE User
    BY <2>1, <2>4, startKeeps, stopKeeps, shutdownKeeps DEF User
  <2>5. CASE Connect
    BY <2>1, <2>5, ConnectKeeps
  <2>6. CASE Disconnect
    BY <2>1, <2>6, DisconnectKeeps
  <2>7. CASE Stop
    BY <2>1, <2>7, StopKeeps
  <2>8. CASE Destroy
    BY <2>1, <2>8, DestroyKeeps
  <2> QED BY <1>2, <2>2, <2>3, <2>4, <2>5, <2>6, <2>7, <2>8 DEF Next
<1> QED BY <1>1, <1>2

(* The inductive invariant holds, whatever the bounds and without fairness.  *)
THEOREM Invariance == Init /\ [][Next]_vars => []IInv
<1>1. IInv /\ [Next]_vars => IInv'
  BY Consecution
<1> QED BY <1>1, InitHolds, PTL

(* The types of the invariant are those that the run checks.                *)
LEMMA TypesImply == IInv => TypeOK
<1> SUFFICES ASSUME Types PROVE TypeOK
  BY DEF IInv
<1>1. connector \in Members
  BY DEF Types
<1>2. PICK s \in Seq(Delays) : s = connector.timers
  BY <1>1 DEF Members
<1>3. Range(connector.timers) \subseteq Delays
  <2>1. \A i \in DOMAIN s : s[i] \in Delays
    BY <1>2, ElementOfSeq
  <2> QED BY <1>2, <2>1 DEF Range
<1>4. /\ connector.connect_ \in BOOLEAN /\ connector.gaveUp \in BOOLEAN
      /\ connector.state_ \in {"kDisconnected", "kConnecting", "kConnected"}
      /\ connector.channel_ \in {"none", "active", "removed"}
      /\ connector.retryDelayMs_ \in Delays /\ connector.open \in Nat
  BY <1>1, Zenon DEF Members
<1> QED BY <1>3, <1>4 DEF Types, TypeOK

(* Every variable has its type; in particular the delay of a retry stays     *)
(* between kInitRetryDelayMs and kMaxRetryDelayMs however often it is        *)
(* doubled, and no socket is closed that is not open, even when the client   *)
(* is misused (Connector.h:33, Connector.cc:173-188).                        *)
THEOREM TypeCorrect == Spec => []TypeOK
<1>1. IInv => TypeOK
  BY TypesImply
<1> QED BY <1>1, Invariance, PTL DEF Spec

(* However many calls and connections there are: unless connect() or the     *)
(* destructor comes when the code is not ready for it, no assert of          *)
(* Connector and TcpClient fails, and no timer, functor or event meets a     *)
(* Connector or a connection that is deleted (Connector.cc:29, 39, 101, 114, *)
(* 156, 163, 180, TcpConnection.cc:92, TcpClient.cc:48-67, 126-143).         *)
THEOREM NoFaultCorrect == Spec => []NoFault
<1>1. IInv => NoFault
  BY DEF IInv, Disciplined, NoFault, Types
<1> QED BY <1>1, Invariance, PTL DEF Spec

(* However many attempts and connections there are, the sockets that are     *)
(* open are the one of the attempt under way and the one of the connection,  *)
(* and there is no attempt while the client has a connection                 *)
(* (Connector.cc:76, 81, 150, 173).                                          *)
THEOREM SocketsCorrect == Spec => []SocketsAccounted
<1>1. IInv => SocketsAccounted
  BY DEF IInv, Disciplined, OneAttempt, Open, SocketsAccounted, Types
<1> QED BY <1>1, Invariance, PTL DEF Spec
-----------------------------------------------------------------------------
(* What a stop() is undone by.                                               *)

(* A connect() under way is one of a client that is there and shall connect, *)
(* and the timer of ~TcpClient is one of a client that is not, however the   *)
(* client is used.                                                           *)
CallsInTime ==
  /\ user = "start" => connect_ = TRUE /\ alive = "all"
  /\ keepAlive = TRUE \/ "keepAlive" \in active => alive # "all"

(* A step that neither asks for an attempt nor makes one while there shall   *)
(* be none.                                                                  *)
Quiet ==
  /\ ~connector.connect_ => ~connector'.connect_ /\ (Resting => Resting')
  /\ connect_' => connect_
  /\ alive # "all" => alive' # "all"
  /\ pc' = "restart" => pc = "restart" \/ (connect_ /\ alive = "all")

(* startInLoop() of a Connector that was stopped does nothing, and fails at  *)
(* most (Connector.cc:38-45).                                                *)
LEMMA StoppedStart ==
  ASSUME NEW c \in Members, ~c.connect_, NEW d \in startInLoop(c)
  PROVE  ~d.connect_ /\ d.timers = c.timers /\ d.channel_ = c.channel_
<1>1. d = c \/ d = [c EXCEPT !.fault = "startInLoop: state_"]
  BY DEF startInLoop, Fail
<1> QED BY <1>1 DEF Members

(* No step but a call of connect() and a restart() asks for an attempt: the  *)
(* handlers of the loop first.                                               *)
LEMMA HandlersQuiet ==
  ASSUME IInv, fault = "none",
         Poll \/ StartBatch \/ EndBatch \/ connectEstablished \/ removeConnection
           \/ removeConnector \/ shutdownInLoop \/ resetChannel \/ connectDestoryed
  PROVE  Quiet
<1> USE DEF client, connection
<1>0. connector \in Members
  BY DEF IInv, Types
<1>1. CASE Poll \/ StartBatch \/ EndBatch \/ connectEstablished \/ shutdownInLoop \/ removeConnector
  <2>1. UNCHANGED <<connector, connect_>> /\ (pc' # "restart" \/ pc' = pc)
    BY <1>1 DEF Poll, StartBatch, EndBatch, connectEstablished, shutdownInLoop, Run, removeConnector
  <2>2. alive' = alive \/ alive' = "none"
    BY <1>1 DEF Poll, StartBatch, EndBatch, connectEstablished, shutdownInLoop, Run, removeConnector
  <2> QED BY <2>1, <2>2 DEF Quiet, Resting
<1>2. CASE removeConnection
  <2>1. UNCHANGED <<connector, connect_, alive>>
    BY <1>2 DEF removeConnection
  <2>2. pc' = "restart" => connect_ /\ alive = "all"
    BY <1>2 DEF removeConnection
  <2> QED BY <2>1, <2>2 DEF Quiet, Resting
<1>3. CASE resetChannel
  <2>1. connector' = [connector EXCEPT !.channel_ = "none"] /\ UNCHANGED <<connect_, alive, pc>>
    BY <1>3 DEF resetChannel, Run
  <2>2. /\ connector'.connect_ = connector.connect_ /\ connector'.timers = connector.timers
        /\ connector'.channel_ = "none"
    BY <1>0, <2>1, Zenon DEF Members
  <2> QED BY <2>1, <2>2 DEF Quiet, Resting
<1>4. CASE connectDestoryed
  <2>1. connector' = closefd(connector) /\ UNCHANGED <<connect_, alive, pc>>
    BY <1>4 DEF connectDestoryed, Run
  <2>2. /\ connector'.connect_ = connector.connect_ /\ connector'.timers = connector.timers
        /\ connector'.channel_ = connector.channel_
    BY <1>0, <2>1, Zenon DEF Members, closefd
  <2> QED BY <2>1, <2>2 DEF Quiet, Resting
<1> QED BY <1>1, <1>2, <1>3, <1>4

(* An attempt that ends, a timer that expires and a start that was queued    *)
(* find that the Connector was stopped (Connector.cc:40, 144, 175).          *)
LEMMA AttemptsQuiet ==
  ASSUME IInv, fault = "none", ConnectorEvent \/ RetryTimer \/ RunStart
  PROVE  Quiet
<1> USE DEF client, connection
<1>0. connector \in Members /\ Always
  BY DEF IInv, Types
<1>1. CASE ConnectorEvent
  <2>1. /\ connector' \in {handleError(connector)} \cup handleWrite(connector)
        /\ connector.channel_ = "active" /\ UNCHANGED <<connect_, alive>> /\ pc' # "restart"
    BY <1>0, <1>1 DEF ConnectorEvent, Always
  <2>2. connector.open > 0
    <3>1. connector.open \in Nat /\ connector.open >= Open(connector.channel_, conn)
      BY <1>0 DEF Always, Members
    <3> QED BY <2>1, <3>1 DEF Open
  <2>3. connector'.connect_ = connector.connect_
    BY <1>0, <2>1, <2>2, EventFacts
  <2> QED BY <2>1, <2>3 DEF Quiet, Resting
<1>2. CASE RetryTimer
  <2>1. PICK i \in DOMAIN connector.timers :
          connector' \in startInLoop([connector EXCEPT !.timers = RemoveAt(@, i)])
    BY <1>2 DEF RetryTimer
  <2>2. UNCHANGED <<connect_, alive, pc>>
    BY <1>2 DEF RetryTimer
  <2>3. PICK t \in Seq(Delays) : t = connector.timers /\ i \in DOMAIN t
    BY <1>0, <2>1 DEF Members
  <2>4. ~Resting
    BY <2>3 DEF Resting
  <2>5. PICK s \in Seq(Delays) : s = RemoveAt(connector.timers, i)
    BY <2>3, RemoveFacts
  <2>6. PICK c \in Members : c = [connector EXCEPT !.timers = s] /\ c.connect_ = connector.connect_
    <3>1. /\ [connector EXCEPT !.timers = s] \in Members
          /\ [connector EXCEPT !.timers = s].connect_ = connector.connect_
      BY <1>0, Zenon DEF Members
    <3> QED BY <3>1
  <2>7. ~connector.connect_ => ~connector'.connect_
    BY <2>1, <2>5, <2>6, StoppedStart
  <2> QED BY <2>2, <2>4, <2>7 DEF Quiet
<1>3. CASE RunStart
  <2>1. connector' \in startInLoop(connector) /\ UNCHANGED <<connect_, alive, pc>>
    BY <1>3 DEF RunStart, Run
  <2>2. ~connector.connect_ => /\ ~connector'.connect_ /\ connector'.timers = connector.timers
                               /\ connector'.channel_ = connector.channel_
    BY <1>0, <2>1, StoppedStart
  <2> QED BY <2>1, <2>2 DEF Quiet, Resting
<1> QED BY <1>1, <1>2, <1>3

(* Nor do the other calls, and the destructor.                               *)
LEMMA CallsQuiet ==
  ASSUME IInv, stop \/ shutdown \/ Disconnect \/ Stop \/ Destroy
  PROVE  Quiet
<1> USE DEF client, connection
<1>0. connector \in Members
  BY DEF IInv, Types
<1>1. /\ connector' = connector \/ connector' = [connector EXCEPT !.connect_ = FALSE]
      /\ connect_' = connect_ \/ connect_' = FALSE
      /\ pc' = pc /\ (alive # "all" => alive' # "all")
  BY DEF stop, shutdown, Disconnect, Stop, Call, Destroy
<1>2. /\ connector'.connect_ = connector.connect_ \/ connector'.connect_ = FALSE
      /\ connector'.timers = connector.timers /\ connector'.channel_ = connector.channel_
  BY <1>0, <1>1, Zenon DEF Members
<1> QED BY <1>1, <1>2 DEF Quiet, Resting

(* Every step keeps the stop, or is the beginning of a connect().            *)
LEMMA StopStep ==
  IInv /\ CallsInTime /\ [Next]_vars =>
    /\ CallsInTime'
    /\ Stopped => \/ user = "idle" /\ user' = "start"
                  \/ Stopped' /\ (Resting => Resting')
<1> SUFFICES ASSUME IInv, CallsInTime, [Next]_vars
             PROVE  /\ CallsInTime'
                    /\ Stopped => \/ user = "idle" /\ user' = "start"
                                  \/ Stopped' /\ (Resting => Resting')
  OBVIOUS
<1> USE DEF client, connection
<1>1. CallsInTime'
  <2>1. CASE UNCHANGED vars
    BY <2>1 DEF vars, CallsInTime
  <2>2. CASE Poll
    BY <2>2 DEF Poll, Ready, KeepAliveOver, CallsInTime
  <2>3. CASE Loop
    BY <2>3 DEF Loop, StartBatch, EndBatch, ConnectorEvent, connectEstablished, removeConnection,
         Reconnect, RetryTimer, removeConnector, RunStart, resetChannel, shutdownInLoop,
         connectDestoryed, Run, CallsInTime
  <2>4. CASE User
    BY <2>4 DEF User, start, stop, shutdown, CallsInTime
  <2>5. CASE Connect \/ Disconnect \/ Stop
    BY <2>5 DEF Connect, Disconnect, Stop, Call, CallsInTime
  <2>6. CASE Destroy
    BY <2>6 DEF Destroy, CallsInTime
  <2> QED BY <2>1, <2>2, <2>3, <2>4, <2>5, <2>6 DEF Next
<1>2. CASE Quiet
  BY <1>1, <1>2 DEF Quiet, Stopped
<1>3. CASE Reconnect \/ start
  BY <1>1, <1>3 DEF Reconnect, start, Stopped, CallsInTime
<1>4. CASE Connect
  BY <1>1, <1>4 DEF Connect, Call
<1>5. CASE UNCHANGED vars
  BY <1>2, <1>5 DEF vars, Quiet, Resting
<1> QED BY <1>2, <1>3, <1>4, <1>5, HandlersQuiet, AttemptsQuiet, CallsQuiet DEF Next, Loop, User

(* Nothing but a call of connect() undoes a stop(), or begins anything with  *)
(* a Connector that has come to rest: for any number of calls, connections   *)
(* and retries, even when the client is misused                              *)
(* (Connector.cc:38-45, 95-97, 148, 175, TcpClient.cc:91-95, 138-142).       *)
THEOREM StopCorrect == Spec => StopHolds
<1>1. Init => CallsInTime
  BY DEF Init, CallsInTime
<1> QED BY <1>1, StopStep, Invariance, PTL DEF Spec, StopHolds
=============================================================================
