----------------------------- MODULE TcpClient -----------------------------
(***************************************************************************)
(* TcpClient and its Connector in the loop's thread, and a user in another *)
(* thread that calls connect, disconnect and stop.  The loop polls, calls  *)
(* the handlers of what is active and then a batch of functors (module     *)
(* EventLoop has the details).  Of the connection there is only its life   *)
(* (module TcpConnection has the rest).  A failed assert and a use of      *)
(* something deleted are recorded in fault, and end the program.           *)
(***************************************************************************)
EXTENDS Integers, Sequences, SequencesExt

CONSTANTS
  MaxCalls,       \* bound: calls of connect()
  MaxConnections  \* bound: the connections that the peer closes

ASSUME ClientAssumption == MaxCalls \in Nat /\ MaxConnections \in Nat

kInitRetryDelayMs == 500
kMaxRetryDelayMs == 30 * 1000
KeepAliveMs == 1000    \* how long ~TcpClient keeps the Connector

VARIABLES
  connector,   \* its members; timers: the delays of its timers that are running,
               \* open: how many sockets are open, gaveUp: an error ended its attempts
  connect_, retry_, connection_,  \* of TcpClient; connection_: whether it is set
  conn,        \* state_ of the connection, "none" when there is none
  nextConnId_,
  userRef,     \* the user keeps a TcpConnectionPtr while the connection is up
  alive,       \* "all", "connector" (the client is deleted), "none"
  keepAlive,   \* the timer of ~TcpClient is running
  active, pending, batch,  \* of the loop
  pc,          \* where the loop's thread is
  user,        \* what is left of the user's call, or "idle"
  calls,       \* of connect()
  misused,     \* a call came when the code is not ready for it, see Misuse
  fault

connection == <<conn, nextConnId_, userRef>>
client == <<connect_, retry_, connection_>>
vars == <<connector, client, connection, alive, keepAlive, active, pending, batch,
          pc, user, calls, misused, fault>>

(* After the constructor and, perhaps, enableRetry().                        *)
Init ==
  /\ connector = [connect_ |-> FALSE, state_ |-> "kDisconnected", channel_ |-> "none",
                  retryDelayMs_ |-> kInitRetryDelayMs, timers |-> <<>>,
                  open |-> 0, gaveUp |-> FALSE, fault |-> "none"]
  /\ connect_ = TRUE /\ retry_ \in BOOLEAN /\ connection_ = FALSE
  /\ conn = "none" /\ nextConnId_ = 1 /\ userRef = FALSE
  /\ alive = "all" /\ keepAlive = FALSE
  /\ active = {} /\ pending = <<>> /\ batch = <<>>
  /\ pc = "poll" /\ user = "idle" /\ calls = 0
  /\ misused = FALSE /\ fault = "none"

Functor(f, id) == [f |-> f, id |-> id]

-----------------------------------------------------------------------------
(* Connector, as functions from its members c to what they become.           *)

Fail(c, what) == [c EXCEPT !.fault = what]

createNonblockingOrDie(c) == [c EXCEPT !.open = @ + 1]
closefd(c) == [c EXCEPT !.open = @ - 1]

(* Fault: the delay doubles without end.                                     *)
retry_NoMax(c) ==
  LET closed == [closefd(c) EXCEPT !.state_ = "kDisconnected"]
  IN  IF ~c.connect_ THEN closed
      ELSE [closed EXCEPT !.timers = Append(@, c.retryDelayMs_), !.retryDelayMs_ = 2 * @]

retry(c) ==
  LET closed == [closefd(c) EXCEPT !.state_ = "kDisconnected"]
  IN  IF ~c.connect_ THEN closed
      ELSE [closed EXCEPT
              !.timers = Append(@, c.retryDelayMs_),
              !.retryDelayMs_ = IF 2 * @ < kMaxRetryDelayMs THEN 2 * @ ELSE kMaxRetryDelayMs]

connecting(c) ==
  IF c.channel_ # "none" THEN Fail(c, "connecting: channel_")
  ELSE [c EXCEPT !.state_ = "kConnecting", !.channel_ = "active"]

(* Fault: a refused connection is an error that ends the attempts quietly.   *)
connect_NoRetry(c) ==
  LET opened == createNonblockingOrDie(c)
  IN  {connecting(opened), closefd(opened), [closefd(opened) EXCEPT !.gaveUp = TRUE]}

(* connect(2) makes progress, or fails with an error to try again after, or  *)
(* with another one, as it does when there was no socket to be had.          *)
connect(c) ==
  LET opened == createNonblockingOrDie(c)
  IN  {connecting(opened), retry(opened), [closefd(opened) EXCEPT !.gaveUp = TRUE]}

startInLoop(c) ==
  IF c.state_ # "kDisconnected" THEN {Fail(c, "startInLoop: state_")}
  ELSE IF c.connect_ THEN connect(c)
  ELSE {c}

(* Fault: restart() does not set the state.                                  *)
restart_KeepsState(c) ==
  startInLoop([c EXCEPT !.retryDelayMs_ = kInitRetryDelayMs, !.connect_ = TRUE])

restart(c) ==
  startInLoop([c EXCEPT !.state_ = "kDisconnected",
                        !.retryDelayMs_ = kInitRetryDelayMs,
                        !.connect_ = TRUE])

removeAndResetChannel(c) == [c EXCEPT !.channel_ = "removed"]

(* EPOLLERR; EPOLLOUT then finds handleWrite in kDisconnected.               *)
handleError(c) == retry(removeAndResetChannel(c))

(* Fault: the socket of a Connector that was stopped is left open.           *)
connected_Leaks(c) == [removeAndResetChannel(c) EXCEPT !.state_ = "kConnected"]

(* handleWrite of a socket with no error (getSocketError) that is not        *)
(* connected to itself (isSelfConnect); the other two are retried.           *)
connected(c) ==
  LET done == [removeAndResetChannel(c) EXCEPT !.state_ = "kConnected"]
  IN  IF c.connect_ THEN done ELSE closefd(done)

handleWrite(c) == {connected(c), retry(removeAndResetChannel(c))}

-----------------------------------------------------------------------------
(* The loop.                                                                 *)

(* The timer of ~TcpClient is the last to expire of those that are not       *)
(* longer; a poll with functors pending does not take that long.             *)
KeepAliveOver ==
  /\ keepAlive /\ pending = <<>>
  /\ \A i \in DOMAIN connector.timers : connector.timers[i] > KeepAliveMs

Ready ==
  (IF connector.channel_ = "active" THEN {"connector"} ELSE {})
    \cup (IF conn \in {"kConnected", "kDisconnecting"} /\ nextConnId_ - 1 <= MaxConnections
            THEN {"connection"} ELSE {})
    \cup (IF connector.timers # <<>> THEN {"timer"} ELSE {})
    \cup (IF KeepAliveOver THEN {"keepAlive"} ELSE {})

Poll ==
  /\ pc = "poll"
  /\ active' \in SUBSET Ready
  /\ active' # {} \/ pending # <<>>
  /\ pc' = "handle"
  /\ UNCHANGED <<connector, client, connection, alive, keepAlive, pending, batch, user,
                 calls, misused, fault>>

StartBatch ==
  /\ pc = "handle" /\ active = {}
  /\ batch' = pending
  /\ pending' = <<>>
  /\ pc' = "functors"
  /\ UNCHANGED <<connector, client, connection, alive, keepAlive, active, user, calls,
                 misused, fault>>

EndBatch ==
  /\ pc = "functors" /\ batch = <<>>
  /\ pc' = "poll"
  /\ UNCHANGED <<connector, client, connection, alive, keepAlive, active, pending, batch,
                 user, calls, misused, fault>>

(* The channel of the Connector is active: EPOLLERR, or EPOLLOUT alone. When *)
(* it is connected and was not stopped, newConnection follows, here up to    *)
(* conn->connectEstablished().                                               *)
ConnectorEvent ==
  /\ pc = "handle" /\ "connector" \in active
  /\ connector' \in {handleError(connector)} \cup handleWrite(connector)
  /\ IF connector'.state_ = "kConnected" /\ connector.connect_
       THEN /\ connection_' = TRUE /\ conn' = "kConnecting"
            /\ nextConnId_' = nextConnId_ + 1
            /\ pc' = "establish"
       ELSE UNCHANGED <<connection_, conn, nextConnId_, pc>>
  /\ active' = active \ {"connector"}
  /\ pending' = Append(pending, Functor("resetChannel", 0))
  /\ fault' = connector'.fault
  /\ UNCHANGED <<connect_, retry_, userRef, alive, keepAlive, batch, user, calls, misused>>

(* In connectionCallback_ the user may keep the pointer.                     *)
connectEstablished ==
  /\ pc = "establish"
  /\ conn' = "kConnected"
  /\ userRef' \in BOOLEAN
  /\ pc' = "handle"
  /\ UNCHANGED <<connector, client, nextConnId_, alive, keepAlive, active, pending, batch,
                 user, calls, misused, fault>>

(* Fault: the connection is made again whatever the user has called.         *)
removeConnection_IgnoresStop ==
  /\ pc = "handle" /\ "connection" \in active
  /\ active' = active \ {"connection"}
  /\ pending' = Append(pending, Functor("connectDestoryed", nextConnId_ - 1))
  /\ connection_' = FALSE
  /\ pc' = IF alive = "all" /\ retry_ THEN "restart" ELSE "handle"
  /\ UNCHANGED <<connector, connect_, retry_, connection, alive, keepAlive, batch, user,
                 calls, misused, fault>>

(* The peer has closed: handleClose and closeCallback_, removeConnection of  *)
(* TcpClient, which asserts that it is the connection it has, or, once that  *)
(* is deleted, the function of that name.                                    *)
removeConnection ==
  /\ pc = "handle" /\ "connection" \in active
  /\ active' = active \ {"connection"}
  /\ pending' = Append(pending, Functor("connectDestoryed", nextConnId_ - 1))
  /\ connection_' = FALSE
  /\ pc' = IF alive = "all" /\ retry_ /\ connect_ THEN "restart" ELSE "handle"
  /\ fault' = IF alive = "all" /\ ~connection_ THEN "removeConnection: connection_" ELSE "none"
  /\ UNCHANGED <<connector, connect_, retry_, connection, alive, keepAlive, batch, user,
                 calls, misused>>

Reconnect ==
  /\ pc = "restart"
  /\ connector' \in restart(connector)
  /\ fault' = connector'.fault
  /\ pc' = "handle"
  /\ UNCHANGED <<client, connection, alive, keepAlive, active, pending, batch, user,
                 calls, misused>>

(* Fault: the timer is one of runEvery.                                      *)
RetryTimer_Periodic ==
  /\ pc = "handle" /\ "timer" \in active
  /\ connector' \in startInLoop(connector)
  /\ fault' = IF alive = "none" THEN "timer: Connector deleted" ELSE connector'.fault
  /\ active' = active \ {"timer"}
  /\ UNCHANGED <<client, connection, alive, keepAlive, pending, batch, pc, user, calls,
                 misused>>

(* A timer expires and calls startInLoop, on a Connector that may be gone.   *)
RetryTimer ==
  /\ pc = "handle" /\ "timer" \in active
  /\ \E i \in DOMAIN connector.timers :
       connector' \in startInLoop([connector EXCEPT !.timers = RemoveAt(@, i)])
  /\ fault' = IF alive = "none" THEN "timer: Connector deleted" ELSE connector'.fault
  /\ active' = active \ {"timer"}
  /\ UNCHANGED <<client, connection, alive, keepAlive, pending, batch, pc, user, calls,
                 misused>>

(* The timer of ~TcpClient expires and deletes the Connector, which asserts  *)
(* that it has no channel.                                                   *)
removeConnector ==
  /\ pc = "handle" /\ "keepAlive" \in active
  /\ keepAlive' = FALSE
  /\ alive' = "none"
  /\ fault' = IF connector.channel_ = "none" THEN "none" ELSE "~Connector: channel_"
  /\ active' = active \ {"keepAlive"}
  /\ UNCHANGED <<connector, client, connection, pending, batch, pc, user, calls, misused>>

-----------------------------------------------------------------------------
(* The functors.                                                             *)

Run(f) ==
  /\ pc = "functors" /\ batch # <<>> /\ Head(batch).f = f
  /\ batch' = Tail(batch)
  /\ UNCHANGED <<client, alive, keepAlive, active, pending, pc, user, calls, misused>>

RunStart ==
  /\ Run("startInLoop")
  /\ connector' \in startInLoop(connector)
  /\ fault' = IF alive = "none" THEN "start: Connector deleted" ELSE connector'.fault
  /\ UNCHANGED connection

resetChannel ==
  /\ Run("resetChannel")
  /\ connector' = [connector EXCEPT !.channel_ = "none"]
  /\ fault' = IF alive = "none" THEN "resetChannel: Connector deleted" ELSE "none"
  /\ UNCHANGED connection

(* The functor holds a plain pointer to the connection.                      *)
shutdownInLoop ==
  /\ Run("shutdownInLoop")
  /\ fault' = IF conn # "none" /\ Head(batch).id = nextConnId_ - 1 THEN "none"
              ELSE "shutdownInLoop: connection deleted"
  /\ UNCHANGED <<connector, connection>>

(* The user is called, lets go of the pointer, and the functor held the last *)
(* one: the connection is deleted and closes its socket.                     *)
connectDestoryed ==
  /\ Run("connectDestoryed")
  /\ conn' = "none" /\ userRef' = FALSE
  /\ connector' = closefd(connector)
  /\ UNCHANGED <<nextConnId_, fault>>

-----------------------------------------------------------------------------
(* The user, in another thread. A call in the loop's thread is one that      *)
(* nothing else comes into.                                                  *)

AtRest ==
  /\ connector.state_ = "kDisconnected" /\ connector.channel_ = "none"
  /\ connector.timers = <<>> /\ pc # "restart"
  /\ Functor("startInLoop", 0) \notin Range(pending \o batch)

Call ==
  /\ user = "idle" /\ alive = "all"
  /\ UNCHANGED <<connector, retry_, connection_, connection, alive, keepAlive, active,
                 pending, batch, pc, fault>>

Connect ==
  /\ Call /\ calls < MaxCalls
  /\ connect_' = TRUE
  /\ calls' = calls + 1
  /\ misused' = (misused \/ ~AtRest)
  /\ user' = "start"

Disconnect == Call /\ connect_' = FALSE /\ user' = "shutdown" /\ UNCHANGED <<calls, misused>>

Stop == Call /\ connect_' = FALSE /\ user' = "stop" /\ UNCHANGED <<calls, misused>>

(* Connector::start and Connector::stop.                                     *)
start ==
  /\ user = "start"
  /\ connector' = [connector EXCEPT !.connect_ = TRUE, !.gaveUp = FALSE]
  /\ pending' = Append(pending, Functor("startInLoop", 0))
  /\ user' = "idle"
  /\ UNCHANGED <<client, connection, alive, keepAlive, active, batch, pc, calls, misused,
                 fault>>

stop ==
  /\ user = "stop"
  /\ connector' = [connector EXCEPT !.connect_ = FALSE]
  /\ user' = "idle"
  /\ UNCHANGED <<client, connection, alive, keepAlive, active, pending, batch, pc, calls,
                 misused, fault>>

(* connection_->shutdown(), under mutex_: one step, for who resets           *)
(* connection_ locks it too, and nothing else writes to state_ meanwhile.    *)
shutdown ==
  /\ user = "shutdown"
  /\ IF connection_ /\ conn = "kConnected"
       THEN /\ conn' = "kDisconnecting"
            /\ pending' = Append(pending, Functor("shutdownInLoop", nextConnId_ - 1))
       ELSE UNCHANGED <<conn, pending>>
  /\ user' = "idle"
  /\ UNCHANGED <<connector, client, nextConnId_, userRef, alive, keepAlive, active, batch,
                 pc, calls, misused, fault>>

(* What the code is not ready for when the client is deleted: a connection   *)
(* that nobody else has a pointer to, or whose Connector is not at rest;     *)
(* without a connection, an attempt under way, or a long retry delay.        *)
Misuse ==
  IF connection_ THEN ~userRef \/ connector.channel_ # "none" \/ connector.timers # <<>>
  ELSE \/ connector.channel_ = "active"
       \/ \E i \in DOMAIN connector.timers : connector.timers[i] > KeepAliveMs

(* ~TcpClient, called in a callback of the loop. The Connector goes at once, *)
(* or after the timer.                                                       *)
Destroy ==
  /\ alive = "all" /\ user = "idle" /\ pc \in {"handle", "functors"}
  /\ misused' = (misused \/ Misuse)
  /\ connection_' = FALSE
  /\ IF connection_
       THEN /\ alive' = "none"
            /\ fault' = IF ~userRef THEN "~TcpClient: connection deleted"
                        ELSE IF connector.channel_ # "none" THEN "~Connector: channel_"
                        ELSE "none"
            /\ UNCHANGED <<connector, keepAlive>>
       ELSE /\ alive' = "connector"
            /\ connector' = [connector EXCEPT !.connect_ = FALSE]
            /\ keepAlive' = TRUE
            /\ UNCHANGED fault
  /\ UNCHANGED <<connect_, retry_, connection, active, pending, batch, pc, user, calls>>

-----------------------------------------------------------------------------
Loop ==
  \/ StartBatch \/ EndBatch
  \/ ConnectorEvent \/ connectEstablished \/ removeConnection \/ Reconnect
  \/ RetryTimer \/ removeConnector
  \/ RunStart \/ resetChannel \/ shutdownInLoop \/ connectDestoryed

User == start \/ stop \/ shutdown

Next ==
  /\ fault = "none"
  /\ Poll \/ Loop \/ User \/ Connect \/ Disconnect \/ Stop \/ Destroy

(* The loop's thread and the user's calls go on; the functors that are       *)
(* pending are run, timers expire, and an attempt to connect comes to an end.*)
Fairness ==
  /\ WF_vars(fault = "none" /\ Loop)
  /\ WF_vars(fault = "none" /\ User)
  /\ WF_vars(fault = "none" /\ Poll /\ pending # <<>>)
  /\ SF_vars(fault = "none" /\ Poll /\ "connector" \in active')
  /\ SF_vars(fault = "none" /\ Poll /\ "timer" \in active')

(* The server accepts connections time and again.                            *)
ServerAccepts ==
  /\ SF_vars(fault = "none" /\ RetryTimer /\ connector'.channel_ = "active")
  /\ SF_vars(fault = "none" /\ ConnectorEvent /\ connector'.state_ = "kConnected")

Spec == Init /\ [][Next]_vars /\ Fairness /\ ServerAccepts

-----------------------------------------------------------------------------
(* Properties.                                                               *)

Delays == kInitRetryDelayMs .. kMaxRetryDelayMs

(* The types; a retry never waits more than kMaxRetryDelayMs, however many   *)
(* there are (Connector.h:33, Connector.cc:180-182).                         *)
TypeOK ==
  /\ connector.connect_ \in BOOLEAN /\ connector.gaveUp \in BOOLEAN
  /\ connector.state_ \in {"kDisconnected", "kConnecting", "kConnected"}
  /\ connector.channel_ \in {"none", "active", "removed"}
  /\ connector.retryDelayMs_ \in Delays
  /\ Range(connector.timers) \subseteq Delays
  /\ connector.open \in Nat
  /\ {connect_, retry_, connection_, userRef, keepAlive, misused} \subseteq BOOLEAN
  /\ conn \in {"none", "kConnecting", "kConnected", "kDisconnecting"}
  /\ nextConnId_ \in Nat /\ calls \in 0 .. MaxCalls
  /\ alive \in {"all", "connector", "none"}
  /\ active \subseteq {"connector", "connection", "timer", "keepAlive"}
  /\ pc \in {"poll", "handle", "establish", "restart", "functors"}
  /\ user \in {"idle", "start", "stop", "shutdown"}

(* As long as connect() is called only when the Connector is at rest, and    *)
(* the client deleted only when it and its connection can be spared, no      *)
(* assert fails, and no functor, timer or event comes to something that is   *)
(* deleted, whatever the user calls when, and however often it reconnects    *)
(* (Connector.cc:29, 39, 101, 114, 156, 163, 180, TcpConnection.cc:92,       *)
(* TcpClient.cc:48-67, 126-143).                                             *)
NoFault == fault # "none" => misused

(* Every socket is closed once: open are the one of the attempt under way    *)
(* and the one of the connection, and no attempt is made while the client    *)
(* has a connection (Connector.cc:76, 81, 150, 173).                         *)
SocketsAccounted ==
  ~misused =>
    /\ connector.open = (IF connector.channel_ = "active" THEN 1 ELSE 0)
                          + (IF conn # "none" THEN 1 ELSE 0)
    /\ ~(connection_ /\ connector.channel_ = "active")

Broken == misused \/ fault # "none"

(* stop() has returned, or the client is deleted, and no restart() that      *)
(* removeConnection decided on before is still to come.                      *)
Stopped == ~connector.connect_ /\ (~connect_ \/ alive # "all") /\ pc # "restart"

Resting == connector.timers = <<>> /\ connector.channel_ = "none"

(* Nothing but a call of connect() undoes a stop(): not the end of the        *)
(* connection, though retry_ is set, nor a timer, an error or a functor that  *)
(* was under way; and a Connector that has come to rest begins nothing        *)
(* (Connector.cc:38-45, 95-97, 148, 175, TcpClient.cc:91-95, 138-142).        *)
StopHolds ==
  [][Stopped => \/ user = "idle" /\ user' = "start"
                \/ Stopped' /\ (Resting => Resting')]_vars

(* After a stop() the Connector comes to rest, whatever it was about: an      *)
(* attempt ends, a timer finds that it is not wanted                          *)
(* (Connector.cc:40-44, 148-151, 175).                                        *)
StopSettles == Stopped ~> (Resting \/ user = "start" \/ Broken)

Wanted ==
  /\ alive = "all" /\ connect_ /\ connector.connect_
  /\ retry_ \/ nextConnId_ = 1

(* A client that shall be connected, for the first time or again, is, unless *)
(* there is an error that is not retried: no retry is forgotten              *)
(* (Connector.cc:47-84, 122-188, TcpClient.cc:97-144).                       *)
Connects == Wanted ~> (connection_ \/ ~Wanted \/ connector.gaveUp \/ Broken)
=============================================================================
