--------------------------- MODULE TcpConnection ---------------------------
(***************************************************************************)
(* reactor/TcpConnection.{h,cc}: the handlers of a connection, run by its  *)
(* loop's thread, and its socket.  A handler is called from calls, the     *)
(* stack of calls that the current channel event or functor still has to   *)
(* make; <<"client", c>> on top of it stands for a callback of the         *)
(* application, which may send on and shut down any connection it knows.   *)
(*                                                                         *)
(* Data is counted in units; message m has two of them, so that a write    *)
(* can take half of it.                                                    *)
(***************************************************************************)
EXTENDS Epoller

CONSTANTS
  SndBuf,    \* units the kernel's send buffer of a socket holds
  MaxSends   \* bound: messages sent

ASSUME BuffersAssumption == SndBuf \in Nat /\ MaxSends \in Nat

VARIABLES
  state_,
  outputBuffer_,
  sock,              \* external: the socket, see Socket
  pendingFunctors_,  \* of the loop: sequence of <<name, connection, message>>
  calls,             \* sequence of <<name, connection>>
  sends,             \* messages sent so far, for the bound
  accepted, written, \* history: units handed to sendInLoop, units written to the socket
  closed,            \* history: handleClose was called
  seen               \* history: calls of connectionCallback_, "up" or "down"

connVars == <<state_, outputBuffer_, sock, pendingFunctors_, calls, sends,
              accepted, written, closed, seen>>

States == {"none", "kConnecting", "kConnected", "kDisconnecting", "kDisConnected"}

(* external: unread input, FIN and RST received, pending SO_ERROR, free room *)
(* of the send buffer, shutdown(SHUT_WR) done.                               *)
Socket == [inq : {0, 1}, fin : BOOLEAN, rst : BOOLEAN, err : BOOLEAN,
           room : 0 .. SndBuf, shutWr : BOOLEAN]

NewSocket == [inq |-> 0, fin |-> FALSE, rst |-> FALSE, err |-> FALSE,
              room |-> SndBuf, shutWr |-> FALSE]

ConnInit ==
  /\ EpollInit
  /\ state_ = [c \in Conns |-> "none"]
  /\ outputBuffer_ = [c \in Conns |-> <<>>]
  /\ sock = [c \in Conns |-> NewSocket]
  /\ pendingFunctors_ = <<>>
  /\ calls = <<>>
  /\ sends = 0
  /\ accepted = [c \in Conns |-> <<>>]
  /\ written = [c \in Conns |-> <<>>]
  /\ closed = [c \in Conns |-> FALSE]
  /\ seen = [c \in Conns |-> <<>>]

Message(m) == <<2 * m - 1, 2 * m>>

setState(c, s) == state_' = [state_ EXCEPT ![c] = s]
queueInLoop(f) == pendingFunctors_' = Append(pendingFunctors_, f)
Called(name, c) == calls # <<>> /\ Head(calls) = <<name, c>>
Return == calls' = Tail(calls)
ConnectionCallback(c, what) == seen' = [seen EXCEPT ![c] = Append(@, what)]

-----------------------------------------------------------------------------
(* external: what epoll_wait reports of a descriptor with interest in ev.    *)
Revents(s, ev) ==
  LET if(p, S) == IF p THEN S ELSE {}
  IN  if("R" \in ev /\ (s.inq > 0 \/ s.fin \/ s.rst), {"IN"})
        \cup if("R" \in ev /\ (s.fin \/ s.rst), {"RDHUP"})
        \cup if("W" \in ev /\ (s.room > 0 \/ s.rst \/ s.shutWr), {"OUT"})
        \cup if(s.err, {"ERR"})
        \cup if(s.rst \/ (s.fin /\ s.shutWr), {"HUP"})

(* Channel::handleEvent: the callbacks in its order; EPOLLHUP has none.      *)
handleEvent(c, revents) ==
  LET if(p, name) == IF p THEN <<<<name, c>>>> ELSE <<>>
  IN  if("RDHUP" \in revents /\ "IN" \notin revents, "handleClose")
        \o if("ERR" \in revents, "handleError")
        \o if({"IN", "RDHUP"} \cap revents # {}, "handleRead")
        \o if("OUT" \in revents, "handleWrite")

(* external: how many of n units a write takes; 0 stands for an error.       *)
Writes(s, n) ==
  IF s.rst \/ s.shutWr THEN 0 ELSE IF n < s.room THEN n ELSE s.room

-----------------------------------------------------------------------------
(* Sending.                                                                  *)

(* Fault: what is buffered is forgotten when the next message comes.         *)
sendInLoop_Replaces(c, m) ==
  /\ outputBuffer_' = [outputBuffer_ EXCEPT ![c] = Message(m)]
  /\ accepted' = [accepted EXCEPT ![c] = @ \o Message(m)]
  /\ IF isWriting(c) THEN UNCHANGED epollVars ELSE enableWriting(c)
  /\ UNCHANGED <<sock, written, pendingFunctors_>>

(* The code writes straight to the socket when the channel is not writing    *)
(* and the buffer is NOT empty, and buffers what is left.                    *)
sendInLoop(c, m) ==
  LET direct == ~isWriting(c) /\ outputBuffer_[c] # <<>>
      n      == IF direct THEN Writes(sock[c], 2) ELSE 0
  IN  /\ accepted' = [accepted EXCEPT ![c] = @ \o Message(m)]
      /\ written' = [written EXCEPT ![c] = @ \o SubSeq(Message(m), 1, n)]
      /\ sock' = [sock EXCEPT ![c].room = @ - n]
      /\ outputBuffer_' = [outputBuffer_ EXCEPT ![c] = @ \o SubSeq(Message(m), n + 1, 2)]
      /\ IF n = 2 THEN queueInLoop(<<"writeComplete", c, 0>>) ELSE UNCHANGED pendingFunctors_
      /\ IF n < 2 /\ ~isWriting(c) THEN enableWriting(c) ELSE UNCHANGED epollVars

shutdownWrite(s) == [s EXCEPT !.shutWr = TRUE]

(* Fault: shutdown does not wait for the output buffer.                      *)
shutdownInLoop_AtOnce(c) == sock' = [sock EXCEPT ![c] = shutdownWrite(@)]

shutdownInLoop(c) ==
  sock' = IF isWriting(c) THEN sock ELSE [sock EXCEPT ![c] = shutdownWrite(@)]

(* send and shutdown as the application calls them in the loop's thread.     *)
send(c) ==
  /\ state_[c] = "kConnected"
  /\ sends < MaxSends
  /\ sends' = sends + 1
  /\ sendInLoop(c, sends + 1)
  /\ UNCHANGED <<state_, calls, closed, seen>>

shutdown(c) ==
  /\ state_[c] = "kConnected"
  /\ setState(c, "kDisconnecting")
  /\ shutdownInLoop(c)
  /\ UNCHANGED <<epollVars, outputBuffer_, pendingFunctors_, calls, sends, accepted,
                 written, closed, seen>>

ClientReturn(c) ==
  /\ Called("client", c)
  /\ Return
  /\ UNCHANGED <<epollVars, state_, outputBuffer_, sock, pendingFunctors_, sends,
                 accepted, written, closed, seen>>

-----------------------------------------------------------------------------
(* The handlers.                                                             *)

(* In the loop's thread: assertInLoopThread holds unless wrongThread.        *)
connectEstablished(c, wrongThread) ==
  /\ Called("connectEstablished", c)
  /\ IF wrongThread
     THEN /\ fault' = "wrongthread"
          /\ UNCHANGED <<fd, events_, registeredInEpoller_, channels_, interest, connVars>>
     ELSE /\ enableReading(c, state_[c] = "kConnecting")
          /\ setState(c, "kConnected")
          /\ ConnectionCallback(c, "up")
          /\ calls' = <<<<"client", c>>>> \o Tail(calls)
          /\ UNCHANGED <<outputBuffer_, sock, pendingFunctors_, sends, accepted, written,
                         closed>>

(* To get SO_ERROR is to clear it.                                           *)
getSocketError(s) == [s EXCEPT !.err = FALSE]

handleError(c) ==
  /\ Called("handleError", c)
  /\ sock' = [sock EXCEPT ![c] = getSocketError(@)]
  /\ Return
  /\ UNCHANGED <<epollVars, state_, outputBuffer_, pendingFunctors_, sends, accepted,
                 written, closed, seen>>

(* handleRead gets data: the application is called.                          *)
handleReadData(c) ==
  /\ Called("handleRead", c)
  /\ sock[c].inq > 0
  /\ sock' = [sock EXCEPT ![c].inq = 0]
  /\ calls' = <<<<"client", c>>>> \o Tail(calls)
  /\ UNCHANGED <<epollVars, state_, outputBuffer_, pendingFunctors_, sends, accepted,
                 written, closed, seen>>

(* The read fails: handleError only, the connection is left as it is.        *)
handleReadError(c) ==
  /\ Called("handleRead", c)
  /\ sock[c].inq = 0
  /\ sock[c].err \/ ~(sock[c].fin \/ sock[c].rst)
  /\ sock' = [sock EXCEPT ![c].err = FALSE]
  /\ Return
  /\ UNCHANGED <<epollVars, state_, outputBuffer_, pendingFunctors_, sends, accepted,
                 written, closed, seen>>

(* The end of the stream: handleClose, whose closeCallback_ is the server's  *)
(* removeConnection (it asserts ok).                                         *)
AtEof(c) == Called("handleRead", c) /\ sock[c].inq = 0 /\ ~sock[c].err
              /\ (sock[c].fin \/ sock[c].rst)

(* handleClose leaves state_ as it is.                                       *)
handleClose(c, ok) ==
  /\ disableAll(c, ok /\ state_[c] \in {"kConnected", "kDisconnecting"})
  /\ closed' = [closed EXCEPT ![c] = TRUE]
  /\ queueInLoop(<<"connectDestoryed", c, 0>>)
  /\ Return
  /\ UNCHANGED <<state_, outputBuffer_, sock, sends, accepted, written, seen>>

(* Fault: a shutdown that came while output was pending is forgotten.        *)
handleWrite_NoShutdown(c) ==
  LET n == Writes(sock[c], Len(outputBuffer_[c]))
  IN  /\ Called("handleWrite", c)
      /\ Return
      /\ IF isWriting(c) /\ n > 0
         THEN /\ written' = [written EXCEPT ![c] = @ \o SubSeq(outputBuffer_[c], 1, n)]
              /\ outputBuffer_' = [outputBuffer_ EXCEPT ![c] = SubSeq(@, n + 1, Len(@))]
              /\ sock' = [sock EXCEPT ![c].room = @ - n]
              /\ IF n = Len(outputBuffer_[c])
                 THEN disableWriting(c) /\ queueInLoop(<<"writeComplete", c, 0>>)
                 ELSE UNCHANGED <<epollVars, pendingFunctors_>>
         ELSE UNCHANGED <<epollVars, outputBuffer_, sock, pendingFunctors_, written>>
      /\ UNCHANGED <<state_, sends, accepted, closed, seen>>

(* When the buffer is empty: no more write events, and the shutdown that     *)
(* waited for it.  A failed write only logs.                                 *)
handleWrite(c) ==
  LET n    == Writes(sock[c], Len(outputBuffer_[c]))
      last == n = Len(outputBuffer_[c])
  IN  /\ Called("handleWrite", c)
      /\ Return
      /\ IF isWriting(c) /\ n > 0
         THEN /\ written' = [written EXCEPT ![c] = @ \o SubSeq(outputBuffer_[c], 1, n)]
              /\ outputBuffer_' = [outputBuffer_ EXCEPT ![c] = SubSeq(@, n + 1, Len(@))]
              /\ sock' = [sock EXCEPT ![c].room = @ - n,
                                      ![c].shutWr = @ \/ (last /\ state_[c] = "kDisconnecting")]
              /\ IF last
                 THEN disableWriting(c) /\ queueInLoop(<<"writeComplete", c, 0>>)
                 ELSE UNCHANGED <<epollVars, pendingFunctors_>>
         ELSE UNCHANGED <<epollVars, outputBuffer_, sock, pendingFunctors_, written>>
      /\ UNCHANGED <<state_, sends, accepted, closed, seen>>

(* connectDestoryed up to its callback; removeChannel comes after it.        *)
connectDestoryed(c) ==
  /\ disableAll(c, state_[c] \in {"kConnected", "kDisconnecting"})
  /\ setState(c, "kDisConnected")
  /\ ConnectionCallback(c, "down")
  /\ calls' = <<<<"client", c>>, <<"removeChannel", c>>>>
  /\ UNCHANGED <<outputBuffer_, sock, pendingFunctors_, sends, accepted, written, closed>>

removeChannel(c) ==
  /\ Called("removeChannel", c)
  /\ epollDel(c)
  /\ Return
  /\ UNCHANGED <<state_, outputBuffer_, sock, pendingFunctors_, sends, accepted,
                 written, closed, seen>>
=============================================================================
