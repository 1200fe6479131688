------------------------------ MODULE Transfer ------------------------------
(***************************************************************************)
(* send_until_success and recv_until_success of Lab3/util.h, at the two    *)
(* ends of one connection, while one message goes through it.  send and    *)
(* recv move as many bytes as they like; the loops around them make a      *)
(* message arrive whole or make the receiver fail.  ChatService relies on  *)
(* this and moves its messages in one step.                                *)
(*                                                                         *)
(* A byte is represented by its place in the message, so that a byte in    *)
(* the wrong place of the buffer can be told.                              *)
(***************************************************************************)
EXTENDS Integers, Sequences

CONSTANTS len,        (* the size of the message                           *)
          Capacity,   (* how many bytes the connection holds               *)
          Sockets     (* what the receiver may read from: a blocking       *)
                      (* socket or not, and a recv that resumes after a    *)
                      (* signal or not.  chat.c does not block; accepted   *)
                      (* sockets do on Linux, with recv resuming in        *)
                      (* discovery.c (signal) and not in log.c (sigaction  *)
                      (* without SA_RESTART).                              *)

ASSUME SizeAssumption == len \in Nat \ {0} /\ Capacity \in Nat \ {0}
ASSUME SocketsAssumption == Sockets \subseteq [blocking : BOOLEAN, restart : BOOLEAN]

VARIABLES
  socket,       (* the socket of the receiver                              *)
  bytes_sent,   (* of send_until_success                                   *)
  stream,       (* the bytes on their way                                  *)
  bytes_read,   (* of recv_until_success                                   *)
  buffer,       (* what has been received; 0 where nothing has             *)
  sender,       (* "looping", or the status send_until_success returned    *)
  closed,       (* has the sender closed the connection?                   *)
  receiver,     (* "test" or "recv" in the loop, or the status returned    *)
  pressed       (* per end, the variable ctrl_c_pressed                    *)

sendVars == <<bytes_sent, sender>>
recvVars == <<bytes_read, buffer, receiver>>
vars == <<socket, sendVars, recvVars, stream, closed, pressed>>

Places == 1..len
Returned == {"success", "stopped", "error"}    (* 0, 1, -1                 *)
Ends == {"sender", "receiver"}

TypeOK ==
  /\ socket \in Sockets
  /\ bytes_sent \in 0..len /\ bytes_read \in 0..len
  /\ stream \in Seq(Places) /\ Len(stream) <= Capacity
  /\ buffer \in [Places -> 0..len]
  /\ sender \in {"looping"} \union Returned
  /\ receiver \in {"test", "recv"} \union Returned
  /\ closed \in BOOLEAN
  /\ pressed \in [Ends -> BOOLEAN]

Init ==
  /\ socket \in Sockets
  /\ bytes_sent = 0 /\ bytes_read = 0
  /\ stream = <<>>
  /\ buffer = [i \in Places |-> 0]
  /\ sender = "looping" /\ receiver = "test"
  /\ closed = FALSE
  /\ pressed = [e \in Ends |-> FALSE]

-----------------------------------------------------------------------------
(* send_until_success                                                      *)

Receiving == receiver \in {"test", "recv"}

(* len - bytes_sent.  Mutant: len.                                         *)
Everything == len
Unsent == len - bytes_sent

(* send takes n bytes.  While it finds no room it is tried again.  What is *)
(* sent to a peer that has closed may be taken, too, and is never read.    *)
Send(n) ==
  /\ sender = "looping" /\ ~pressed["sender"]
  /\ n <= Unsent /\ n <= Capacity - Len(stream)
  /\ stream' = stream \o [i \in 1..n |-> bytes_sent + i]
  /\ bytes_sent' = bytes_sent + n
  /\ sender' = IF bytes_sent' = len THEN "success" ELSE "looping"
  /\ UNCHANGED <<recvVars, closed, pressed>>

(* Ctrl-C was pressed, or the peer has closed the connection: send fails,  *)
(* or SIGPIPE ends the process, which is a Close.                          *)
SendReturns ==
  /\ sender = "looping"
  /\ \/ pressed["sender"] /\ sender' = "stopped"
     \/ ~pressed["sender"] /\ ~Receiving /\ sender' = "error"
  /\ UNCHANGED <<bytes_sent, recvVars, stream, closed, pressed>>

(* close, after the message or instead of the rest of it, by a process     *)
(* that is killed.  What is on its way still arrives.                      *)
Close ==
  /\ ~closed /\ closed' = TRUE
  /\ sender' = IF sender = "looping" THEN "error" ELSE sender
  /\ UNCHANGED <<bytes_sent, recvVars, stream, pressed>>

-----------------------------------------------------------------------------
(* recv_until_success                                                      *)

RecvTests ==
  /\ receiver = "test"
  /\ receiver' = IF pressed["receiver"] THEN "stopped" ELSE "recv"
  /\ UNCHANGED <<sendVars, bytes_read, buffer, stream, closed, pressed>>

(* buffer + bytes_read.  Mutant: buffer.                                   *)
NoOffset == 0
Offset == bytes_read

(* recv yields n bytes, which go after those read before.                  *)
Recv(n) ==
  /\ receiver = "recv"
  /\ n <= Len(stream) /\ n <= len - bytes_read
  /\ buffer' = [i \in Places |->
       IF i \in Offset + 1 .. Offset + n THEN stream[i - Offset]
       ELSE buffer[i]]
  /\ stream' = SubSeq(stream, n + 1, Len(stream))
  /\ bytes_read' = bytes_read + n
  /\ receiver' = IF bytes_read' = len THEN "success" ELSE "test"
  /\ UNCHANGED <<sendVars, closed, pressed>>

(* recv returns 0.  Mutants: before the bytes that preceded the close; it  *)
(* is never noticed.                                                       *)
ClosedAnyhow == closed
NeverEnds == FALSE
EndOfStream == stream = <<>> /\ closed

(* There is nothing to read: the peer has closed the connection, or the    *)
(* call fails with EAGAIN and is tried again.                              *)
RecvFindsNothing ==
  /\ receiver = "recv"
  /\ \/ EndOfStream /\ receiver' = "error"
     \/ stream = <<>> /\ ~closed /\ ~socket.blocking /\ receiver' = "test"
  /\ UNCHANGED <<sendVars, bytes_read, buffer, stream, closed, pressed>>

-----------------------------------------------------------------------------
(* Ctrl-C.  A recv that waits for bytes resumes, or fails with EINTR.  The *)
(* signal may also come after the test of the loop and before the call,    *)
(* which then waits all the same.                                          *)

Waits == receiver = "recv" /\ socket.blocking /\ stream = <<>> /\ ~closed
Press(e) ==
  /\ ~pressed[e] /\ pressed' = [pressed EXCEPT ![e] = TRUE]
  /\ \/ receiver' = receiver
     \/ e = "receiver" /\ Waits /\ ~socket.restart /\ receiver' = "error"
  /\ UNCHANGED <<sendVars, bytes_read, buffer, stream, closed>>

SendStep == SendReturns \/ \E n \in Places : Send(n)
RecvStep == RecvTests \/ RecvFindsNothing \/ \E n \in Places : Recv(n)

Step ==
  \/ SendStep
  \/ Close
  \/ RecvStep
  \/ \E e \in Ends : Press(e)
Next == Step /\ UNCHANGED socket

Spec == Init /\ [][Next]_vars

(* Both ends go on when they can, and a sender that is done closes.        *)
FairSpec ==
  /\ Spec
  /\ WF_vars(SendStep /\ UNCHANGED socket)
  /\ WF_vars(RecvStep /\ UNCHANGED socket)
  /\ WF_vars(sender # "looping" /\ Close /\ UNCHANGED socket)

-----------------------------------------------------------------------------
(* Properties                                                              *)

(* recv_until_success returns 0 with the message in its buffer, every byte *)
(* in its place, and send_until_success returns 0 when it has sent it all, *)
(* however the bytes were cut up on the way.                               *)
WholeMessage ==
  /\ receiver = "success" => buffer = [i \in Places |-> i]
  /\ sender = "success" => bytes_sent = len

(* A message that was sent whole is not lost because its sender closed the *)
(* connection at once: recv_until_success fails only without it, or after  *)
(* Ctrl-C.                                                                 *)
SentIsReceived ==
  receiver = "error" => sender # "success" \/ pressed["receiver"]

(* Once the sender has done what it could, the receiver is not left in its *)
(* loop.                                                                   *)
ReceiverReturns == (sender # "looping") ~> (receiver \in Returned)
=============================================================================
