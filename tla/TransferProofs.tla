--------------------------- MODULE TransferProofs ---------------------------
(***************************************************************************)
(* send_until_success and recv_until_success move a message whole, for     *)
(* every size of message and connection, on blocking and non-blocking      *)
(* sockets.                                                                *)
(***************************************************************************)
EXTENDS Transfer, SequenceTheorems, TLAPS

USE DEF Unsent, Offset, EndOfStream

(* Whatever has been read so far is the beginning of the message, and the  *)
(* rest of the buffer has not been touched.                                *)
PrefixRead ==
  \A i \in Places : buffer[i] = IF i <= bytes_read THEN i ELSE 0

(* The bytes on their way are those sent and not yet read, in order, and a *)
(* receiver in its loop has something left to read.                        *)
InTransit ==
  /\ bytes_read <= bytes_sent
  /\ Len(stream) = bytes_sent - bytes_read
  /\ \A i \in 1..Len(stream) : stream[i] = bytes_read + i
ReceiverCounts ==
  /\ receiver = "success" => bytes_read = len
  /\ Receiving => bytes_read < len

(* A receiver fails for one of two reasons, and a sender that has closed   *)
(* sends no more.                                                          *)
FailsForAReason ==
  /\ receiver = "error" => closed \/ pressed["receiver"]
  /\ closed => sender # "looping"
TransferInv ==
  /\ TypeOK
  /\ InTransit
  /\ ReceiverCounts
  /\ FailsForAReason
  /\ PrefixRead
  /\ WholeMessage
  /\ SentIsReceived

-----------------------------------------------------------------------------
(* Nothing has been sent or read at first.                                 *)
LEMMA InitTransfer == Init => TransferInv
  <1> SUFFICES ASSUME Init PROVE TransferInv
    OBVIOUS
  <1> USE SizeAssumption DEF Init
  <1>1. stream \in Seq(Places) /\ Len(stream) = 0
    OBVIOUS
  <1>2. TypeOK
    <2>1. bytes_sent \in 0..len /\ bytes_read \in 0..len /\ Len(stream) <= Capacity
      BY <1>1
    <2>2. buffer \in [Places -> 0..len]
      OBVIOUS
    <2>3. closed \in BOOLEAN /\ pressed \in [Ends -> BOOLEAN]
      OBVIOUS
    <2> QED BY <1>1, <2>1, <2>2, <2>3 DEF TypeOK
  <1>3. InTransit /\ ReceiverCounts
    BY <1>1 DEF InTransit, ReceiverCounts, Receiving
  <1>4. PrefixRead
    BY DEF PrefixRead, Places
  <1>5. WholeMessage /\ SentIsReceived /\ FailsForAReason
    BY DEF WholeMessage, SentIsReceived, FailsForAReason
  <1> QED BY <1>2, <1>3, <1>4, <1>5 DEF TransferInv

(* send appends the next n bytes of the message.                           *)
LEMMA StreamGrows ==
  ASSUME TypeOK, InTransit, NEW n \in Places, Send(n)
  PROVE  /\ bytes_sent' \in 0..len /\ bytes_read' = bytes_read
         /\ stream' \in Seq(Places) /\ Len(stream') <= Capacity
         /\ InTransit'
  <1> DEFINE chunk == [i \in 1..n |-> bytes_sent + i]
  <1>1. n \in Nat /\ len \in Nat /\ Capacity \in Nat
    BY SizeAssumption DEF Places
  <1>2. n <= len - bytes_sent /\ n <= Capacity - Len(stream)
    BY DEF Send
  <1>3. bytes_sent \in Nat /\ bytes_read \in Nat /\ stream \in Seq(Places)
    BY <1>1 DEF TypeOK
  <1>4. chunk \in Seq(Places) /\ Len(chunk) = n
    BY <1>1, <1>2, <1>3 DEF Places
  <1>5. stream' = stream \o chunk
    BY DEF Send
  <1>6. stream' \in Seq(Places) /\ Len(stream') = Len(stream) + n
    BY <1>3, <1>4, <1>5, <1>1
  <1>7. \A i \in 1..Len(stream') :
          stream'[i] = IF i <= Len(stream) THEN stream[i] ELSE chunk[i - Len(stream)]
    BY <1>3, <1>4, <1>5, <1>1
  <1>8. bytes_sent' = bytes_sent + n /\ bytes_read' = bytes_read
    BY DEF Send, recvVars
  <1>9. \A i \in 1..Len(stream') : stream'[i] = bytes_read + i
    <2> SUFFICES ASSUME NEW i \in 1..Len(stream') PROVE stream'[i] = bytes_read + i
      OBVIOUS
    <2>1. CASE i <= Len(stream)
      <3>1. i \in 1..Len(stream)
        BY <2>1, <1>3
      <3> QED BY <3>1, <2>1, <1>7 DEF InTransit
    <2>2. CASE ~(i <= Len(stream))
      <3>1. i - Len(stream) \in 1..n
        BY <2>2, <1>6, <1>3, <1>1
      <3>2. stream'[i] = bytes_sent + (i - Len(stream))
        BY <3>1, <2>2, <1>7
      <3> QED BY <3>2, <1>3 DEF InTransit
    <2> QED BY <2>1, <2>2
  <1> QED
    BY <1>1, <1>2, <1>3, <1>6, <1>8, <1>9 DEF InTransit, TypeOK

(* recv moves the first n bytes of the stream to their places.             *)
LEMMA StreamShrinks ==
  ASSUME TypeOK, InTransit, PrefixRead, NEW n \in Places, Recv(n)
  PROVE  /\ bytes_read' \in 0..len /\ bytes_sent' = bytes_sent
         /\ stream' \in Seq(Places) /\ Len(stream') <= Capacity
         /\ buffer' \in [Places -> 0..len]
         /\ InTransit' /\ PrefixRead'
  <1>1. n \in Nat /\ n > 0 /\ len \in Nat /\ Capacity \in Nat
    BY SizeAssumption DEF Places
  <1>2. n <= Len(stream) /\ n <= len - bytes_read
    BY DEF Recv
  <1>3. bytes_sent \in Nat /\ bytes_read \in Nat /\ stream \in Seq(Places)
        /\ Len(stream) \in Nat
    BY <1>1 DEF TypeOK
  <1>4. /\ bytes_read' = bytes_read + n
        /\ stream' = SubSeq(stream, n + 1, Len(stream))
        /\ bytes_sent' = bytes_sent
    BY DEF Recv, sendVars
  <1>5. /\ stream' \in Seq(Places)
        /\ Len(stream') = Len(stream) - n
        /\ \A i \in 1..Len(stream') : stream'[i] = stream[n + i]
    BY <1>1, <1>2, <1>3, <1>4
  <1>6. InTransit'
    BY <1>1, <1>2, <1>3, <1>4, <1>5 DEF InTransit
  <1>7. \A i \in Places :
          buffer'[i] = IF i \in bytes_read + 1 .. bytes_read + n
                         THEN stream[i - bytes_read] ELSE buffer[i]
    BY DEF Recv
  <1>8. PrefixRead'
    <2> SUFFICES ASSUME NEW i \in Places
                 PROVE  buffer'[i] = IF i <= bytes_read' THEN i ELSE 0
      BY DEF PrefixRead, Places
    <2>1. CASE i \in bytes_read + 1 .. bytes_read + n
      <3>1. i - bytes_read \in 1..Len(stream)
        BY <2>1, <1>1, <1>2, <1>3
      <3>2. stream[i - bytes_read] = i
        BY <3>1, <2>1, <1>1, <1>3 DEF InTransit
      <3> QED BY <3>2, <2>1, <1>1, <1>3, <1>4, <1>7
    <2>2. CASE i \notin bytes_read + 1 .. bytes_read + n
      BY <2>2, <1>1, <1>3, <1>4, <1>7 DEF PrefixRead, Places
    <2> QED BY <2>1, <2>2
  <1>9. buffer' \in [Places -> 0..len]
    <2>1. \A i \in Places : buffer'[i] \in 0..len
      BY <1>8, <1>1, <1>3, <1>4 DEF PrefixRead, Places
    <2>2. buffer' = [i \in Places |->
            IF i \in bytes_read + 1 .. bytes_read + n THEN stream[i - bytes_read]
            ELSE buffer[i]]
      BY DEF Recv
    <2> QED BY <2>1, <2>2
  <1> QED
    BY <1>1, <1>2, <1>3, <1>4, <1>5, <1>6, <1>8, <1>9 DEF TypeOK

-----------------------------------------------------------------------------
(* Every step of the sender, the receiver and the network between them     *)
(* keeps the invariant.                                                    *)
LEMMA StepTransfer == TransferInv /\ [Next]_vars => TransferInv'
  <1> SUFFICES ASSUME TransferInv, [Next]_vars PROVE TransferInv'
    OBVIOUS
  <1>0. socket' = socket
    BY DEF Next, vars
  <1> USE SizeAssumption
  <1>1. ASSUME NEW n \in Places, Send(n) PROVE TransferInv'
    <2>1. TypeOK'
      BY <1>0, <1>1, StreamGrows DEF TransferInv, TypeOK, Send, recvVars, Returned
    <2>2. InTransit'
      BY <1>1, StreamGrows DEF TransferInv
    <2>3. ReceiverCounts' /\ PrefixRead'
      BY <1>0, <1>1 DEF TransferInv, Send, recvVars, ReceiverCounts, PrefixRead, Receiving,
                  Places
    <2>4. WholeMessage'
      BY <1>0, <1>1 DEF TransferInv, Send, recvVars, WholeMessage, Places
    <2>5. SentIsReceived' /\ FailsForAReason'
      BY <1>1 DEF TransferInv, Send, recvVars, SentIsReceived, FailsForAReason
    <2> QED BY <2>1, <2>2, <2>3, <2>4, <2>5 DEF TransferInv
  <1>2. CASE SendReturns
    BY <1>0, <1>2 DEF TransferInv, SendReturns, recvVars, TypeOK, InTransit, ReceiverCounts,
                PrefixRead, WholeMessage, SentIsReceived, FailsForAReason,
                Places, Receiving, Returned, Ends
  <1>3. CASE Close
    BY <1>0, <1>3 DEF TransferInv, Close, recvVars, TypeOK, InTransit, ReceiverCounts,
                PrefixRead, WholeMessage, SentIsReceived, FailsForAReason,
                Places, Receiving, Returned, Ends
  <1>4. CASE RecvTests
    BY <1>0, <1>4 DEF TransferInv, RecvTests, sendVars, TypeOK, InTransit,
                ReceiverCounts, PrefixRead, WholeMessage, SentIsReceived,
                FailsForAReason, Places, Receiving, Returned, Ends
  <1>5. CASE RecvFindsNothing
    (* Everything that was sent has been read, and that is not all there is. *)
    <2>1. Len(stream) = 0
      BY <1>5 DEF RecvFindsNothing
    <2>2. bytes_sent < len
      BY <1>5, <2>1 DEF RecvFindsNothing, TransferInv, InTransit, ReceiverCounts,
                        Receiving, TypeOK
    <2>3. SentIsReceived' /\ FailsForAReason'
      BY <1>5, <2>2 DEF RecvFindsNothing, TransferInv, WholeMessage, SentIsReceived,
                        FailsForAReason, sendVars
    <2> QED
      BY <1>0, <1>5, <2>3 DEF TransferInv, RecvFindsNothing, sendVars, TypeOK, InTransit,
                  ReceiverCounts, PrefixRead, WholeMessage, Places, Receiving,
                  Returned, Ends
  <1>6. ASSUME NEW n \in Places, Recv(n) PROVE TransferInv'
    <2>1. /\ bytes_read' \in 0..len /\ bytes_sent' = bytes_sent
          /\ stream' \in Seq(Places) /\ Len(stream') <= Capacity
          /\ buffer' \in [Places -> 0..len]
          /\ InTransit' /\ PrefixRead'
      BY <1>6, StreamShrinks DEF TransferInv
    <2>2. TypeOK'
      BY <1>0, <1>6, <2>1 DEF TransferInv, TypeOK, Recv, sendVars, Returned
    <2>3. ReceiverCounts'
      BY <1>6, <2>1 DEF ReceiverCounts, Recv, Receiving
    <2>4. WholeMessage'
      <3>1. ASSUME receiver' = "success" PROVE buffer' = [i \in Places |-> i]
        <4>1. \A i \in Places : buffer'[i] = i
          BY <2>1, <2>3, <3>1 DEF PrefixRead, ReceiverCounts, Places
        <4> QED BY <4>1, <2>1
      <3>2. sender' = "success" => bytes_sent' = len
        BY <1>0, <1>6 DEF TransferInv, WholeMessage, Recv, sendVars
      <3> QED BY <3>1, <3>2 DEF WholeMessage, Places
    <2>5. SentIsReceived' /\ FailsForAReason'
      BY <1>6 DEF TransferInv, SentIsReceived, FailsForAReason, Recv, sendVars
    <2> QED BY <2>1, <2>2, <2>3, <2>4, <2>5 DEF TransferInv
  <1>7. ASSUME NEW e \in Ends, Press(e) PROVE TransferInv'
    BY <1>0, <1>7 DEF TransferInv, Press, sendVars, TypeOK, InTransit, ReceiverCounts,
                PrefixRead, WholeMessage, SentIsReceived, FailsForAReason,
                Places, Receiving, Returned, Ends, Waits
  <1>8. CASE UNCHANGED vars
    BY <1>0, <1>8 DEF TransferInv, vars, sendVars, recvVars, TypeOK, InTransit,
                ReceiverCounts, PrefixRead, WholeMessage, SentIsReceived,
                FailsForAReason, Places, Receiving, Returned, Ends
  <1> QED
    BY <1>1, <1>2, <1>3, <1>4, <1>5, <1>6, <1>7, <1>8
       DEF Next, Step, SendStep, RecvStep

(* The invariant behind the theorems below: what is in the buffer, on its  *)
(* way and still to be sent are, in this order, the message.               *)
THEOREM TransferInvariant == Spec => []TransferInv
  BY InitTransfer, StepTransfer, PTL DEF Spec

(* Every variable of the two loops keeps its type, for messages and        *)
(* connections of any size: neither loop runs past its buffer.             *)
THEOREM TransferTypes == Spec => []TypeOK
  <1>1. TransferInv => TypeOK
    BY DEF TransferInv
  <1> QED BY <1>1, TransferInvariant, PTL

(* When recv_until_success returns 0 its buffer holds the message, however *)
(* send and recv have cut it up.                                           *)
THEOREM MessageArrivesWhole == Spec => []WholeMessage
  <1>1. TransferInv => WholeMessage
    BY DEF TransferInv
  <1> QED BY <1>1, TransferInvariant, PTL

(* Without Ctrl-C at the receiver, recv_until_success never fails on a     *)
(* message that was sent whole, close or no close.                         *)
THEOREM NoSentMessageLost == Spec => []SentIsReceived
  <1>1. TransferInv => SentIsReceived
    BY DEF TransferInv
  <1> QED BY <1>1, TransferInvariant, PTL
=============================================================================
