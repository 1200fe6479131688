------------------------- MODULE ChatServiceProofs --------------------------
(***************************************************************************)
(* Proofs about ChatService.tla, for any finite set of logs, any set of    *)
(* chats, any number of slots and any circumstances: that the table        *)
(* follows its users, that who is listed listens, that servers stay up,    *)
(* that Ctrl-C deregisters a log, and that the whole implements            *)
(* Messenger.tla.  The argument: CoreInv says in which one place every     *)
(* connection is, and that this agrees with how far its client and its     *)
(* server are; a registration is then known to be handled once, and before *)
(* the deregistration of the same log.  What the programs remember of      *)
(* connections that are over (the table, its copies, what was printed,     *)
(* who has exited) is shown to be right from that.                         *)
(***************************************************************************)
EXTENDS ChatService, FiniteSetTheorems, SequenceTheorems, NaturalsInduction,
        WellFoundedInduction, TLAPS

(* The server a connection is made to.                                     *)
ServerOf(c) == IF c[2] = "chat" THEN chosen[c[1]] ELSE Discovery

(* A connection a server knows of, or has known of.                        *)
Made(c) == c \in gone \/ \E s \in Servers : c \in Pending(s)

(* Every connection is in one place: once in the backlog of its server,    *)
(* served, or closed by the server.                                        *)
Elements(q) == {q[i] : i \in 1..Len(q)}
PlaceInv ==
  \A s \in Servers :
    /\ \A c \in Pending(s) : c \notin gone /\ ServerOf(c) = s
    /\ serving[s] \notin Elements(backlog[s])
    /\ \A i, m \in 1..Len(backlog[s]) : backlog[s][i] = backlog[s][m] => i = m

(* How far a client is tells what has become of its connections.           *)
LogClient(l) ==
  /\ lpc[l] \in {<<"boot", "listen">>, <<"register", "dial">>} => ~Made(<<l, "register">>)
  /\ lpc[l] \in {<<"register", "dialing">>, <<"register", "send">>} => Made(<<l, "register">>)
  /\ lpc[l][1] \in {"boot", "register"} => <<l, "register">> \notin sent \union closed
  /\ lpc[l][1] \in {"boot", "register", "serve"} => ~Made(<<l, "deregister">>)
  /\ lpc[l] = <<"deregister", "dial">> => ~Made(<<l, "deregister">>)
  /\ lpc[l] \in {<<"deregister", "dialing">>, <<"deregister", "send">>}
       => Made(<<l, "deregister">>)
  /\ lpc[l][1] # "exited" => <<l, "deregister">> \notin sent \union closed
ChatClient(c) ==
  /\ cpc[c] = "dial" => ~Made(<<c, "request">>)
  /\ cpc[c] = "dialing" => Made(<<c, "request">>)
  /\ cpc[c] \in {"dial", "dialing"} => <<c, "request">> \notin sent \union closed
  /\ cpc[c] \in {"dial", "dialing", "await", "choose"} => ~Made(<<c, "chat">>) /\ chosen[c] = NoLog
  /\ cpc[c] = "typing" => Made(<<c, "chat">>)
  /\ cpc[c] # "done" => <<c, "chat">> \notin sent \union closed
ClientInv ==
  /\ \A l \in Logs : LogClient(l)
  /\ \A c \in Chats : ChatClient(c)
  /\ \A c \in sent : Made(c)

(* How far a server is tells whether it serves a connection.               *)
ServeInv ==
  /\ dpc \in {"test", "recv", "handle"} => serving[Discovery] # NoConnection
  /\ dpc \in {"accept", "exited"} => serving[Discovery] = NoConnection
  /\ dpc = "exited" => backlog[Discovery] = <<>>
  /\ dpc = "handle" => serving[Discovery] \in sent
  /\ \A l \in Logs :
       /\ lpc[l] \in {<<"serve", "test">>, <<"serve", "recv">>} => serving[l] # NoConnection
       /\ lpc[l] = <<"serve", "accept">> => serving[l] = NoConnection
       /\ lpc[l][1] \in {"boot", "register"} => serving[l] = NoConnection

(* The registration of a log is carried out before its deregistration: in  *)
(* the backlog it is in front.                                             *)
OrderInv ==
  \A l \in Logs :
    /\ <<l, "deregister">> \in gone => <<l, "register">> \notin Pending(Discovery)
    /\ serving[Discovery] = <<l, "deregister">> => <<l, "register">> \notin Pending(Discovery)
    /\ \A i, m \in 1..Len(backlog[Discovery]) :
         backlog[Discovery][i] = <<l, "register">> /\ backlog[Discovery][m] = <<l, "deregister">>
           => i < m

(* What was carried out was sent, and is over.                             *)
HandledInv == handled \subseteq sent \intersect gone

(* What the table and its copies list was registered.                      *)
TableInv ==
  /\ \A s \in Slots : chatters[s] # NoLog => <<chatters[s], "register">> \in handled
  /\ \A s, t \in Slots : chatters[s] = chatters[t] /\ chatters[s] # NoLog => s = t
CopyInv ==
  /\ \A c \in Chats :
       /\ reply[c].sent => <<c, "request">> \in gone
       /\ \A s \in Slots : reply[c].table[s] # NoLog => <<reply[c].table[s], "register">> \in sent
       /\ list[c] # NoTable => reply[c].sent /\ list[c] = reply[c].table
       /\ chosen[c] # NoLog => reply[c].sent /\ chosen[c] \in Listed(reply[c].table)
  /\ \A i \in 1..Len(printed) : <<printed[i][2], "chat">> \in gone

(* The discovery server closes a connection unheard only when it goes down.*)
GoneInv ==
  \A c \in gone : c[2] # "chat" => c \in sent \/ dpc = "exited" \/ restarts > 0

(* What pressing Ctrl-C leaves behind.                                     *)
SignalInv ==
  /\ \A s \in Servers : ctrl_c[s] => s \in stopped
  /\ \A l \in Logs : lpc[l][1] = "deregister" => l \in stopped
  /\ signals = 0 => stopped = {}
  /\ \A l \in Logs : signals <= 1 /\ lpc[l][1] = "deregister" => ~ctrl_c[l]

(* A log that has exited without deregistering, when it should have, had   *)
(* no discovery server to do so any more: its registration is forgotten.   *)
Forgotten(l) ==
  \/ <<l, "register">> \notin sent
  \/ <<l, "register">> \in gone /\ <<l, "register">> \notin handled
ForgottenInv ==
  \A l \in Logs :
    ~world.blocking /\ signals <= 1 /\ (\A c \in Chats : <<c, "chat">> \notin closed \ sent) =>
      /\ At(l, "exited", "exited") /\ <<l, "deregister">> \notin sent
           => dpc = "exited" \/ Forgotten(l)
      /\ <<l, "deregister">> \in gone \ sent => dpc = "exited" \/ Forgotten(l)

(* The types, sorted by whose variables they are.                          *)
NetTypeOK ==
  /\ backlog \in [Servers -> Seq(Connections)]
  /\ serving \in [Servers -> Connections \union {NoConnection}]
  /\ gone \subseteq Connections
StreamTypeOK == sent \subseteq Connections /\ closed \subseteq Connections
DiscoveryTypeOK ==
  /\ chatters \in Tables
  /\ dpc \in {"accept", "test", "recv", "handle", "exited"}
  /\ handled \subseteq Connections
  /\ reply \in [Chats -> [sent : BOOLEAN, table : Tables]]
LogTypeOK == lpc \in [Logs -> Calls] /\ printed \in Seq(Logs \X Chats)
ChatTypeOK ==
  /\ cpc \in [Chats -> {"dial", "dialing", "await", "choose", "typing", "done"}]
  /\ list \in [Chats -> Tables] /\ chosen \in [Chats -> Logs \union {NoLog}]
FaultTypeOK ==
  /\ world \in Worlds
  /\ ctrl_c \in [Servers -> BOOLEAN]
  /\ stopped \subseteq Servers
  /\ signals \in 0..world.signals /\ restarts \in 0..world.restarts

NetInv == NetTypeOK /\ PlaceInv /\ OrderInv
CoreInv ==
  /\ StreamTypeOK /\ DiscoveryTypeOK /\ LogTypeOK /\ ChatTypeOK /\ FaultTypeOK
  /\ NetInv /\ ClientInv /\ ServeInv
ChatInv ==
  /\ CoreInv /\ HandledInv /\ TableInv /\ CopyInv /\ GoneInv /\ SignalInv
  /\ ForgottenInv /\ ServersStayUp /\ TableFollowsUsers
-----------------------------------------------------------------------------
(* Connections                                                             *)

(* What the kinds of connections tell.                                     *)
LEMMA Kinds ==
  /\ \A l \in Logs : <<l, "register">> \in Connections /\ <<l, "deregister">> \in Connections
  /\ \A c \in Chats : <<c, "request">> \in Connections /\ <<c, "chat">> \in Connections
  /\ \A c \in Connections :
       /\ c = <<c[1], c[2]>>
       /\ c[2] \in {"register", "deregister", "request", "chat"}
       /\ c[2] \in {"register", "deregister"} => c[1] \in Logs
       /\ c[2] \in {"request", "chat"} => c[1] \in Chats
       /\ c # NoConnection
  /\ Discovery \in Servers /\ Logs \subseteq Servers /\ Discovery \notin Logs
  /\ NoLog \notin Logs
  BY ProcessAssumption DEF Connections, NoConnection, Servers, NoLog

(* A sequence with an element appended.                                    *)
LEMMA Added ==
  ASSUME NEW S, NEW q \in Seq(S), NEW c \in S
  PROVE  /\ Append(q, c) \in Seq(S) /\ Len(Append(q, c)) = Len(q) + 1 /\ Len(q) \in Nat
         /\ Append(q, c)[Len(q) + 1] = c
         /\ \A i \in 1..Len(q) : Append(q, c)[i] = q[i]
         /\ Elements(Append(q, c)) = Elements(q) \union {c}
<1>1. /\ Append(q, c) \in Seq(S) /\ Len(Append(q, c)) = Len(q) + 1 /\ Len(q) \in Nat
      /\ Append(q, c)[Len(q) + 1] = c
      /\ \A i \in 1..Len(q) : Append(q, c)[i] = q[i]
  BY AppendProperties
<1>2. 1..Len(q) + 1 = 1..Len(q) \union {Len(q) + 1}
  BY <1>1
<1>3. Elements(Append(q, c)) = Elements(q) \union {c}
  BY <1>1, <1>2 DEF Elements
<1>4. QED
  BY <1>1, <1>3

(* A sequence with its first element taken off.                            *)
LEMMA Taken ==
  ASSUME NEW S, NEW q \in Seq(S), q # <<>>
  PROVE  /\ Tail(q) \in Seq(S) /\ Len(Tail(q)) = Len(q) - 1 /\ Len(q) \in Nat \ {0}
         /\ Head(q) \in S /\ Head(q) = q[1]
         /\ \A i \in 1..Len(Tail(q)) : Tail(q)[i] = q[i + 1] /\ i + 1 \in 1..Len(q)
         /\ Elements(q) = Elements(Tail(q)) \union {Head(q)}
<1>1. /\ Tail(q) \in Seq(S) /\ Len(Tail(q)) = Len(q) - 1 /\ Len(q) \in Nat \ {0}
      /\ Head(q) \in S /\ Head(q) = q[1]
      /\ \A i \in 1..Len(Tail(q)) : Tail(q)[i] = q[i + 1]
  BY HeadTailProperties, EmptySeq
<1>2. \A i \in 1..Len(Tail(q)) : i + 1 \in 1..Len(q)
  BY <1>1
<1>3. Elements(q) = Elements(Tail(q)) \union {Head(q)}
  <2>1. ASSUME NEW i \in 1..Len(q), i # 1
        PROVE  i - 1 \in 1..Len(Tail(q)) /\ Tail(q)[i - 1] = q[i]
    <3>1. i - 1 \in 1..Len(Tail(q)) /\ (i - 1) + 1 = i
      BY <1>1, <2>1
    <3>2. Tail(q)[i - 1] = q[(i - 1) + 1]
      BY <1>1, <3>1
    <3>3. QED
      BY <3>1, <3>2
  <2>2. 1 \in 1..Len(q)
    BY <1>1
  <2>3. ASSUME NEW e \in Elements(q)
        PROVE  e \in Elements(Tail(q)) \union {Head(q)}
    <3>1. PICK i \in 1..Len(q) : e = q[i]
      BY DEF Elements
    <3>2. QED
      BY <1>1, <2>1, <3>1 DEF Elements
  <2>4. Head(q) \in Elements(q)
    BY <1>1, <2>2 DEF Elements
  <2>5. \A i \in 1..Len(Tail(q)) : Tail(q)[i] \in Elements(q)
    BY <1>1, <1>2 DEF Elements
  <2>6. Elements(Tail(q)) \subseteq Elements(q)
    BY <2>5 DEF Elements
  <2>7. QED
    BY <2>3, <2>4, <2>6
<1>4. QED
  BY <1>1, <1>2, <1>3

(* What a server has to do: its backlog, and the connection it serves.     *)
LEMMA PendingIs ==
  \A s \in Servers :
    Pending(s) = Elements(backlog[s]) \union
                   (IF serving[s] = NoConnection THEN {} ELSE {serving[s]})
  BY DEF Pending, Elements

(* What a server has to do are connections.                                *)
LEMMA PendingTypes ==
  ASSUME NetTypeOK, NEW s \in Servers
  PROVE  /\ Pending(s) \subseteq Connections /\ backlog[s] \in Seq(Connections)
         /\ Elements(backlog[s]) \subseteq Connections
         /\ serving[s] \in Connections \union {NoConnection}
<1>1. backlog[s] \in Seq(Connections) /\ serving[s] \in Connections \union {NoConnection}
  BY DEF NetTypeOK
<1>2. Elements(backlog[s]) \subseteq Connections
  BY <1>1 DEF Elements
<1>3. QED
  BY <1>1, <1>2, PendingIs

(* A step that touches no server's connections, and no server a connection *)
(* is made to, leaves them in order.                                       *)
LEMMA NetStays ==
  ASSUME NetInv, UNCHANGED serverNet,
         \A c \in Connections : Made(c) => ServerOf(c)' = ServerOf(c)
  PROVE  /\ NetInv' /\ gone' = gone
         /\ \A s \in Servers : Pending(s)' = Pending(s)
         /\ \A c \in Connections : Made(c)' <=> Made(c)
<1>1. UNCHANGED <<backlog, serving, gone>>
  BY DEF serverNet
<1>2. \A s \in Servers : Pending(s)' = Pending(s)
  BY <1>1 DEF Pending
<1>3. \A c \in Connections : Made(c)' <=> Made(c)
  BY <1>1, <1>2 DEF Made
<1>4. \A s \in Servers : Pending(s) \subseteq Connections
  BY PendingTypes DEF NetInv
<1>5. PlaceInv'
  BY <1>1, <1>2, <1>4 DEF NetInv, PlaceInv, Made
<1>6. OrderInv'
  BY <1>1, <1>2, Kinds DEF NetInv, OrderInv
<1>7. QED
  BY <1>1, <1>2, <1>3, <1>5, <1>6 DEF NetInv, NetTypeOK

(* A client connects: its connection is the last in the backlog.           *)
LEMMA NetDialed ==
  ASSUME NetInv, NEW c \in Connections, NEW s \in Servers, ~Made(c),
         Dial(c, s), UNCHANGED <<serving, gone>>, ServerOf(c)' = s,
         c[2] = "register" => ~Made(<<c[1], "deregister">>),
         \A d \in Connections : Made(d) => ServerOf(d)' = ServerOf(d)
  PROVE  /\ NetInv'
         /\ Pending(s)' = Pending(s) \union {c}
         /\ \A t \in Servers : t # s => Pending(t)' = Pending(t) /\ backlog'[t] = backlog[t]
         /\ \A d \in Connections : Made(d)' <=> (Made(d) \/ d = c)
<1> DEFINE q == backlog[s]
<1>1. /\ backlog \in [Servers -> Seq(Connections)] /\ q \in Seq(Connections)
      /\ serving \in [Servers -> Connections \union {NoConnection}]
      /\ c # NoConnection
  BY Kinds DEF NetInv, NetTypeOK
<1>2. /\ backlog'[s] = Append(q, c) /\ \A t \in Servers : t # s => backlog'[t] = backlog[t]
      /\ backlog' = [backlog EXCEPT ![s] = Append(q, c)]
  BY <1>1 DEF Dial
<1> HIDE DEF q
<1>3. /\ Append(q, c) \in Seq(Connections) /\ Len(Append(q, c)) = Len(q) + 1 /\ Len(q) \in Nat
      /\ Append(q, c)[Len(q) + 1] = c
      /\ \A i \in 1..Len(q) : Append(q, c)[i] = q[i]
      /\ Elements(Append(q, c)) = Elements(q) \union {c}
  BY <1>1, Added
<1>4. NetTypeOK'
  BY <1>1, <1>2, <1>3 DEF NetTypeOK, NetInv
<1>5. \A t \in Servers : Pending(t)' = Elements(backlog'[t]) \union
        (IF serving[t] = NoConnection THEN {} ELSE {serving[t]})
  BY DEF Pending, Elements
<1>6. Pending(s)' = Pending(s) \union {c}
  BY <1>2, <1>3, <1>5, PendingIs DEF q
<1>7. \A t \in Servers : t # s => Pending(t)' = Pending(t) /\ backlog'[t] = backlog[t]
  BY <1>2, <1>5, PendingIs
<1>8. \A d \in Connections : Made(d)' <=> (Made(d) \/ d = c)
  BY <1>6, <1>7 DEF Made
<1>9. c \notin gone /\ \A t \in Servers : c \notin Pending(t)
  BY DEF Made
<1>10. PlaceInv'
  <2> SUFFICES ASSUME NEW t \in Servers
               PROVE  /\ \A d \in Pending(t)' : d \notin gone /\ ServerOf(d)' = t
                      /\ serving[t] \notin Elements(backlog'[t])
                      /\ \A i, m \in 1..Len(backlog'[t]) :
                           backlog'[t][i] = backlog'[t][m] => i = m
    BY DEF PlaceInv
  <2>1. /\ \A d \in Pending(t) : d \notin gone /\ ServerOf(d) = t /\ d \in Connections
        /\ serving[t] \notin Elements(backlog[t])
        /\ \A i, m \in 1..Len(backlog[t]) : backlog[t][i] = backlog[t][m] => i = m
    BY PendingTypes DEF NetInv, PlaceInv
  <2>2. \A d \in Pending(t) : ServerOf(d)' = t
    BY <2>1 DEF Made
  <2>3. CASE t # s
    BY <1>7, <2>1, <2>2, <2>3
  <2>4. CASE t = s
    <3>1. \A d \in Pending(t)' : d \notin gone /\ ServerOf(d)' = t
      BY <1>6, <1>9, <2>1, <2>2, <2>4
    <3>2. serving[t] \notin Elements(backlog'[t])
      BY <1>1, <1>2, <1>3, <1>9, <2>1, <2>4, PendingIs DEF q
    <3>3. \A i \in 1..Len(q) : q[i] # c
      BY <1>9, PendingIs DEF Elements, q
    <3>4. ASSUME NEW i \in 1..Len(q) + 1, NEW m \in 1..Len(q) + 1,
                 Append(q, c)[i] = Append(q, c)[m]
          PROVE  i = m
      <4>1. i \in 1..Len(q) \/ i = Len(q) + 1
        BY <1>3
      <4>2. m \in 1..Len(q) \/ m = Len(q) + 1
        BY <1>3
      <4>3. \A x, y \in 1..Len(q) : q[x] = q[y] => x = y
        BY <2>1, <2>4 DEF q
      <4>4. QED
        BY <1>3, <3>3, <3>4, <4>1, <4>2, <4>3
    <3>5. QED
      BY <1>2, <1>3, <2>4, <3>1, <3>2, <3>4
  <2>5. QED
    BY <2>3, <2>4
<1>11. OrderInv'
  <2> DEFINE D == Discovery
  <2> SUFFICES ASSUME NEW l \in Logs
               PROVE  /\ <<l, "deregister">> \in gone => <<l, "register">> \notin Pending(D)'
                      /\ serving[D] = <<l, "deregister">> => <<l, "register">> \notin Pending(D)'
                      /\ \A i, m \in 1..Len(backlog'[D]) :
                           backlog'[D][i] = <<l, "register">> /\ backlog'[D][m] = <<l, "deregister">>
                             => i < m
    BY DEF OrderInv
  <2>1. /\ <<l, "deregister">> \in gone => <<l, "register">> \notin Pending(D)
        /\ serving[D] = <<l, "deregister">> => <<l, "register">> \notin Pending(D)
        /\ \A i, m \in 1..Len(backlog[D]) :
             backlog[D][i] = <<l, "register">> /\ backlog[D][m] = <<l, "deregister">> => i < m
    BY DEF NetInv, OrderInv
  <2>2. CASE s # D
    <3>1. D \in Servers
      BY Kinds
    <3>2. Pending(D)' = Pending(D) /\ backlog'[D] = backlog[D]
      BY <1>7, <2>2, <3>1
    <3>3. QED
      BY <2>1, <3>2
  <2>3. CASE s = D
    <3>1. c = <<l, "register">> => /\ <<l, "deregister">> \notin gone
                                   /\ <<l, "deregister">> \notin Pending(D)
      BY Kinds DEF Made
    <3>2. /\ \A x \in 1..Len(q) : q[x] \in Pending(D)
          /\ serving[D] # NoConnection => serving[D] \in Pending(D)
      BY <2>3, PendingIs DEF Elements, q
    <3>3. <<l, "deregister">> # NoConnection
      BY Kinds
    <3>4. /\ <<l, "deregister">> \in gone => <<l, "register">> \notin Pending(D)'
          /\ serving[D] = <<l, "deregister">> => <<l, "register">> \notin Pending(D)'
      BY <1>6, <2>1, <2>3, <3>1, <3>2, <3>3
    <3>5. ASSUME NEW i \in 1..Len(q) + 1, NEW m \in 1..Len(q) + 1,
                 Append(q, c)[i] = <<l, "register">>, Append(q, c)[m] = <<l, "deregister">>
          PROVE  i < m
      <4>1. i \in 1..Len(q) \/ i = Len(q) + 1
        BY <1>3
      <4>2. m \in 1..Len(q) \/ m = Len(q) + 1
        BY <1>3
      <4>3. \A x, y \in 1..Len(q) : q[x] = <<l, "register">> /\ q[y] = <<l, "deregister">> => x < y
        BY <2>1, <2>3 DEF q
      <4>4. CASE i = Len(q) + 1
        <5>1. c = <<l, "register">>
          BY <1>3, <3>5, <4>4
        <5>2. m \in 1..Len(q) => q[m] # <<l, "deregister">>
          BY <3>1, <3>2, <5>1
        <5>3. m \notin 1..Len(q)
          BY <1>3, <3>5, <5>2
        <5>4. m = Len(q) + 1
          BY <4>2, <5>3
        <5>5. QED
          BY <3>5, <4>4, <5>4
      <4>5. CASE i \in 1..Len(q)
        BY <1>3, <3>5, <4>2, <4>3, <4>5
      <4>6. QED
        BY <4>1, <4>4, <4>5
    <3>6. backlog'[D] = Append(q, c) /\ Len(backlog'[D]) = Len(q) + 1
      BY <1>2, <1>3, <2>3
    <3>7. QED
      BY <3>4, <3>5, <3>6
  <2>4. QED
    BY <2>2, <2>3
<1>12. QED
  BY <1>4, <1>6, <1>7, <1>8, <1>10, <1>11 DEF NetInv

(* A server accepts the oldest connection of its backlog.                  *)
LEMMA NetAccepted ==
  ASSUME NetInv, NEW s \in Servers, serving[s] = NoConnection, AcceptNext(s),
         gone' = gone, chosen' = chosen
  PROVE  /\ NetInv'
         /\ \A t \in Servers : Pending(t)' = Pending(t)
         /\ \A c \in Connections : Made(c)' <=> Made(c)
         /\ serving'[s] \in Pending(s) /\ serving'[s] # NoConnection
         /\ \A t \in Servers : t # s => serving'[t] = serving[t] /\ backlog'[t] = backlog[t]
<1> DEFINE q == backlog[s]
<1>1. /\ backlog \in [Servers -> Seq(Connections)] /\ q \in Seq(Connections) /\ q # <<>>
      /\ serving \in [Servers -> Connections \union {NoConnection}]
  BY DEF NetInv, NetTypeOK, AcceptNext
<1>2. /\ backlog' = [backlog EXCEPT ![s] = Tail(q)] /\ serving' = [serving EXCEPT ![s] = Head(q)]
      /\ backlog'[s] = Tail(q) /\ serving'[s] = Head(q)
      /\ \A t \in Servers : t # s => serving'[t] = serving[t] /\ backlog'[t] = backlog[t]
  BY <1>1 DEF AcceptNext
<1> HIDE DEF q
<1>3. /\ Tail(q) \in Seq(Connections) /\ Len(Tail(q)) = Len(q) - 1 /\ Len(q) \in Nat \ {0}
      /\ Head(q) \in Connections /\ Head(q) = q[1]
      /\ \A i \in 1..Len(Tail(q)) : Tail(q)[i] = q[i + 1] /\ i + 1 \in 1..Len(q)
      /\ Elements(q) = Elements(Tail(q)) \union {Head(q)}
  BY <1>1, Taken
<1>4. Head(q) # NoConnection
  BY <1>3, Kinds
<1>5. NetTypeOK'
  BY <1>1, <1>2, <1>3 DEF NetTypeOK, NetInv
<1>6. \A t \in Servers : Pending(t)' = Elements(backlog'[t]) \union
        (IF serving'[t] = NoConnection THEN {} ELSE {serving'[t]})
  BY DEF Pending, Elements
<1>7. \A t \in Servers : Pending(t)' = Pending(t)
  <2>1. Pending(s)' = Pending(s)
    <3>1. Pending(s) = Elements(q)
      BY PendingIs DEF q
    <3>2. Pending(s)' = Elements(Tail(q)) \union {Head(q)}
      BY <1>2, <1>4, <1>6
    <3>3. QED
      BY <1>3, <3>1, <3>2
  <2>2. ASSUME NEW t \in Servers, t # s
        PROVE  Pending(t)' = Pending(t)
    <3>1. serving'[t] = serving[t] /\ backlog'[t] = backlog[t]
      BY <1>2, <2>2
    <3>2. QED
      BY <1>6, <3>1, PendingIs
  <2>3. QED
    BY <2>1, <2>2
<1>8. \A c \in Connections : Made(c)' <=> Made(c)
  BY <1>7 DEF Made
<1>9. \A i, m \in 1..Len(q) : q[i] = q[m] => i = m
  BY DEF NetInv, PlaceInv, q
<1>10. Head(q) \notin Elements(Tail(q))
  <2> SUFFICES ASSUME NEW i \in 1..Len(Tail(q)), Tail(q)[i] = Head(q)
               PROVE  FALSE
    BY DEF Elements
  <2>1. q[i + 1] = q[1] /\ i + 1 \in 1..Len(q) /\ 1 \in 1..Len(q) /\ i + 1 # 1
    BY <1>3
  <2>2. QED
    BY <1>9, <2>1
<1>11. PlaceInv'
  <2> SUFFICES ASSUME NEW t \in Servers
               PROVE  /\ \A d \in Pending(t)' : d \notin gone' /\ ServerOf(d)' = t
                      /\ serving'[t] \notin Elements(backlog'[t])
                      /\ \A i, m \in 1..Len(backlog'[t]) :
                           backlog'[t][i] = backlog'[t][m] => i = m
    BY DEF PlaceInv
  <2>1. /\ \A d \in Pending(t) : d \notin gone /\ ServerOf(d) = t
        /\ serving[t] \notin Elements(backlog[t])
        /\ \A i, m \in 1..Len(backlog[t]) : backlog[t][i] = backlog[t][m] => i = m
    BY DEF NetInv, PlaceInv
  <2>2. \A d \in Pending(t)' : d \notin gone' /\ ServerOf(d)' = t
    BY <1>7, <2>1 DEF ServerOf
  <2>3. CASE t # s
    BY <1>2, <2>1, <2>2, <2>3
  <2>4. CASE t = s
    <3>1. ASSUME NEW i \in 1..Len(Tail(q)), NEW m \in 1..Len(Tail(q)), Tail(q)[i] = Tail(q)[m]
          PROVE  i = m
      <4>1. q[i + 1] = q[m + 1] /\ i + 1 \in 1..Len(q) /\ m + 1 \in 1..Len(q)
        BY <1>3, <3>1
      <4>2. i + 1 = m + 1
        BY <1>9, <4>1
      <4>3. QED
        BY <1>3, <4>2
    <3>2. backlog'[t] = Tail(q) /\ serving'[t] = Head(q)
      BY <1>2, <2>4
    <3>3. QED
      BY <1>10, <2>2, <3>1, <3>2
  <2>5. QED
    BY <2>3, <2>4
<1>12. OrderInv'
  <2> DEFINE D == Discovery
  <2> SUFFICES ASSUME NEW l \in Logs
               PROVE  /\ <<l, "deregister">> \in gone' => <<l, "register">> \notin Pending(D)'
                      /\ serving'[D] = <<l, "deregister">> => <<l, "register">> \notin Pending(D)'
                      /\ \A i, m \in 1..Len(backlog'[D]) :
                           backlog'[D][i] = <<l, "register">> /\ backlog'[D][m] = <<l, "deregister">>
                             => i < m
    BY DEF OrderInv
  <2>1. /\ <<l, "deregister">> \in gone => <<l, "register">> \notin Pending(D)
        /\ serving[D] = <<l, "deregister">> => <<l, "register">> \notin Pending(D)
        /\ \A i, m \in 1..Len(backlog[D]) :
             backlog[D][i] = <<l, "register">> /\ backlog[D][m] = <<l, "deregister">> => i < m
    BY DEF NetInv, OrderInv
  <2>2. CASE s # D
    <3>1. D \in Servers
      BY Kinds
    <3>2. serving'[D] = serving[D] /\ backlog'[D] = backlog[D] /\ Pending(D)' = Pending(D)
      BY <1>2, <1>7, <2>2, <3>1
    <3>3. QED
      BY <2>1, <3>2
  <2>3. CASE s = D
    <3>1. \A x, y \in 1..Len(q) : q[x] = <<l, "register">> /\ q[y] = <<l, "deregister">> => x < y
      BY <2>1, <2>3 DEF q
    <3>2. ASSUME Head(q) = <<l, "deregister">>, <<l, "register">> \in Pending(D)'
          PROVE  FALSE
      <4>1. <<l, "register">> \in Elements(q)
        BY <1>7, <2>3, <3>2, PendingIs DEF q
      <4>2. PICK x \in 1..Len(q) : q[x] = <<l, "register">>
        BY <4>1 DEF Elements
      <4>3. 1 \in 1..Len(q) /\ q[1] = <<l, "deregister">>
        BY <1>3, <3>2
      <4>4. x < 1
        BY <3>1, <4>2, <4>3
      <4>5. QED
        BY <1>3, <4>4
    <3>3. ASSUME NEW i \in 1..Len(Tail(q)), NEW m \in 1..Len(Tail(q)),
                 Tail(q)[i] = <<l, "register">>, Tail(q)[m] = <<l, "deregister">>
          PROVE  i < m
      <4>1. /\ q[i + 1] = <<l, "register">> /\ q[m + 1] = <<l, "deregister">>
            /\ i + 1 \in 1..Len(q) /\ m + 1 \in 1..Len(q)
        BY <1>3, <3>3
      <4>2. i + 1 < m + 1
        BY <3>1, <4>1
      <4>3. QED
        BY <1>3, <4>2
    <3>4. backlog'[D] = Tail(q) /\ serving'[D] = Head(q)
      BY <1>2, <2>3
    <3>5. <<l, "deregister">> \in gone' => <<l, "register">> \notin Pending(D)'
      BY <1>7, <2>1, Kinds
    <3>6. QED
      BY <3>2, <3>3, <3>4, <3>5
  <2>4. QED
    BY <2>2, <2>3
<1>13. serving'[s] \in Pending(s) /\ serving'[s] # NoConnection
  BY <1>2, <1>3, <1>4, PendingIs DEF q
<1>14. QED
  BY <1>2, <1>5, <1>7, <1>8, <1>11, <1>12, <1>13 DEF NetInv

(* A server closes the connection it has served.                           *)
LEMMA NetServed ==
  ASSUME NetInv, NEW s \in Servers, serving[s] # NoConnection, CloseServed(s),
         backlog' = backlog, chosen' = chosen
  PROVE  /\ NetInv' /\ gone' = gone \union {serving[s]}
         /\ Pending(s)' = Pending(s) \ {serving[s]}
         /\ \A t \in Servers : t # s => Pending(t)' = Pending(t) /\ serving'[t] = serving[t]
         /\ \A c \in Connections : Made(c)' <=> Made(c)
         /\ serving'[s] = NoConnection
<1>1. /\ serving \in [Servers -> Connections \union {NoConnection}]
      /\ serving[s] \in Connections /\ serving[s] \in Pending(s)
  BY PendingIs DEF NetInv, NetTypeOK
<1>2. /\ serving' = [serving EXCEPT ![s] = NoConnection] /\ serving'[s] = NoConnection
      /\ \A t \in Servers : t # s => serving'[t] = serving[t]
      /\ gone' = gone \union {serving[s]}
  BY <1>1 DEF CloseServed
<1>3. NetTypeOK'
  BY <1>1, <1>2 DEF NetTypeOK, NetInv
<1>4. \A t \in Servers : Pending(t)' = Elements(backlog[t]) \union
        (IF serving'[t] = NoConnection THEN {} ELSE {serving'[t]})
  BY DEF Pending, Elements
<1>5. \A t \in Servers : /\ \A d \in Pending(t) : d \notin gone /\ ServerOf(d) = t
                         /\ serving[t] \notin Elements(backlog[t])
                         /\ \A i, m \in 1..Len(backlog[t]) : backlog[t][i] = backlog[t][m] => i = m
  BY DEF NetInv, PlaceInv
<1>6. Pending(s)' = Pending(s) \ {serving[s]}
  BY <1>2, <1>4, <1>5, PendingIs
<1>7. \A t \in Servers : t # s => Pending(t)' = Pending(t)
  BY <1>2, <1>4, PendingIs
<1>8. \A c \in Connections : Made(c)' <=> Made(c)
  BY <1>1, <1>2, <1>6, <1>7 DEF Made
<1>9. PlaceInv'
  <2>1. \A d : ServerOf(d)' = ServerOf(d)
    BY DEF ServerOf
  <2>2. ASSUME NEW t \in Servers, NEW d \in Pending(t)'
        PROVE  d \notin gone' /\ ServerOf(d)' = t
    <3>1. d \in Pending(t) /\ d # serving[s]
      BY <1>1, <1>5, <1>6, <1>7, <2>2
    <3>2. QED
      BY <1>2, <1>5, <2>1, <3>1
  <2>3. ASSUME NEW t \in Servers
        PROVE  serving'[t] \notin Elements(backlog[t])
    <3>1. NoConnection \notin Elements(backlog[t])
      BY PendingTypes, Kinds DEF NetInv
    <3>2. QED
      BY <1>2, <1>5, <3>1
  <2>4. QED
    BY <1>5, <2>2, <2>3 DEF PlaceInv
<1>10. OrderInv'
  <2> DEFINE D == Discovery
  <2> SUFFICES ASSUME NEW l \in Logs
               PROVE  /\ <<l, "deregister">> \in gone' => <<l, "register">> \notin Pending(D)'
                      /\ serving'[D] = <<l, "deregister">> => <<l, "register">> \notin Pending(D)'
                      /\ \A i, m \in 1..Len(backlog[D]) :
                           backlog[D][i] = <<l, "register">> /\ backlog[D][m] = <<l, "deregister">>
                             => i < m
    BY DEF OrderInv
  <2>1. /\ <<l, "deregister">> \in gone => <<l, "register">> \notin Pending(D)
        /\ serving[D] = <<l, "deregister">> => <<l, "register">> \notin Pending(D)
        /\ \A i, m \in 1..Len(backlog[D]) :
             backlog[D][i] = <<l, "register">> /\ backlog[D][m] = <<l, "deregister">> => i < m
    BY DEF NetInv, OrderInv
  <2>2. D \in Servers /\ Pending(D)' \subseteq Pending(D)
    BY <1>6, <1>7, Kinds
  <2>3. serving'[D] = serving[D] \/ serving'[D] = NoConnection
    BY <1>2, <2>2
  <2>4. serving[s] = <<l, "deregister">> => s = D
    BY <1>1, <1>5 DEF ServerOf
  <2>5. <<l, "deregister">> # NoConnection
    BY Kinds
  <2>6. QED
    BY <1>2, <2>1, <2>2, <2>3, <2>4, <2>5
<1>11. QED
  BY <1>2, <1>3, <1>6, <1>7, <1>8, <1>9, <1>10 DEF NetInv

(* A server exits: all it has to do is closed.                             *)
LEMMA NetClosed ==
  ASSUME NetInv, NEW s \in Servers, CloseServer(s), chosen' = chosen
  PROVE  /\ NetInv' /\ gone' = gone \union Pending(s) /\ Pending(s)' = {}
         /\ \A t \in Servers : t # s => /\ Pending(t)' = Pending(t)
                                        /\ serving'[t] = serving[t] /\ backlog'[t] = backlog[t]
         /\ \A c \in Connections : Made(c)' <=> Made(c)
         /\ serving'[s] = NoConnection /\ backlog'[s] = <<>>
<1>1. /\ backlog \in [Servers -> Seq(Connections)]
      /\ serving \in [Servers -> Connections \union {NoConnection}]
      /\ Pending(s) \subseteq Connections
  BY PendingTypes DEF NetInv, NetTypeOK
<1>2. /\ serving' = [serving EXCEPT ![s] = NoConnection] /\ serving'[s] = NoConnection
      /\ backlog' = [backlog EXCEPT ![s] = <<>>] /\ backlog'[s] = <<>>
      /\ \A t \in Servers : t # s => serving'[t] = serving[t] /\ backlog'[t] = backlog[t]
      /\ gone' = gone \union Pending(s)
  BY <1>1 DEF CloseServer
<1>3. NetTypeOK'
  BY <1>1, <1>2 DEF NetTypeOK, NetInv
<1>4. \A t \in Servers : Pending(t)' = Elements(backlog'[t]) \union
        (IF serving'[t] = NoConnection THEN {} ELSE {serving'[t]})
  BY DEF Pending, Elements
<1>5. Len(backlog'[s]) = 0 /\ Elements(backlog'[s]) = {}
  BY <1>2 DEF Elements
<1>6. Pending(s)' = {}
  BY <1>2, <1>4, <1>5
<1>7. ASSUME NEW t \in Servers, t # s
      PROVE  Pending(t)' = Pending(t)
  <2>1. serving'[t] = serving[t] /\ backlog'[t] = backlog[t]
    BY <1>2, <1>7
  <2>2. QED
    BY <1>4, <2>1, PendingIs
<1>8. \A c \in Connections : Made(c)' <=> Made(c)
  BY <1>2, <1>6, <1>7 DEF Made
<1>9. \A t \in Servers : /\ \A d \in Pending(t) : d \notin gone /\ ServerOf(d) = t
                         /\ serving[t] \notin Elements(backlog[t])
                         /\ \A i, m \in 1..Len(backlog[t]) : backlog[t][i] = backlog[t][m] => i = m
  BY DEF NetInv, PlaceInv
<1>10. PlaceInv'
  <2>1. \A d : ServerOf(d)' = ServerOf(d)
    BY DEF ServerOf
  <2>2. ASSUME NEW t \in Servers, NEW d \in Pending(t)'
        PROVE  d \notin gone' /\ ServerOf(d)' = t
    BY <1>2, <1>6, <1>7, <1>9, <2>1, <2>2
  <2>3. QED
    BY <1>2, <1>5, <1>9, <2>2 DEF PlaceInv
<1>11. OrderInv'
  <2> DEFINE D == Discovery
  <2> SUFFICES ASSUME NEW l \in Logs
               PROVE  /\ <<l, "deregister">> \in gone' => <<l, "register">> \notin Pending(D)'
                      /\ serving'[D] = <<l, "deregister">> => <<l, "register">> \notin Pending(D)'
                      /\ \A i, m \in 1..Len(backlog'[D]) :
                           backlog'[D][i] = <<l, "register">> /\ backlog'[D][m] = <<l, "deregister">>
                             => i < m
    BY DEF OrderInv
  <2>1. /\ <<l, "deregister">> \in gone => <<l, "register">> \notin Pending(D)
        /\ serving[D] = <<l, "deregister">> => <<l, "register">> \notin Pending(D)
        /\ \A i, m \in 1..Len(backlog[D]) :
             backlog[D][i] = <<l, "register">> /\ backlog[D][m] = <<l, "deregister">> => i < m
    BY DEF NetInv, OrderInv
  <2>2. CASE s = D
    BY <1>5, <1>6, <2>2
  <2>3. CASE s # D
    <3>1. <<l, "deregister">> \notin Pending(s)
      BY <1>9, <2>3 DEF ServerOf
    <3>2. D \in Servers
      BY Kinds
    <3>3. serving'[D] = serving[D] /\ backlog'[D] = backlog[D] /\ Pending(D)' = Pending(D)
      <4>1. serving'[D] = serving[D] /\ backlog'[D] = backlog[D]
        BY <1>2, <2>3, <3>2
      <4>2. Pending(D)' = Pending(D)
        BY <1>7, <2>3, <3>2
      <4>3. QED
        BY <4>1, <4>2
    <3>4. <<l, "deregister">> \in gone' => <<l, "deregister">> \in gone
      BY <1>2, <3>1
    <3>5. QED
      BY <2>1, <3>3, <3>4
  <2>4. QED
    BY <2>2, <2>3
<1>12. QED
  BY <1>2, <1>3, <1>6, <1>7, <1>8, <1>10, <1>11 DEF NetInv

-----------------------------------------------------------------------------
(* The processes                                                           *)

(* A step that concerns the connections of one client leaves what is known *)
(* of the others.                                                          *)
LEMMA OtherClients ==
  ASSUME ClientInv, NEW x,
         \A d \in Connections : d[1] # x => /\ Made(d)' <=> Made(d)
                                            /\ d \in sent' <=> d \in sent
                                            /\ d \in closed' <=> d \in closed,
         \A l \in Logs : l # x => lpc'[l] = lpc[l],
         \A c \in Chats : c # x => cpc'[c] = cpc[c] /\ chosen'[c] = chosen[c]
  PROVE  /\ \A l \in Logs : l # x => LogClient(l)'
         /\ \A c \in Chats : c # x => ChatClient(c)'
<1>1. ASSUME NEW l \in Logs, l # x
      PROVE  LogClient(l)'
  <2>1. LogClient(l) /\ lpc'[l] = lpc[l]
    BY <1>1 DEF ClientInv
  <2>2. ASSUME NEW kind \in {"register", "deregister"}
        PROVE  /\ Made(<<l, kind>>)' <=> Made(<<l, kind>>)
               /\ <<l, kind>> \in sent' <=> <<l, kind>> \in sent
               /\ <<l, kind>> \in closed' <=> <<l, kind>> \in closed
    <3>1. <<l, kind>> \in Connections /\ <<l, kind>>[1] # x
      BY <1>1, Kinds
    <3>2. QED
      BY <3>1
  <2>3. QED
    BY <2>1, <2>2 DEF LogClient
<1>2. ASSUME NEW c \in Chats, c # x
      PROVE  ChatClient(c)'
  <2>1. ChatClient(c) /\ cpc'[c] = cpc[c] /\ chosen'[c] = chosen[c]
    BY <1>2 DEF ClientInv
  <2>2. ASSUME NEW kind \in {"request", "chat"}
        PROVE  /\ Made(<<c, kind>>)' <=> Made(<<c, kind>>)
               /\ <<c, kind>> \in sent' <=> <<c, kind>> \in sent
               /\ <<c, kind>> \in closed' <=> <<c, kind>> \in closed
    <3>1. <<c, kind>> \in Connections /\ <<c, kind>>[1] # x
      BY <1>2, Kinds
    <3>2. QED
      BY <3>1
  <2>3. QED
    BY <2>1, <2>2 DEF ChatClient
<1>3. QED
  BY <1>1, <1>2

(* A step of a server leaves all clients as they are.                      *)
LEMMA ClientsStay ==
  ASSUME CoreInv, UNCHANGED <<sent, closed, lpc, cpc, chosen>>,
         \A d \in Connections : Made(d)' <=> Made(d)
  PROVE  ClientInv'
<1>1. Discovery \notin Logs /\ Discovery \notin Chats
  BY ProcessAssumption
<1>2. /\ \A l \in Logs : LogClient(l)'
      /\ \A c \in Chats : ChatClient(c)'
  BY <1>1, OtherClients DEF CoreInv
<1>3. \A c \in sent' : Made(c)'
  BY DEF CoreInv, ClientInv, StreamTypeOK
<1>4. QED
  BY <1>2, <1>3 DEF ClientInv

(* The connection the discovery server or a log serves.                    *)
LEMMA Serves ==
  ASSUME CoreInv, NEW s \in Servers, serving[s] # NoConnection
  PROVE  /\ serving[s] \in Connections /\ serving[s] \in Pending(s)
         /\ serving[s] \notin gone /\ ServerOf(serving[s]) = s
         /\ s = Discovery => serving[s][2] \in {"register", "deregister", "request"}
         /\ s \in Logs => /\ serving[s][2] = "chat" /\ serving[s][1] \in Chats
                          /\ chosen[serving[s][1]] = s
<1>1. serving[s] \in Connections /\ serving[s] \in Pending(s)
  BY PendingIs DEF CoreInv, NetInv, NetTypeOK
<1>2. serving[s] \notin gone /\ ServerOf(serving[s]) = s
  BY <1>1 DEF CoreInv, NetInv, PlaceInv
<1>3. ASSUME s = Discovery, serving[s][2] = "chat"
      PROVE  FALSE
  <2>1. chosen[serving[s][1]] = Discovery /\ serving[s][1] \in Chats
    BY <1>1, <1>2, <1>3, Kinds DEF ServerOf
  <2>2. chosen[serving[s][1]] \in Logs \union {NoLog}
    BY <2>1 DEF CoreInv, ChatTypeOK
  <2>3. QED
    BY <2>1, <2>2, ProcessAssumption DEF NoLog
<1>4. ASSUME s \in Logs
      PROVE  serving[s][2] = "chat" /\ serving[s][1] \in Chats /\ chosen[serving[s][1]] = s
  BY <1>1, <1>2, <1>4, Kinds DEF ServerOf
<1>5. QED
  BY <1>1, <1>2, <1>3, <1>4, Kinds

(* The exit of the discovery server, on Ctrl-C or by a crash.              *)
LEMMA DiscoveryExitCore ==
  ASSUME CoreInv, DiscoveryExits, UNCHANGED <<chatters, reply, handled>>,
         UNCHANGED <<logVars, chatVars, sent, closed>>, FaultTypeOK'
  PROVE  CoreInv'
<1>1. /\ dpc' = "exited" /\ CloseServer(Discovery) /\ Discovery \in Servers
      /\ UNCHANGED <<lpc, printed, cpc, list, chosen>>
  BY Kinds DEF DiscoveryExits, logVars, chatVars
<1>2. /\ NetInv' /\ \A c \in Connections : Made(c)' <=> Made(c)
      /\ serving'[Discovery] = NoConnection /\ backlog'[Discovery] = <<>>
      /\ \A t \in Servers : t # Discovery => serving'[t] = serving[t]
  BY <1>1, NetClosed DEF CoreInv
<1>3. ClientInv'
  BY <1>1, <1>2, ClientsStay
<1>4. ServeInv'
  BY <1>1, <1>2, Kinds DEF CoreInv, ServeInv
<1>5. StreamTypeOK' /\ DiscoveryTypeOK' /\ LogTypeOK' /\ ChatTypeOK'
  BY <1>1 DEF CoreInv, StreamTypeOK, DiscoveryTypeOK, LogTypeOK, ChatTypeOK
<1>6. QED
  BY <1>2, <1>3, <1>4, <1>5 DEF CoreInv

(* The steps of discovery.c.                                               *)
LEMMA DiscoveryCore ==
  ASSUME CoreInv, DiscoveryStep
  PROVE  CoreInv'
<1>1. UNCHANGED <<lpc, printed, cpc, list, chosen, sent, closed, ctrl_c, world, stopped, signals, restarts>>
  BY DEF DiscoveryStep, logVars, chatVars, faultVars
<1>2. UNCHANGED <<logVars, chatVars, sent, closed>> /\ FaultTypeOK'
  BY <1>1 DEF logVars, chatVars, CoreInv, FaultTypeOK
<1>3. Discovery \in Servers /\ \A l \in Logs : l # Discovery /\ l \in Servers
  BY Kinds
<1>4. StreamTypeOK' /\ LogTypeOK' /\ ChatTypeOK'
  BY <1>1 DEF CoreInv, StreamTypeOK, LogTypeOK, ChatTypeOK
<1>5. CASE DiscoveryExits /\ UNCHANGED <<chatters, reply, handled>>
  BY <1>2, <1>5, DiscoveryExitCore
<1>6. CASE /\ dpc = "accept" /\ AcceptNext(Discovery) /\ dpc' = "test" /\ UNCHANGED gone
           /\ UNCHANGED <<chatters, reply, handled>>
  <2>1. serving[Discovery] = NoConnection
    BY <1>6 DEF CoreInv, ServeInv
  <2>2. /\ NetInv' /\ \A c \in Connections : Made(c)' <=> Made(c)
        /\ serving'[Discovery] # NoConnection
        /\ \A t \in Servers : t # Discovery => serving'[t] = serving[t]
    BY <1>1, <1>3, <1>6, <2>1, NetAccepted DEF CoreInv
  <2>3. ClientInv'
    BY <1>1, <2>2, ClientsStay
  <2>4. ServeInv' /\ DiscoveryTypeOK'
    BY <1>1, <1>3, <1>6, <2>2 DEF CoreInv, ServeInv, DiscoveryTypeOK
  <2>5. QED
    BY <1>2, <1>4, <2>2, <2>3, <2>4 DEF CoreInv
<1>7. CASE /\ \/ dpc = "test" /\ dpc' = "recv"
              \/ dpc = "recv" /\ dpc' = "test"
              \/ dpc = "recv" /\ dpc' = "handle" /\ HasMessage(serving[Discovery])
           /\ UNCHANGED serverNet /\ UNCHANGED <<chatters, reply, handled>>
  <2>1. NetInv' /\ \A c \in Connections : Made(c)' <=> Made(c)
    BY <1>1, <1>7, NetStays DEF CoreInv, ServerOf
  <2>2. ClientInv'
    BY <1>1, <2>1, ClientsStay
  <2>3. UNCHANGED <<backlog, serving>>
    BY <1>7 DEF serverNet
  <2>4. ServeInv' /\ DiscoveryTypeOK'
    BY <1>1, <1>3, <1>7, <2>3 DEF CoreInv, ServeInv, DiscoveryTypeOK, HasMessage
  <2>5. QED
    BY <1>2, <1>4, <2>1, <2>2, <2>4 DEF CoreInv
<1>8. CASE DiscoveryHandles
  <2> DEFINE c == serving[Discovery]
  <2>1. /\ dpc = "handle" /\ dpc' = "accept" /\ handled' = handled \union {c}
        /\ CloseServed(Discovery) /\ backlog' = backlog
        /\ \/ c[2] = "request" /\ handle_request(c[1]) /\ UNCHANGED chatters
           \/ c[2] = "register" /\ handle_register(c[1]) /\ UNCHANGED reply
           \/ c[2] = "deregister" /\ handle_deregister(c[1]) /\ UNCHANGED reply
    BY <1>8 DEF DiscoveryHandles
  <2>2. c # NoConnection
    BY <2>1 DEF CoreInv, ServeInv
  <2>3. c \in Connections
    BY <1>3, <2>2, Serves
  <2>4. /\ NetInv' /\ \A d \in Connections : Made(d)' <=> Made(d)
        /\ serving'[Discovery] = NoConnection
        /\ \A t \in Servers : t # Discovery => serving'[t] = serving[t]
    BY <1>1, <1>3, <2>1, <2>2, NetServed DEF CoreInv
  <2>5. ClientInv'
    BY <1>1, <2>4, ClientsStay
  <2>6. ServeInv'
    BY <1>1, <1>3, <2>1, <2>4 DEF CoreInv, ServeInv
  <2>7. DiscoveryTypeOK'
    <3>1. chatters' \in Tables
      <4>1. ASSUME NEW P, NEW e \in Logs \union {NoLog}, Store(P, e)
            PROVE  chatters' \in Tables
        BY <4>1 DEF Store, CoreInv, DiscoveryTypeOK, Tables
      <4>2. c[2] = "register" => c[1] \in Logs
        BY <2>3, Kinds
      <4>3. QED
        BY <2>1, <4>1, <4>2 DEF handle_register, handle_deregister, CoreInv, DiscoveryTypeOK
    <3>2. reply' \in [Chats -> [sent : BOOLEAN, table : Tables]]
      <4>1. CASE c[2] = "request" /\ handle_request(c[1])
        <5>1. [sent |-> TRUE, table |-> chatters] \in [sent : BOOLEAN, table : Tables]
          BY DEF CoreInv, DiscoveryTypeOK
        <5>2. QED
          BY <4>1, <5>1 DEF handle_request, CoreInv, DiscoveryTypeOK
      <4>2. CASE UNCHANGED reply
        BY <4>2 DEF CoreInv, DiscoveryTypeOK
      <4>3. QED
        BY <2>1, <4>1, <4>2
    <3>3. QED
      BY <2>1, <2>3, <3>1, <3>2 DEF CoreInv, DiscoveryTypeOK
  <2>8. QED
    BY <1>2, <1>4, <2>4, <2>5, <2>6, <2>7 DEF CoreInv
<1>9. QED
  BY <1>5, <1>6, <1>7, <1>8
     DEF DiscoveryStep, DiscoveryAccepts, DiscoveryTests, DiscoveryReceives

(* The values of lpc.                                                      *)
LEMMA LogCalls ==
  /\ \A doing \in {"register", "deregister"}, call \in {"dial", "dialing", "send"} :
       <<doing, call>> \in Calls
  /\ \A call \in {"accept", "test", "recv"} : <<"serve", call>> \in Calls
  /\ <<"boot", "listen">> \in Calls /\ <<"exited", "exited">> \in Calls
  BY DEF Calls

(* A log goes to another place.                                            *)
LEMMA GoesTo ==
  ASSUME CoreInv, NEW l \in Logs, NEW doing, NEW call, <<doing, call>> \in Calls,
         Goto(l, doing, call)
  PROVE  /\ lpc' \in [Logs -> Calls] /\ lpc'[l] = <<doing, call>>
         /\ \A m \in Logs : m # l => lpc'[m] = lpc[m]
  BY DEF Goto, CoreInv, LogTypeOK

(* A step of log l that changes no other process.                          *)
LEMMA LogStepCore ==
  ASSUME CoreInv, NEW l \in Logs, UNCHANGED discoveryVars, UNCHANGED chatVars,
         FaultTypeOK', lpc' \in [Logs -> Calls], printed' \in Seq(Logs \X Chats),
         \A m \in Logs : m # l => lpc'[m] = lpc[m],
         NetInv', LogClient(l)',
         \A d \in Connections : d[1] # l => (Made(d)' <=> Made(d)),
         \A d \in Connections : Made(d) => Made(d)',
         \A d \in Connections : d[1] # l => (d \in sent' <=> d \in sent),
         \A d \in Connections : d[1] # l => (d \in closed' <=> d \in closed),
         \A d \in sent' : d \in sent \/ Made(d),
         sent \subseteq sent', sent' \subseteq Connections, closed' \subseteq Connections,
         serving'[Discovery] = serving[Discovery],
         dpc = "exited" => backlog'[Discovery] = backlog[Discovery],
         \A m \in Logs : m # l => serving'[m] = serving[m],
         lpc'[l] \in {<<"serve", "test">>, <<"serve", "recv">>} => serving'[l] # NoConnection,
         lpc'[l] = <<"serve", "accept">> => serving'[l] = NoConnection,
         lpc'[l][1] \in {"boot", "register"} => serving'[l] = NoConnection
  PROVE  CoreInv'
<1>1. UNCHANGED <<chatters, dpc, reply, handled, cpc, list, chosen>>
  BY DEF discoveryVars, chatVars
<1>2. ClientInv'
  <2>1. \A c \in Chats : c # l
    BY ProcessAssumption
  <2>2. /\ \A m \in Logs : m # l => LogClient(m)'
        /\ \A c \in Chats : c # l => ChatClient(c)'
    BY <1>1, OtherClients DEF CoreInv
  <2>3. \A d \in sent' : Made(d)'
    BY DEF CoreInv, ClientInv, StreamTypeOK
  <2>4. QED
    BY <2>1, <2>2, <2>3 DEF ClientInv
<1>3. ServeInv'
  <2>1. \A m \in Logs : m # l =>
          /\ lpc'[m] \in {<<"serve", "test">>, <<"serve", "recv">>} => serving'[m] # NoConnection
          /\ lpc'[m] = <<"serve", "accept">> => serving'[m] = NoConnection
          /\ lpc'[m][1] \in {"boot", "register"} => serving'[m] = NoConnection
    BY DEF CoreInv, ServeInv
  <2>2. /\ dpc \in {"test", "recv", "handle"} => serving[Discovery] # NoConnection
        /\ dpc \in {"accept", "exited"} => serving[Discovery] = NoConnection
        /\ dpc = "exited" => backlog[Discovery] = <<>>
        /\ dpc = "handle" => serving[Discovery] \in sent
    BY DEF CoreInv, ServeInv
  <2>3. QED
    BY <1>1, <2>1, <2>2 DEF ServeInv
<1>4. StreamTypeOK' /\ DiscoveryTypeOK' /\ LogTypeOK' /\ ChatTypeOK'
  BY <1>1 DEF CoreInv, StreamTypeOK, DiscoveryTypeOK, LogTypeOK, ChatTypeOK
<1>5. QED
  BY <1>2, <1>3, <1>4 DEF CoreInv

(* The exit of a log, after a last message or without.                     *)
LEMMA LogExitCore ==
  ASSUME CoreInv, NEW l \in Logs, LogExits(l), UNCHANGED discoveryVars,
         UNCHANGED chatVars, UNCHANGED printed, FaultTypeOK',
         \/ sent' = sent
         \/ lpc[l] = <<"deregister", "send">> /\ sent' = sent \union {<<l, "deregister">>}
  PROVE  CoreInv'
<1>1. /\ lpc' \in [Logs -> Calls] /\ lpc'[l] = <<"exited", "exited">>
      /\ \A m \in Logs : m # l => lpc'[m] = lpc[m]
  BY LogCalls, GoesTo DEF LogExits
<1>2. l \in Servers /\ Discovery \in Servers /\ Discovery # l /\ Logs \subseteq Servers
      /\ chosen' = chosen
  BY Kinds DEF chatVars
<1>3. /\ NetInv' /\ \A d \in Connections : Made(d)' <=> Made(d)
      /\ serving'[l] = NoConnection
      /\ \A t \in Servers : t # l => serving'[t] = serving[t] /\ backlog'[t] = backlog[t]
  BY <1>2, NetClosed DEF LogExits, CoreInv
<1>4. /\ closed \subseteq closed' /\ closed' \subseteq Connections
      /\ \A d \in Connections : d[1] # l => (d \in closed' <=> d \in closed)
  <2>1. Pending(Discovery) \subseteq Connections
    BY <1>2, PendingTypes DEF CoreInv, NetInv
  <2>2. closed' = closed \union {c \in Pending(Discovery) : c[1] = l}
    BY DEF LogExits
  <2>3. QED
    BY <2>1, <2>2 DEF CoreInv, StreamTypeOK
<1>5. LogClient(l)'
  BY <1>1 DEF LogClient
<1>6. <<l, "deregister">> \in Connections /\ <<l, "deregister">>[1] = l
  BY Kinds
<1>7. /\ sent \subseteq sent' /\ sent' \subseteq Connections
      /\ \A d \in Connections : d[1] # l => (d \in sent' <=> d \in sent)
      /\ \A d \in sent' : d \in sent \/ Made(d)
  <2>1. lpc[l] = <<"deregister", "send">> => Made(<<l, "deregister">>)
    BY DEF CoreInv, ClientInv, LogClient
  <2>2. QED
    BY <1>6, <2>1 DEF CoreInv, StreamTypeOK
<1>8. printed' \in Seq(Logs \X Chats)
  BY DEF CoreInv, LogTypeOK
<1>9. /\ ~(lpc'[l] \in {<<"serve", "test">>, <<"serve", "recv">>, <<"serve", "accept">>})
      /\ ~(lpc'[l][1] \in {"boot", "register"})
  BY <1>1
<1>10. QED
  BY <1>1, <1>2, <1>3, <1>4, <1>5, <1>7, <1>8, <1>9, LogStepCore

(* A step of log l within its own code: it dials nobody.                   *)
LEMMA LogMovesCore ==
  ASSUME CoreInv, NEW l \in Logs, NEW doing, NEW call, <<doing, call>> \in Calls,
         Goto(l, doing, call), UNCHANGED discoveryVars, UNCHANGED chatVars,
         FaultTypeOK', printed' \in Seq(Logs \X Chats),
         UNCHANGED <<sent, closed>>, NetInv', LogClient(l)',
         \A d \in Connections : Made(d)' <=> Made(d),
         \A t \in Servers : t # l => serving'[t] = serving[t] /\ backlog'[t] = backlog[t],
         doing = "serve" => IF call = "accept" THEN serving'[l] = NoConnection
                            ELSE serving'[l] # NoConnection,
         doing \in {"boot", "register"} => serving'[l] = NoConnection
  PROVE  CoreInv'
<1>1. /\ lpc' \in [Logs -> Calls] /\ lpc'[l] = <<doing, call>>
      /\ \A m \in Logs : m # l => lpc'[m] = lpc[m]
  BY GoesTo
<1>2. Discovery \in Servers /\ Discovery # l /\ Logs \subseteq Servers
  BY Kinds
<1>3. sent' \subseteq Connections /\ closed' \subseteq Connections
  BY DEF CoreInv, StreamTypeOK
<1>4. QED
  BY <1>1, <1>2, <1>3, LogStepCore

(* connect, of a log to the discovery server, for the first time.          *)
LEMMA LogDialsCore ==
  ASSUME CoreInv, NEW l \in Logs, NEW what \in {"register", "deregister"},
         LogDials(l, what), UNCHANGED discoveryVars, UNCHANGED chatVars, FaultTypeOK'
  PROVE  CoreInv'
<1>1. lpc[l] = <<what, "dial">> /\ UNCHANGED <<sent, ctrl_c, printed>>
  BY DEF LogDials, At
<1>2. CASE LogExits(l)
  BY <1>1, <1>2, LogExitCore
<1>3. CASE /\ Listening(Discovery) /\ Dial(<<l, what>>, Discovery) /\ Goto(l, what, "dialing")
           /\ UNCHANGED <<serving, gone, closed>>
  <2> DEFINE c == <<l, what>>
  <2>1. /\ c \in Connections /\ c[1] = l /\ c[2] = what /\ Discovery \in Servers
        /\ Discovery # l /\ Logs \subseteq Servers
    BY Kinds
  <2>2. LogClient(l)
    BY DEF CoreInv, ClientInv
  <2>3. ~Made(c) /\ (what = "register" => ~Made(<<l, "deregister">>))
    BY <1>1, <2>2 DEF LogClient
  <2>4. \A d : ServerOf(d)' = ServerOf(d)
    BY DEF ServerOf, chatVars
  <2>5. ServerOf(c)' = Discovery
    BY <2>1 DEF ServerOf
  <2>6. /\ NetInv' /\ \A d \in Connections : Made(d)' <=> (Made(d) \/ d = c)
    <3> HIDE DEF c
    <3>1. c[2] = "register" => ~Made(<<c[1], "deregister">>)
      BY <2>1, <2>3
    <3>2. Dial(c, Discovery)
      BY <1>3 DEF c
    <3>3. QED
      BY <1>3, <2>1, <2>3, <2>4, <2>5, <3>1, <3>2, NetDialed DEF CoreInv
  <2>7. /\ lpc' \in [Logs -> Calls] /\ lpc'[l] = <<what, "dialing">>
        /\ \A m \in Logs : m # l => lpc'[m] = lpc[m]
    BY <1>3, LogCalls, GoesTo
  <2>8. LogClient(l)'
    <3>1. <<l, "register">> \in Connections /\ <<l, "deregister">> \in Connections
      BY Kinds
    <3>2. UNCHANGED <<sent, closed>>
      BY <1>1, <1>3
    <3>3. CASE what = "register"
      <4>1. Made(<<l, "register">>)' /\ ~Made(<<l, "deregister">>)'
        BY <2>3, <2>6, <3>1, <3>3
      <4>2. QED
        BY <1>1, <2>2, <2>7, <3>2, <3>3, <4>1 DEF LogClient
    <3>4. CASE what = "deregister"
      <4>1. Made(<<l, "deregister">>)'
        BY <2>6, <3>1, <3>4
      <4>2. QED
        BY <1>1, <2>2, <2>7, <3>2, <3>4, <4>1 DEF LogClient
    <3>5. QED
      BY <3>3, <3>4
  <2>9. dpc # "exited"
    BY <1>3 DEF Listening
  <2>10. /\ sent' \subseteq Connections /\ closed' \subseteq Connections
         /\ UNCHANGED <<sent, closed>> /\ printed' \in Seq(Logs \X Chats)
    BY <1>1, <1>3 DEF CoreInv, StreamTypeOK, LogTypeOK
  <2>11. /\ ~(lpc'[l] \in {<<"serve", "test">>, <<"serve", "recv">>, <<"serve", "accept">>})
         /\ lpc'[l][1] \in {"boot", "register"} => serving'[l] = NoConnection
    BY <1>1, <1>3, <2>7 DEF CoreInv, ServeInv
  <2>12. \A d \in Connections : d[1] # l => (Made(d)' <=> Made(d))
    BY <2>1, <2>6
  <2> HIDE DEF c
  <2>13. QED
    BY <1>3, <2>1, <2>6, <2>7, <2>8, <2>9, <2>10, <2>11, <2>12, LogStepCore
<1>4. QED
  BY <1>2, <1>3 DEF LogDials

(* connect, for the second time.                                           *)
LEMMA LogConnectsCore ==
  ASSUME CoreInv, NEW l \in Logs, NEW what \in {"register", "deregister"},
         LogConnects(l, what), UNCHANGED discoveryVars, UNCHANGED chatVars, FaultTypeOK'
  PROVE  CoreInv'
<1>1. lpc[l] = <<what, "dialing">> /\ UNCHANGED <<sent, ctrl_c, printed>>
  BY DEF LogConnects, At
<1>2. CASE LogExits(l)
  BY <1>1, <1>2, LogExitCore
<1>3. CASE Goto(l, what, "send") /\ UNCHANGED <<serverNet, closed>>
  <2>1. NetInv' /\ \A d \in Connections : Made(d)' <=> Made(d)
    BY <1>3, NetStays DEF CoreInv, ServerOf, chatVars
  <2>2. UNCHANGED <<backlog, serving>> /\ <<what, "send">> \in Calls
    BY <1>3, LogCalls DEF serverNet
  <2>3. lpc'[l] = <<what, "send">>
    BY <1>3, <2>2, GoesTo
  <2>4. LogClient(l)'
    <3>1. LogClient(l) /\ <<l, "register">> \in Connections /\ <<l, "deregister">> \in Connections
      BY Kinds DEF CoreInv, ClientInv
    <3>2. QED
      BY <1>1, <1>3, <2>1, <2>3, <3>1 DEF LogClient
  <2>5. printed' \in Seq(Logs \X Chats)
    BY <1>1 DEF CoreInv, LogTypeOK
  <2>6. what \in {"boot", "register"} => serving'[l] = NoConnection
    BY <1>1, <2>2 DEF CoreInv, ServeInv
  <2>7. QED
    BY <1>1, <1>3, <2>1, <2>2, <2>4, <2>5, <2>6, LogMovesCore
<1>4. QED
  BY <1>2, <1>3 DEF LogConnects

(* The registration or deregistration is sent, and its connection closed.  *)
LEMMA LogSendsCore ==
  ASSUME CoreInv, NEW l \in Logs, NEW what \in {"register", "deregister"},
         LogSends(l, what), UNCHANGED discoveryVars, UNCHANGED chatVars, FaultTypeOK'
  PROVE  CoreInv'
<1>1. /\ lpc[l] = <<what, "send">> /\ UNCHANGED <<ctrl_c, printed>>
      /\ sent' = sent \/ sent' = sent \union {<<l, what>>}
  BY DEF LogSends, At
<1>2. CASE what = "deregister" /\ LogExits(l)
  BY <1>1, <1>2, LogExitCore
<1>3. CASE /\ what = "register" /\ closed' = closed \union {<<l, what>>}
           /\ Goto(l, "serve", "accept") /\ UNCHANGED serverNet
  <2>1. NetInv' /\ \A d \in Connections : Made(d)' <=> Made(d)
    BY <1>3, NetStays DEF CoreInv, ServerOf, chatVars
  <2>2. UNCHANGED <<backlog, serving>>
    BY <1>3 DEF serverNet
  <2>3. /\ lpc' \in [Logs -> Calls] /\ lpc'[l] = <<"serve", "accept">>
        /\ \A m \in Logs : m # l => lpc'[m] = lpc[m]
    BY <1>3, LogCalls, GoesTo
  <2>4. LogClient(l) /\ <<l, "register">> \in Connections /\ <<l, "deregister">> \in Connections
    BY Kinds DEF CoreInv, ClientInv
  <2>5. LogClient(l)'
    BY <1>1, <1>3, <2>1, <2>3, <2>4 DEF LogClient
  <2>6. /\ sent \subseteq sent' /\ sent' \subseteq Connections /\ closed' \subseteq Connections
        /\ \A d \in sent' : d \in sent \/ Made(d)
    BY <1>1, <1>3, <2>4 DEF CoreInv, StreamTypeOK, LogClient
  <2>7. /\ \A d \in Connections : d[1] # l => (d \in sent' <=> d \in sent)
        /\ \A d \in Connections : d[1] # l => (d \in closed' <=> d \in closed)
    BY <1>1, <1>3
  <2>8. printed' \in Seq(Logs \X Chats)
    BY <1>1 DEF CoreInv, LogTypeOK
  <2>9. Logs \subseteq Servers
    BY Kinds
  <2>10. serving[l] = NoConnection
    BY <1>1, <1>3 DEF CoreInv, ServeInv
  <2>11. QED
    BY <1>1, <2>1, <2>2, <2>3, <2>5, <2>6, <2>7, <2>8, <2>9, <2>10, LogStepCore
<1>4. QED
  BY <1>2, <1>3 DEF LogSends

(* The steps of the loop of a log.                                         *)
LEMMA LogServesCore ==
  ASSUME CoreInv, NEW l \in Logs,
         StartLog(l) \/ LogAccepts(l) \/ LogTests(l) \/ LogReceives(l),
         UNCHANGED discoveryVars, UNCHANGED chatVars, FaultTypeOK'
  PROVE  CoreInv'
<1>1. /\ l \in Servers /\ Discovery # l /\ chosen' = chosen /\ \A d : ServerOf(d)' = ServerOf(d)
      /\ <<l, "register">> \in Connections /\ <<l, "deregister">> \in Connections
  BY Kinds DEF chatVars, ServerOf
<1>2. LogClient(l)
  BY DEF CoreInv, ClientInv
<1>3. printed \in Seq(Logs \X Chats)
  BY DEF CoreInv, LogTypeOK
<1>4. CASE StartLog(l)
  <2>1. /\ lpc[l] = <<"boot", "listen">> /\ Goto(l, "register", "dial") /\ printed' = printed
        /\ UNCHANGED <<backlog, serving, gone, sent, closed>> /\ UNCHANGED serverNet
    BY <1>4 DEF StartLog, At, netVars, serverNet
  <2>2. NetInv' /\ \A d \in Connections : Made(d)' <=> Made(d)
    BY <1>1, <2>1, NetStays DEF CoreInv
  <2>3. <<"register", "dial">> \in Calls /\ lpc'[l] = <<"register", "dial">>
    BY <2>1, LogCalls, GoesTo
  <2>4. LogClient(l)'
    BY <1>1, <1>2, <2>1, <2>2, <2>3 DEF LogClient
  <2>5. serving'[l] = NoConnection
    BY <2>1 DEF CoreInv, ServeInv
  <2>6. QED
    BY <1>3, <2>1, <2>2, <2>3, <2>4, <2>5, LogMovesCore
<1>5. ASSUME lpc[l][1] = "serve", LeaveLoop(l), UNCHANGED <<sent, closed, gone, printed>>
      PROVE  CoreInv'
  <2>1. Goto(l, "deregister", "dial") /\ UNCHANGED <<backlog, serving>> /\ UNCHANGED serverNet
    BY <1>5 DEF LeaveLoop, serverNet
  <2>2. NetInv' /\ \A d \in Connections : Made(d)' <=> Made(d)
    BY <1>1, <2>1, NetStays DEF CoreInv
  <2>3. <<"deregister", "dial">> \in Calls /\ lpc'[l] = <<"deregister", "dial">>
    BY <2>1, LogCalls, GoesTo
  <2>4. LogClient(l)'
    BY <1>1, <1>2, <1>5, <2>2, <2>3 DEF LogClient
  <2>5. QED
    BY <1>3, <1>5, <2>1, <2>2, <2>3, <2>4, LogMovesCore
<1>6. CASE /\ lpc[l] = <<"serve", "accept">> /\ AcceptNext(l) /\ Goto(l, "serve", "test")
           /\ UNCHANGED <<sent, closed, gone, printed>>
  <2>1. serving[l] = NoConnection
    BY <1>6 DEF CoreInv, ServeInv
  <2>2. /\ NetInv' /\ \A d \in Connections : Made(d)' <=> Made(d)
        /\ serving'[l] # NoConnection
        /\ \A t \in Servers : t # l => serving'[t] = serving[t] /\ backlog'[t] = backlog[t]
    BY <1>1, <1>6, <2>1, NetAccepted DEF CoreInv
  <2>3. <<"serve", "test">> \in Calls /\ lpc'[l] = <<"serve", "test">>
    BY <1>6, LogCalls, GoesTo
  <2>4. LogClient(l)'
    BY <1>1, <1>2, <1>6, <2>2, <2>3 DEF LogClient
  <2>5. QED
    BY <1>3, <1>6, <2>2, <2>3, <2>4, LogMovesCore
<1>7. CASE \E call \in {"test", "recv"} :
             /\ lpc[l] \in {<<"serve", "test">>, <<"serve", "recv">>} /\ Goto(l, "serve", call)
             /\ UNCHANGED <<backlog, serving, gone, sent, closed, printed>>
  <2>1. PICK call \in {"test", "recv"} :
             /\ lpc[l] \in {<<"serve", "test">>, <<"serve", "recv">>} /\ Goto(l, "serve", call)
             /\ UNCHANGED <<backlog, serving, gone, sent, closed, printed>>
    BY <1>7
  <2>2. NetInv' /\ \A d \in Connections : Made(d)' <=> Made(d)
    BY <1>1, <2>1, NetStays DEF CoreInv, serverNet
  <2>3. <<"serve", call>> \in Calls /\ lpc'[l] = <<"serve", call>>
    BY <2>1, LogCalls, GoesTo
  <2>4. LogClient(l)'
    BY <1>1, <1>2, <2>1, <2>2, <2>3 DEF LogClient
  <2>5. serving'[l] # NoConnection
    BY <2>1 DEF CoreInv, ServeInv
  <2>6. QED
    BY <1>3, <2>1, <2>2, <2>3, <2>4, <2>5, LogMovesCore
<1>8. CASE /\ lpc[l] = <<"serve", "recv">> /\ CloseServed(l) /\ Goto(l, "serve", "accept")
           /\ printed' = Append(printed, <<l, serving[l][1]>>)
           /\ UNCHANGED <<backlog, sent, closed>>
  <2>1. serving[l] # NoConnection
    BY <1>8 DEF CoreInv, ServeInv
  <2>2. /\ NetInv' /\ \A d \in Connections : Made(d)' <=> Made(d)
        /\ serving'[l] = NoConnection
        /\ \A t \in Servers : t # l => serving'[t] = serving[t]
    BY <1>1, <1>8, <2>1, NetServed DEF CoreInv
  <2>3. <<"serve", "accept">> \in Calls /\ lpc'[l] = <<"serve", "accept">>
    BY <1>8, LogCalls, GoesTo
  <2>4. LogClient(l)'
    BY <1>1, <1>2, <1>8, <2>2, <2>3 DEF LogClient
  <2>5. printed' \in Seq(Logs \X Chats)
    <3>1. serving[l][1] \in Chats
      BY <1>1, <2>1, Serves
    <3>2. QED
      BY <1>3, <1>8, <3>1, AppendProperties
  <2>6. QED
    BY <1>8, <2>2, <2>3, <2>4, <2>5, LogMovesCore
<1>9. CASE LogReceives(l) /\ LogExits(l) /\ UNCHANGED printed
  <2>1. sent' = sent
    BY <1>9 DEF LogReceives
  <2>2. QED
    BY <1>9, <2>1, LogExitCore
<1>10. CASE LogAccepts(l)
  BY <1>5, <1>6, <1>10 DEF LogAccepts, At
<1>11. CASE LogTests(l)
  <2>1. CASE LeaveLoop(l)
    BY <1>5, <1>11, <2>1 DEF LogTests, At
  <2>2. CASE Goto(l, "serve", "recv") /\ UNCHANGED <<ctrl_c, backlog, serving>>
    BY <1>7, <1>11, <2>2 DEF LogTests, At
  <2>3. QED
    BY <1>11, <2>1, <2>2 DEF LogTests
<1>12. CASE LogReceives(l)
  <2>1. lpc[l] = <<"serve", "recv">> /\ UNCHANGED <<sent, ctrl_c>>
    BY <1>12 DEF LogReceives, At
  <2>2. CASE Goto(l, "serve", "test") /\ UNCHANGED <<serverNet, closed, printed>>
    BY <1>7, <2>1, <2>2 DEF serverNet
  <2>3. CASE /\ printed' = Append(printed, <<l, serving[l][1]>>) /\ CloseServed(l)
             /\ Goto(l, "serve", "accept") /\ UNCHANGED <<backlog, closed>>
    BY <1>8, <2>1, <2>3
  <2>4. QED
    BY <1>9, <1>12, <2>2, <2>3 DEF LogReceives
<1>13. QED
  BY <1>4, <1>10, <1>11, <1>12

(* The steps of log.c.                                                     *)
LEMMA LogCore ==
  ASSUME CoreInv, NEW l \in Logs, LogStep(l)
  PROVE  CoreInv'
<1>1. FaultTypeOK'
  <2>1. UNCHANGED <<world, stopped, signals, restarts>>
    BY DEF LogStep, faultVars
  <2>2. ctrl_c' \in [Servers -> BOOLEAN]
    BY Kinds DEF LogStep, StartLog, LogDials, LogConnects, LogSends, LogAccepts,
                 LogTests, LogReceives, LeaveLoop, Reset, CoreInv, FaultTypeOK
  <2>3. QED
    BY <2>1, <2>2 DEF CoreInv, FaultTypeOK
<1>2. UNCHANGED discoveryVars /\ UNCHANGED chatVars
  BY DEF LogStep
<1>3. QED
  BY <1>1, <1>2, LogServesCore, LogDialsCore, LogConnectsCore, LogSendsCore DEF LogStep

ChatPoints == {"dial", "dialing", "await", "choose", "typing", "done"}

(* A step of chat c that changes no other process.                         *)
LEMMA ChatStepCore ==
  ASSUME CoreInv, NEW c \in Chats, UNCHANGED discoveryVars, UNCHANGED logVars,
         FaultTypeOK', UNCHANGED serving, NetInv',
         NEW to \in ChatPoints, ChatGoes(c, to), list' \in [Chats -> Tables],
         chosen' \in [Chats -> Logs \union {NoLog}],
         \A d \in Chats : d # c => chosen'[d] = chosen[d],
         ChatClient(c)',
         \A d \in Connections : d[1] # c => (Made(d)' <=> Made(d)),
         \A d \in Connections : Made(d) => Made(d)',
         sent' = sent \/ \E k \in {"request", "chat"} :
                            Made(<<c, k>>) /\ sent' = sent \union {<<c, k>>},
         closed' = closed \/ \E k \in {"request", "chat"} : closed' = closed \union {<<c, k>>},
         dpc = "exited" => backlog'[Discovery] = backlog[Discovery]
  PROVE  CoreInv'
<1>1. UNCHANGED <<chatters, dpc, reply, handled, lpc, printed>>
  BY DEF discoveryVars, logVars
<1>2. /\ cpc' \in [Chats -> ChatPoints]
      /\ \A d \in Chats : d # c => cpc'[d] = cpc[d]
  BY DEF ChatGoes, CoreInv, ChatTypeOK, ChatPoints
<1>3. \A k \in {"request", "chat"} : <<c, k>> \in Connections /\ <<c, k>>[1] = c
  BY Kinds
<1>4. /\ sent \subseteq sent' /\ sent' \subseteq Connections /\ closed' \subseteq Connections
      /\ \A d \in Connections : d[1] # c => (d \in sent' <=> d \in sent)
      /\ \A d \in Connections : d[1] # c => (d \in closed' <=> d \in closed)
      /\ \A d \in sent' : d \in sent \/ Made(d)
  BY <1>3 DEF CoreInv, StreamTypeOK
<1>5. ClientInv'
  <2>1. \A l \in Logs : l # c
    BY ProcessAssumption
  <2>2. /\ \A l \in Logs : LogClient(l)'
        /\ \A d \in Chats : d # c => ChatClient(d)'
    BY <1>1, <1>2, <1>4, <2>1, OtherClients DEF CoreInv
  <2>3. \A d \in sent' : Made(d)'
    BY <1>4 DEF CoreInv, ClientInv
  <2>4. QED
    BY <2>2, <2>3 DEF ClientInv
<1>6. ServeInv'
  BY <1>1, <1>4 DEF CoreInv, ServeInv
<1>7. StreamTypeOK' /\ DiscoveryTypeOK' /\ LogTypeOK' /\ ChatTypeOK'
  BY <1>1, <1>2, <1>4
     DEF CoreInv, StreamTypeOK, DiscoveryTypeOK, LogTypeOK, ChatTypeOK, ChatPoints
<1>8. QED
  BY <1>5, <1>6, <1>7 DEF CoreInv

(* connect, of a chat to the discovery server.                             *)
LEMMA ChatDialsCore ==
  ASSUME CoreInv, NEW c \in Chats, ChatDials(c), UNCHANGED discoveryVars,
         UNCHANGED logVars, UNCHANGED <<serving, gone>>, FaultTypeOK'
  PROVE  CoreInv'
<1>1. cpc[c] = "dial" /\ UNCHANGED <<list, chosen, sent, closed>>
  BY DEF ChatDials
<1>2. ChatClient(c) /\ \A d : ServerOf(d)' = ServerOf(d)
  BY <1>1 DEF CoreInv, ClientInv, ServerOf
<1>3. list' \in [Chats -> Tables] /\ chosen' \in [Chats -> Logs \union {NoLog}]
  BY <1>1 DEF CoreInv, ChatTypeOK
<1>4. \A k \in {"request", "chat"} : <<c, k>> \in Connections /\ <<c, k>>[1] = c
  BY Kinds
<1>5. CASE ChatGoes(c, "done") /\ UNCHANGED backlog
  <2>1. NetInv' /\ \A d \in Connections : Made(d)' <=> Made(d)
    BY <1>2, <1>5, NetStays DEF CoreInv, serverNet
  <2>2. cpc'[c] = "done" /\ "done" \in ChatPoints
    BY <1>5 DEF ChatGoes, CoreInv, ChatTypeOK, ChatPoints
  <2>3. ChatClient(c)'
    BY <2>2 DEF ChatClient
  <2>4. QED
    BY <1>1, <1>3, <1>5, <2>1, <2>2, <2>3, ChatStepCore
<1>6. CASE /\ Listening(Discovery) /\ Dial(<<c, "request">>, Discovery) /\ ChatGoes(c, "dialing")
  <2> DEFINE r == <<c, "request">>
  <2>1. r \in Connections /\ r[1] = c /\ r[2] = "request" /\ Discovery \in Servers /\ ~Made(r)
    BY <1>1, <1>2, Kinds DEF ChatClient
  <2>2. ServerOf(r)' = Discovery /\ Dial(r, Discovery)
    BY <1>6, <2>1 DEF ServerOf
  <2> HIDE DEF r
  <2>3. NetInv' /\ \A d \in Connections : Made(d)' <=> (Made(d) \/ d = r)
    BY <1>2, <2>1, <2>2, NetDialed DEF CoreInv
  <2>4. cpc'[c] = "dialing" /\ "dialing" \in ChatPoints
    BY <1>6 DEF ChatGoes, CoreInv, ChatTypeOK, ChatPoints
  <2>5. ChatClient(c)'
    <3>1. Made(<<c, "request">>)' /\ ~Made(<<c, "chat">>)'
      BY <1>1, <1>2, <1>4, <2>3 DEF ChatClient, r
    <3>2. QED
      BY <1>1, <1>2, <2>4, <3>1 DEF ChatClient
  <2>6. dpc # "exited"
    BY <1>6 DEF Listening
  <2>7. \A d \in Connections : d[1] # c => (Made(d)' <=> Made(d))
    BY <2>1, <2>3
  <2>8. \A d \in Connections : Made(d) => Made(d)'
    BY <2>3
  <2>9. QED
    BY <1>1, <1>3, <1>6, <2>3, <2>4, <2>5, <2>6, <2>7, <2>8, ChatStepCore
<1>7. QED
  BY <1>5, <1>6 DEF ChatDials

(* A chat connects to the log its user has chosen, or ends.                *)
LEMMA ChatChoosesCore ==
  ASSUME CoreInv, NEW c \in Chats, ChatChooses(c), UNCHANGED discoveryVars,
         UNCHANGED logVars, UNCHANGED <<serving, gone>>, FaultTypeOK'
  PROVE  CoreInv'
<1>1. cpc[c] = "choose" /\ UNCHANGED <<list, sent, closed>>
  BY DEF ChatChooses
<1>2. ChatClient(c)
  BY DEF CoreInv, ClientInv
<1>3. list' \in [Chats -> Tables] /\ chosen \in [Chats -> Logs \union {NoLog}]
  BY <1>1 DEF CoreInv, ChatTypeOK
<1>4. \A k \in {"request", "chat"} : <<c, k>> \in Connections /\ <<c, k>>[1] = c
  BY Kinds
<1>5. CASE ChatGoes(c, "done") /\ UNCHANGED <<backlog, chosen>>
  <2>1. NetInv' /\ \A d \in Connections : Made(d)' <=> Made(d)
    BY <1>5, NetStays DEF CoreInv, serverNet, ServerOf
  <2>2. cpc'[c] = "done" /\ "done" \in ChatPoints
    BY <1>5 DEF ChatGoes, CoreInv, ChatTypeOK, ChatPoints
  <2>3. ChatClient(c)'
    BY <2>2 DEF ChatClient
  <2>4. QED
    BY <1>1, <1>3, <1>5, <2>1, <2>2, <2>3, ChatStepCore
<1>6. ASSUME NEW l \in {list[c][s] : s \in Slots}, Used(l), Listening(l),
             Dial(<<c, "chat">>, l), chosen' = [chosen EXCEPT ![c] = l], ChatGoes(c, "typing")
      PROVE  CoreInv'
  <2> DEFINE r == <<c, "chat">>
  <2>1. l \in Logs /\ l \in Servers /\ l # Discovery
    <3>1. list[c] \in Tables
      BY DEF CoreInv, ChatTypeOK
    <3>2. l \in Logs \union {NoLog}
      BY <3>1 DEF Tables
    <3>3. QED
      BY <1>6, <3>2, Kinds DEF Used
  <2>2. /\ chosen' \in [Chats -> Logs \union {NoLog}] /\ chosen'[c] = l
        /\ \A d \in Chats : d # c => chosen'[d] = chosen[d]
    BY <1>3, <1>6, <2>1
  <2>3. r \in Connections /\ r[1] = c /\ r[2] = "chat" /\ ~Made(r)
    BY <1>1, <1>2, Kinds DEF ChatClient
  <2>4. ServerOf(r)' = l /\ Dial(r, l)
    BY <1>6, <2>2, <2>3 DEF ServerOf
  <2>5. ASSUME NEW d \in Connections, Made(d)
        PROVE  ServerOf(d)' = ServerOf(d)
    <3>1. d[2] = "chat" => d[1] \in Chats /\ d = <<d[1], "chat">>
      BY Kinds
    <3>2. d[2] = "chat" => d[1] # c
      BY <2>3, <2>5, <3>1
    <3>3. QED
      BY <2>2, <3>1, <3>2 DEF ServerOf
  <2> HIDE DEF r
  <2>6. NetInv' /\ (\A d \in Connections : Made(d)' <=> (Made(d) \/ d = r))
        /\ \A t \in Servers : t # l => backlog'[t] = backlog[t]
    BY <2>1, <2>3, <2>4, <2>5, NetDialed DEF CoreInv
  <2>7. cpc'[c] = "typing" /\ "typing" \in ChatPoints
    BY <1>6 DEF ChatGoes, CoreInv, ChatTypeOK, ChatPoints
  <2>8. ChatClient(c)'
    <3>1. Made(<<c, "chat">>)'
      BY <2>3, <2>6 DEF r
    <3>2. QED
      BY <1>1, <1>2, <2>7, <3>1 DEF ChatClient
  <2>9. \A d \in Connections : d[1] # c => (Made(d)' <=> Made(d))
    BY <2>3, <2>6
  <2>10. \A d \in Connections : Made(d) => Made(d)'
    BY <2>6
  <2>11. backlog'[Discovery] = backlog[Discovery]
    BY <2>1, <2>6, Kinds
  <2>12. QED
    BY <1>1, <1>3, <1>6, <2>2, <2>6, <2>7, <2>8, <2>9, <2>10, <2>11, ChatStepCore
<1>7. QED
  BY <1>5, <1>6 DEF ChatChooses

(* The other steps of a chat move no connection.                           *)
LEMMA ChatTalksCore ==
  ASSUME CoreInv, NEW c \in Chats,
         ChatRequests(c) \/ ChatReceives(c) \/ ChatSends(c) \/ KillChat(c),
         UNCHANGED discoveryVars, UNCHANGED logVars, UNCHANGED <<serving, gone>>, FaultTypeOK'
  PROVE  CoreInv'
<1>1. UNCHANGED <<backlog, chosen>> /\ UNCHANGED serverNet
  BY DEF ChatRequests, ChatReceives, ChatSends, KillChat, serverNet
<1>2. /\ NetInv' /\ \A d \in Connections : Made(d)' <=> Made(d)
      /\ chosen' \in [Chats -> Logs \union {NoLog}]
  BY <1>1, NetStays DEF CoreInv, ServerOf, ChatTypeOK
<1>3. ChatClient(c) /\ cpc \in [Chats -> ChatPoints] /\ list \in [Chats -> Tables]
  BY DEF CoreInv, ClientInv, ChatTypeOK, ChatPoints
<1>4. \A k \in {"request", "chat"} : <<c, k>> \in Connections /\ <<c, k>>[1] = c
  BY Kinds
<1>5. {"done", "await", "choose"} \subseteq ChatPoints
  BY DEF ChatPoints
<1>6. CASE ChatRequests(c)
  <2>1. /\ cpc[c] = "dialing" /\ UNCHANGED <<list, closed>>
        /\ \/ ChatGoes(c, "done") /\ sent' = sent
           \/ ChatGoes(c, "await") /\ sent' = sent \union {<<c, "request">>}
    BY <1>6 DEF ChatRequests
  <2>2. Made(<<c, "request">>)
    BY <1>3, <2>1 DEF ChatClient
  <2>3. \/ ChatGoes(c, "done") /\ cpc'[c] = "done"
        \/ ChatGoes(c, "await") /\ cpc'[c] = "await"
    BY <1>3, <2>1 DEF ChatGoes
  <2>4. ChatClient(c)'
    BY <1>1, <1>2, <1>3, <1>4, <2>1, <2>3 DEF ChatClient
  <2>5. list' \in [Chats -> Tables]
    BY <1>3, <2>1
  <2>6. QED
    BY <1>1, <1>2, <1>5, <2>1, <2>2, <2>4, <2>5, ChatStepCore
<1>7. CASE ChatReceives(c)
  <2>1. /\ cpc[c] = "await" /\ sent' = sent /\ closed' = closed \union {<<c, "request">>}
        /\ \E to \in {"choose", "done"} : ChatGoes(c, to)
        /\ list' = list \/ list' = [list EXCEPT ![c] = reply[c].table]
    BY <1>7 DEF ChatReceives
  <2>2. PICK to \in {"choose", "done"} : ChatGoes(c, to)
    BY <2>1
  <2>3. cpc'[c] = to
    BY <1>3, <2>2 DEF ChatGoes
  <2>4. ChatClient(c)'
    BY <1>1, <1>2, <1>3, <1>4, <2>1, <2>3 DEF ChatClient
  <2>5. list' \in [Chats -> Tables]
    <3>1. reply[c].table \in Tables
      BY DEF CoreInv, DiscoveryTypeOK
    <3>2. QED
      BY <1>3, <2>1, <3>1
  <2>6. QED
    BY <1>1, <1>2, <1>5, <2>1, <2>2, <2>4, <2>5, ChatStepCore
<1>8. CASE ChatSends(c)
  <2>1. /\ cpc[c] = "typing" /\ ChatGoes(c, "done") /\ list' = list
        /\ sent' = sent \/ sent' = sent \union {<<c, "chat">>}
        /\ closed' = closed \union {<<c, "chat">>}
    BY <1>8 DEF ChatSends
  <2>2. Made(<<c, "chat">>)
    BY <1>3, <2>1 DEF ChatClient
  <2>3. cpc'[c] = "done"
    BY <1>3, <2>1 DEF ChatGoes
  <2>4. ChatClient(c)'
    BY <2>3 DEF ChatClient
  <2>5. list' \in [Chats -> Tables]
    BY <1>3, <2>1
  <2>6. QED
    BY <1>1, <1>2, <1>5, <2>1, <2>2, <2>4, <2>5, ChatStepCore
<1>9. CASE KillChat(c)
  <2>1. /\ ChatGoes(c, "done") /\ list' = list /\ sent' = sent
        /\ closed' = closed \/ \E k \in {"request", "chat"} : closed' = closed \union {<<c, k>>}
    BY <1>9 DEF KillChat
  <2>2. cpc'[c] = "done"
    BY <1>3, <2>1 DEF ChatGoes
  <2>3. ChatClient(c)'
    BY <2>2 DEF ChatClient
  <2>4. list' \in [Chats -> Tables]
    BY <1>3, <2>1
  <2>5. QED
    BY <1>1, <1>2, <1>5, <2>1, <2>3, <2>4, ChatStepCore
<1>10. QED
  BY <1>6, <1>7, <1>8, <1>9

(* The steps of chat.c.                                                    *)
LEMMA ChatCore ==
  ASSUME CoreInv, NEW c \in Chats, ChatStep(c)
  PROVE  CoreInv'
<1>1. /\ UNCHANGED discoveryVars /\ UNCHANGED logVars /\ UNCHANGED <<serving, gone>>
      /\ UNCHANGED <<ctrl_c, world, stopped, signals, restarts>>
  BY DEF ChatStep, faultVars
<1>2. FaultTypeOK'
  BY <1>1 DEF CoreInv, FaultTypeOK
<1>3. QED
  BY <1>1, <1>2, ChatDialsCore, ChatChoosesCore, ChatTalksCore DEF ChatStep

(* Signals, crashes and restarts.                                          *)
LEMMA FaultCore ==
  ASSUME CoreInv, Signal \/ RestartDiscovery
  PROVE  CoreInv'
<1>1. FaultTypeOK'
  <2>1. CASE Signal
    <3>1. world' = world /\ signals' \in 0..world.signals /\ restarts' = restarts
      <4>1. world.signals \in Nat
        BY WorldAssumption DEF CoreInv, FaultTypeOK
      <4>2. QED
        BY <2>1, <4>1 DEF Signal, CoreInv, FaultTypeOK
    <3>2. ctrl_c' \in [Servers -> BOOLEAN] /\ stopped' \subseteq Servers
      BY <2>1, Kinds DEF Signal, StopServer, InterruptLog, KillChat, CrashDiscovery, Press,
                         CoreInv, FaultTypeOK
    <3>3. QED
      BY <3>1, <3>2 DEF CoreInv, FaultTypeOK
  <2>2. CASE RestartDiscovery
    <3>1. world' = world /\ restarts' \in 0..world.restarts /\ signals' = signals
      <4>1. world.restarts \in Nat
        BY WorldAssumption DEF CoreInv, FaultTypeOK
      <4>2. QED
        BY <2>2, <4>1 DEF RestartDiscovery, CoreInv, FaultTypeOK
    <3>2. ctrl_c' \in [Servers -> BOOLEAN] /\ stopped' \subseteq Servers
      BY <2>2, Kinds DEF RestartDiscovery, CoreInv, FaultTypeOK
    <3>3. QED
      BY <3>1, <3>2 DEF CoreInv, FaultTypeOK
  <2>3. QED
    BY <2>1, <2>2
<1>2. ASSUME NEW s \in Servers, StopServer(s)
      PROVE  CoreInv'
  <2>1. /\ UNCHANGED <<chatters, dpc, reply, handled, lpc, printed, cpc, list, chosen, sent, closed>>
        /\ UNCHANGED <<backlog, serving, gone>> /\ UNCHANGED serverNet
    BY <1>2 DEF StopServer, discoveryVars, logVars, chatVars, netVars, serverNet
  <2>2. NetInv' /\ \A d \in Connections : Made(d)' <=> Made(d)
    BY <2>1, NetStays DEF CoreInv, ServerOf
  <2>3. ClientInv'
    BY <2>1, <2>2, ClientsStay
  <2>4. ServeInv'
    BY <2>1 DEF CoreInv, ServeInv
  <2>5. StreamTypeOK' /\ DiscoveryTypeOK' /\ LogTypeOK' /\ ChatTypeOK'
    BY <2>1 DEF CoreInv, StreamTypeOK, DiscoveryTypeOK, LogTypeOK, ChatTypeOK
  <2>6. QED
    BY <1>1, <2>2, <2>3, <2>4, <2>5 DEF CoreInv
<1>3. ASSUME NEW l \in Logs, InterruptLog(l)
      PROVE  CoreInv'
  <2>1. LogExits(l) /\ UNCHANGED discoveryVars /\ UNCHANGED chatVars /\ UNCHANGED <<printed, sent>>
    BY <1>3 DEF InterruptLog
  <2>2. QED
    BY <1>1, <2>1, LogExitCore
<1>4. ASSUME NEW c \in Chats, KillChat(c)
      PROVE  CoreInv'
  <2>1. UNCHANGED discoveryVars /\ UNCHANGED logVars /\ UNCHANGED <<serving, gone>>
    BY <1>4 DEF KillChat, serverNet
  <2>2. QED
    BY <1>1, <1>4, <2>1, ChatTalksCore
<1>5. CASE CrashDiscovery
  BY <1>1, <1>5, DiscoveryExitCore DEF CrashDiscovery
<1>6. CASE RestartDiscovery
  <2>1. /\ dpc = "exited" /\ dpc' = "accept" /\ chatters' = NoTable /\ handled' = {}
        /\ UNCHANGED <<reply, lpc, printed, cpc, list, chosen, sent, closed>>
        /\ UNCHANGED <<backlog, serving, gone>> /\ UNCHANGED serverNet
    BY <1>6 DEF RestartDiscovery, logVars, chatVars, netVars, serverNet
  <2>2. NetInv' /\ \A d \in Connections : Made(d)' <=> Made(d)
    BY <2>1, NetStays DEF CoreInv, ServerOf
  <2>3. ClientInv'
    BY <2>1, <2>2, ClientsStay
  <2>4. ServeInv'
    BY <2>1 DEF CoreInv, ServeInv
  <2>5. StreamTypeOK' /\ DiscoveryTypeOK' /\ LogTypeOK' /\ ChatTypeOK'
    BY <2>1 DEF CoreInv, StreamTypeOK, DiscoveryTypeOK, LogTypeOK, ChatTypeOK, NoTable, Tables
  <2>6. QED
    BY <1>1, <2>2, <2>3, <2>4, <2>5 DEF CoreInv
<1>7. QED
  BY <1>2, <1>3, <1>4, <1>5, <1>6 DEF Signal

(* Every step keeps the connections and their two ends in agreement.       *)
LEMMA CoreStep == CoreInv /\ [Next]_vars => CoreInv'
<1> SUFFICES ASSUME CoreInv, [Next]_vars
             PROVE  CoreInv'
  OBVIOUS
<1>1. CASE UNCHANGED vars
  <2>1. /\ UNCHANGED <<chatters, dpc, reply, handled, lpc, printed, cpc, list, chosen, sent, closed>>
        /\ UNCHANGED <<backlog, serving, gone>> /\ UNCHANGED serverNet
        /\ UNCHANGED <<ctrl_c, world, stopped, signals, restarts>>
    BY <1>1 DEF vars, discoveryVars, logVars, chatVars, netVars, serverNet, faultVars
  <2>2. NetInv' /\ \A d \in Connections : Made(d)' <=> Made(d)
    BY <2>1, NetStays DEF CoreInv, ServerOf
  <2>3. ClientInv'
    BY <2>1, <2>2, ClientsStay
  <2>4. ServeInv'
    BY <2>1 DEF CoreInv, ServeInv
  <2>5. StreamTypeOK' /\ DiscoveryTypeOK' /\ LogTypeOK' /\ ChatTypeOK' /\ FaultTypeOK'
    BY <2>1 DEF CoreInv, StreamTypeOK, DiscoveryTypeOK, LogTypeOK, ChatTypeOK, FaultTypeOK
  <2>6. QED
    BY <2>2, <2>3, <2>4, <2>5 DEF CoreInv
<1>2. QED
  BY <1>1, DiscoveryCore, LogCore, ChatCore, FaultCore DEF Next

(* They agree when nobody is connected.                                    *)
LEMMA CoreStarts == Init => CoreInv
<1> SUFFICES ASSUME Init
             PROVE  CoreInv
  OBVIOUS
<1>1. \A s \in Servers : /\ backlog[s] = <<>> /\ serving[s] = NoConnection /\ Elements(backlog[s]) = {}
                         /\ Len(backlog[s]) = 0 /\ Pending(s) = {}
  <2>1. \A s \in Servers : backlog[s] = <<>> /\ serving[s] = NoConnection
    BY DEF Init
  <2>2. QED
    BY <2>1, PendingIs DEF Elements
<1>2. gone = {} /\ sent = {} /\ closed = {} /\ \A d : ~Made(d)
  <2>1. gone = {} /\ sent = {} /\ closed = {}
    BY DEF Init
  <2>2. QED
    BY <1>1, <2>1 DEF Made
<1>3. NetInv
  <2>1. NetTypeOK
    BY DEF Init, NetTypeOK
  <2>2. PlaceInv
    BY <1>1 DEF PlaceInv
  <2>3. OrderInv
    <3>1. Discovery \in Servers /\ Pending(Discovery) = {} /\ Len(backlog[Discovery]) = 0
      BY <1>1, Kinds
    <3>2. \A i \in 1..Len(backlog[Discovery]) : FALSE
      BY <3>1
    <3>3. QED
      BY <3>1, <3>2 DEF OrderInv
  <2>4. QED
    BY <2>1, <2>2, <2>3 DEF NetInv
<1>4. ClientInv
  <2>1. \A l \in Logs : lpc[l] = <<"boot", "listen">>
    BY DEF Init
  <2>2. \A c \in Chats : cpc[c] = "dial" /\ chosen[c] = NoLog
    BY DEF Init
  <2>3. \A l \in Logs : LogClient(l)
    BY <1>2, <2>1 DEF LogClient
  <2>4. \A c \in Chats : ChatClient(c)
    BY <1>2, <2>2 DEF ChatClient
  <2>5. QED
    BY <1>2, <2>3, <2>4 DEF ClientInv
<1>5. ServeInv
  <2>1. dpc = "accept" /\ \A l \in Logs : lpc[l] = <<"boot", "listen">>
    BY DEF Init
  <2>2. QED
    BY <1>1, <2>1, Kinds DEF ServeInv
<1>6. StreamTypeOK /\ DiscoveryTypeOK /\ LogTypeOK /\ ChatTypeOK
  BY LogCalls DEF Init, StreamTypeOK, DiscoveryTypeOK, LogTypeOK, ChatTypeOK, NoTable, Tables
<1>7. FaultTypeOK
  BY WorldAssumption DEF Init, FaultTypeOK
<1>8. QED
  BY <1>3, <1>4, <1>5, <1>6, <1>7 DEF CoreInv

(* So they always do.                                                      *)
LEMMA CoreInvariant == Spec => []CoreInv
<1>1. QED
  BY CoreStarts, CoreStep, PTL DEF Spec

(* Every variable of the three programs and of the connections between     *)
(* them keeps its type: so the table keeps its NumSlots entries, and no    *)
(* more signals or restarts happen than the circumstances allow.           *)
THEOREM ChatTypeCorrect == Spec => []TypeOK
<1>1. CoreInv => TypeOK
  BY DEF CoreInv, NetInv, NetTypeOK, StreamTypeOK, DiscoveryTypeOK, LogTypeOK,
         ChatTypeOK, FaultTypeOK, TypeOK
<1>2. QED
  BY <1>1, CoreInvariant, PTL

-----------------------------------------------------------------------------
(* What a step may do                                                      *)

(* What a log closes when it exits.                                        *)
LEMMA LogExitFrame ==
  ASSUME NEW l \in Logs, LogExits(l)
  PROVE  /\ closed \subseteq closed' /\ gone' = gone \union Pending(l)
  BY DEF LogExits, CloseServer

(* A step of a log changes nothing of the other programs; nothing sent or  *)
(* closed is taken back.                                                   *)
LEMMA LogStepFrame ==
  ASSUME NEW l \in Logs, LogStep(l)
  PROVE  /\ UNCHANGED <<chatters, dpc, reply, handled, cpc, list, chosen, world, stopped,
                        signals, restarts>>
         /\ closed \subseteq closed' /\ gone \subseteq gone' /\ sent \subseteq sent'
<1>1. UNCHANGED <<chatters, dpc, reply, handled, cpc, list, chosen, world, stopped, signals, restarts>>
  BY DEF LogStep, discoveryVars, chatVars, faultVars
<1>2. CASE StartLog(l)
  BY <1>1, <1>2 DEF StartLog, netVars, serverNet
<1>3. CASE \E what \in {"register", "deregister"} :
             LogDials(l, what) \/ LogConnects(l, what) \/ LogSends(l, what)
  BY <1>1, <1>3, LogExitFrame DEF LogDials, LogConnects, LogSends, serverNet
<1>4. CASE LogAccepts(l) \/ LogTests(l)
  BY <1>1, <1>4 DEF LogAccepts, LogTests
<1>5. CASE LogReceives(l)
  BY <1>1, <1>5, LogExitFrame DEF LogReceives, CloseServed, serverNet
<1>6. QED
  BY <1>2, <1>3, <1>4, <1>5 DEF LogStep

(* A step of a chat changes nothing of the servers but their backlogs.     *)
LEMMA ChatStepFrame ==
  ASSUME NEW c \in Chats, ChatStep(c)
  PROVE  /\ UNCHANGED <<chatters, dpc, reply, handled, lpc, printed, serving, gone, ctrl_c,
                        world, stopped, signals, restarts>>
         /\ closed \subseteq closed' /\ sent \subseteq sent'
  BY DEF ChatStep, discoveryVars, logVars, faultVars, ChatDials, ChatRequests, ChatReceives,
         ChatChooses, ChatSends

(* A step of the discovery server changes its table, a reply or what it    *)
(* has handled only when it handles a message.                             *)
LEMMA DiscoveryStepFrame ==
  ASSUME DiscoveryStep
  PROVE  /\ UNCHANGED <<lpc, printed, cpc, list, chosen, sent, closed, ctrl_c, world, stopped,
                        signals, restarts>>
         /\ gone \subseteq gone'
         /\ DiscoveryHandles \/ UNCHANGED <<chatters, reply, handled>>
<1>1. /\ UNCHANGED <<lpc, printed, cpc, list, chosen, sent, closed, ctrl_c, world, stopped,
                     signals, restarts>>
      /\ DiscoveryHandles \/ UNCHANGED <<chatters, reply, handled>>
  BY DEF DiscoveryStep, logVars, chatVars, faultVars
<1>2. gone \subseteq gone'
  BY DEF DiscoveryStep, DiscoveryAccepts, DiscoveryTests, DiscoveryReceives, DiscoveryHandles,
         DiscoveryExits, CloseServer, CloseServed, serverNet
<1>3. QED
  BY <1>1, <1>2

(* A signal or a crash sends and handles nothing.                          *)
LEMMA SignalFrame ==
  ASSUME Signal
  PROVE  /\ UNCHANGED <<chatters, reply, handled, printed, list, chosen, sent, restarts, world>>
         /\ signals' = signals + 1
         /\ closed \subseteq closed' /\ gone \subseteq gone' /\ stopped \subseteq stopped'
<1>1. UNCHANGED <<restarts, world>> /\ signals' = signals + 1
  BY DEF Signal
<1>2. CASE \E s \in Servers : StopServer(s)
  BY <1>1, <1>2 DEF StopServer, Press, discoveryVars, logVars, chatVars, netVars, serverNet
<1>3. CASE \E l \in Logs : InterruptLog(l)
  BY <1>1, <1>3, LogExitFrame DEF InterruptLog, Press, discoveryVars, chatVars
<1>4. CASE \E c \in Chats : KillChat(c)
  BY <1>1, <1>4 DEF KillChat, discoveryVars, logVars, serverNet
<1>5. CASE CrashDiscovery
  BY <1>1, <1>5 DEF CrashDiscovery, DiscoveryExits, CloseServer, logVars, chatVars
<1>6. QED
  BY <1>2, <1>3, <1>4, <1>5 DEF Signal

(* A new start of the discovery server leaves the connections and the      *)
(* other programs alone.                                                   *)
LEMMA RestartFrame ==
  ASSUME RestartDiscovery
  PROVE  UNCHANGED <<reply, lpc, printed, cpc, list, chosen, backlog, serving, gone, sent, closed,
                     signals, world>>
  BY DEF RestartDiscovery, logVars, chatVars, netVars, serverNet

(* A stuttering step changes nothing.                                      *)
LEMMA StutterFrame ==
  ASSUME UNCHANGED vars
  PROVE  UNCHANGED <<chatters, dpc, reply, handled, lpc, printed, cpc, list, chosen, backlog,
                     serving, gone, sent, closed, ctrl_c, world, stopped, signals, restarts>>
  BY DEF vars, discoveryVars, logVars, chatVars, netVars, serverNet, faultVars

(* Messages and connections are never forgotten, and the table changes only *)
(* when the discovery server handles a message or is started again.        *)
LEMMA Grows ==
  ASSUME [Next]_vars
  PROVE  /\ world' = world /\ closed \subseteq closed' /\ gone \subseteq gone' /\ sent \subseteq sent'
         /\ DiscoveryHandles \/ RestartDiscovery \/ UNCHANGED <<chatters, reply, handled>>
         /\ \/ RestartDiscovery
            \/ restarts' = restarts /\ stopped \subseteq stopped'
<1>1. CASE DiscoveryStep
  BY <1>1, DiscoveryStepFrame
<1>2. CASE \E l \in Logs : LogStep(l)
  BY <1>2, LogStepFrame
<1>3. CASE \E c \in Chats : ChatStep(c)
  BY <1>3, ChatStepFrame
<1>4. CASE Signal
  BY <1>4, SignalFrame
<1>5. CASE RestartDiscovery
  BY <1>5, RestartFrame
<1>6. CASE UNCHANGED vars
  BY <1>6, StutterFrame
<1>7. QED
  BY <1>1, <1>2, <1>3, <1>4, <1>5, <1>6 DEF Next

(* A message is sent only by a client that is there, on an open connection. *)
LEMMA SendsOpen ==
  ASSUME CoreInv, [Next]_vars, NEW c \in sent', c \notin sent
  PROVE  /\ c \in Connections /\ c \notin closed
         /\ c[1] \in Logs => lpc[c[1]] = <<c[2], "send">>
<1>1. \/ \E l \in Logs : LogStep(l)
      \/ \E x \in Chats : ChatStep(x)
  BY DiscoveryStepFrame, SignalFrame, RestartFrame, StutterFrame DEF Next
<1>2. ASSUME NEW l \in Logs, LogStep(l)
      PROVE  /\ c \in Connections /\ c \notin closed
             /\ c[1] \in Logs => lpc[c[1]] = <<c[2], "send">>
  <2>1. PICK what \in {"register", "deregister"} : LogSends(l, what)
    BY <1>2 DEF LogStep, StartLog, LogAccepts, LogTests, LogReceives, LogDials, LogConnects,
                netVars
  <2>2. c = <<l, what>> /\ lpc[l] = <<what, "send">>
    BY <2>1 DEF LogSends, At
  <2>3. lpc[l][1] = what /\ LogClient(l)
    BY <2>2 DEF CoreInv, ClientInv
  <2>4. <<l, what>> \notin closed /\ <<l, what>> \in Connections
    BY <2>3, Kinds DEF LogClient
  <2>5. c[1] \in Logs => lpc[c[1]] = <<c[2], "send">>
    BY <2>2
  <2>6. QED
    BY <2>2, <2>4, <2>5
<1>3. ASSUME NEW x \in Chats, ChatStep(x)
      PROVE  /\ c \in Connections /\ c \notin closed /\ c[1] \notin Logs
  <2>1. \/ cpc[x] = "dialing" /\ c = <<x, "request">>
        \/ cpc[x] = "typing" /\ c = <<x, "chat">>
    BY <1>3 DEF ChatStep, ChatDials, ChatRequests, ChatReceives, ChatChooses, ChatSends
  <2>2. ChatClient(x) /\ x \notin Logs
    BY ProcessAssumption DEF CoreInv, ClientInv
  <2>3. QED
    BY <2>1, <2>2, Kinds DEF ChatClient
<1>4. QED
  BY <1>1, <1>2, <1>3

(* What was once closed without a message stays so.                        *)
LEMMA UnheardStays ==
  ASSUME CoreInv, [Next]_vars
  PROVE  closed \ sent \subseteq closed' \ sent'
  BY Grows, SendsOpen

(* What the discovery server handles, it serves: it was sent, and is       *)
(* closed now and for the first time.                                      *)
LEMMA HandlesIs ==
  ASSUME CoreInv, DiscoveryHandles
  PROVE  /\ serving[Discovery] \in Connections /\ serving[Discovery] \in sent
         /\ serving[Discovery] \in Pending(Discovery) /\ serving[Discovery] \notin gone
         /\ serving[Discovery] \in gone' /\ dpc' = "accept"
         /\ gone' = gone \union {serving[Discovery]}
         /\ handled' = handled \union {serving[Discovery]}
         /\ serving[Discovery] = <<serving[Discovery][1], serving[Discovery][2]>>
<1>1. dpc = "handle" /\ dpc' = "accept" /\ handled' = handled \union {serving[Discovery]}
      /\ gone' = gone \union {serving[Discovery]}
  BY DEF DiscoveryHandles, CloseServed
<1>2. serving[Discovery] \in sent /\ serving[Discovery] # NoConnection
  BY <1>1 DEF CoreInv, ServeInv
<1>3. serving[Discovery] \in Connections
  BY <1>2 DEF CoreInv, StreamTypeOK
<1>4. serving[Discovery] \in Pending(Discovery)
  BY <1>2, PendingIs, Kinds
<1>5. serving[Discovery] \notin gone
  BY <1>4, Kinds DEF CoreInv, NetInv, PlaceInv
<1>6. QED
  BY <1>1, <1>2, <1>3, <1>4, <1>5, Kinds

(* What was carried out was sent and is over: every step keeps this.       *)
LEMMA HandledStep == CoreInv /\ HandledInv /\ [Next]_vars => HandledInv'
<1> SUFFICES ASSUME CoreInv, HandledInv, [Next]_vars
             PROVE  HandledInv'
  OBVIOUS
<1>1. CASE DiscoveryHandles
  BY <1>1, HandlesIs, Grows DEF HandledInv
<1>2. CASE RestartDiscovery
  BY <1>2 DEF RestartDiscovery, HandledInv
<1>3. CASE UNCHANGED <<chatters, reply, handled>>
  BY <1>3, Grows DEF HandledInv
<1>4. QED
  BY <1>1, <1>2, <1>3, Grows

(* The table lists only the registered, and each once: every step keeps    *)
(* this, because no registration is handled twice.                         *)
LEMMA TableStep == CoreInv /\ HandledInv /\ TableInv /\ [Next]_vars => TableInv'
<1> SUFFICES ASSUME CoreInv, HandledInv, TableInv, [Next]_vars
             PROVE  TableInv'
  OBVIOUS
<1>1. chatters \in [Slots -> Logs \union {NoLog}]
  BY DEF CoreInv, DiscoveryTypeOK, Tables
<1>2. CASE DiscoveryHandles
  <2> DEFINE c == serving[Discovery]
  <2>1. /\ c = <<c[1], c[2]>> /\ c \notin gone /\ handled' = handled \union {c}
        /\ handled \subseteq gone
    BY <1>2, HandlesIs DEF HandledInv
  <2>2. \/ c[2] = "register" /\ Store(FreeSlots, c[1])
        \/ c[2] = "deregister" /\ Store(Same(c[1]), NoLog)
        \/ chatters' = chatters
    BY <1>2 DEF DiscoveryHandles, handle_register, handle_deregister
  <2>3. CASE chatters' = chatters
    BY <2>1, <2>3 DEF TableInv
  <2>4. CASE \E x : chatters' = [chatters EXCEPT ![x] = NoLog]
    BY <1>1, <2>1, <2>4 DEF TableInv
  <2>5. ASSUME c[2] = "register", NEW x, chatters' = [chatters EXCEPT ![x] = c[1]]
        PROVE  TableInv'
    <3>1. <<c[1], "register">> \in handled' /\ <<c[1], "register">> \notin handled
      BY <2>1, <2>5
    <3>2. \A s \in Slots : chatters[s] # c[1] \/ c[1] = NoLog
      BY <3>1 DEF TableInv
    <3>3. \A s \in Slots : chatters'[s] = IF s = x THEN c[1] ELSE chatters[s]
      BY <1>1, <2>5
    <3>4. QED
      BY <2>1, <3>1, <3>2, <3>3 DEF TableInv
  <2>6. QED
    BY <2>2, <2>3, <2>4, <2>5 DEF Store
<1>3. CASE RestartDiscovery
  BY <1>3 DEF RestartDiscovery, NoTable, TableInv
<1>4. CASE UNCHANGED <<chatters, reply, handled>>
  BY <1>4 DEF TableInv
<1>5. QED
  BY <1>2, <1>3, <1>4, Grows

(* What becomes of the copies of the table.                                *)
LEMMA CopyMoves ==
  ASSUME CoreInv, [Next]_vars, NEW c \in Chats
  PROVE  /\ \/ list'[c] = list[c]
            \/ reply[c].sent /\ list'[c] = reply[c].table
         /\ \/ chosen'[c] = chosen[c]
            \/ \E l \in Logs, s \in Slots :
                 /\ chosen'[c] = l /\ list[c][s] = l /\ Used(l)
                 /\ cpc[c] = "choose" /\ chosen[c] = NoLog
<1>1. \/ UNCHANGED <<list, chosen>>
      \/ \E x \in Chats : ChatStep(x)
  BY DiscoveryStepFrame, LogStepFrame, SignalFrame, RestartFrame, StutterFrame DEF Next
<1>2. ASSUME NEW x \in Chats, ChatStep(x)
      PROVE  /\ \/ list'[c] = list[c]
                \/ reply[c].sent /\ list'[c] = reply[c].table
             /\ \/ chosen'[c] = chosen[c]
                \/ \E l \in Logs, s \in Slots :
                     /\ chosen'[c] = l /\ list[c][s] = l /\ Used(l)
                     /\ cpc[c] = "choose" /\ chosen[c] = NoLog
  <2>1. list \in [Chats -> Tables] /\ chosen \in [Chats -> Logs \union {NoLog}]
    BY DEF CoreInv, ChatTypeOK
  <2>2. CASE ChatDials(x) \/ ChatRequests(x) \/ ChatSends(x)
    BY <2>2 DEF ChatDials, ChatRequests, ChatSends
  <2>3. CASE ChatReceives(x)
    BY <2>1, <2>3 DEF ChatReceives
  <2>4. CASE ChatChooses(x)
    <3>1. list' = list /\ cpc[x] = "choose" /\ chosen[x] = NoLog
      BY <2>4 DEF ChatChooses, CoreInv, ClientInv, ChatClient
    <3>2. CASE UNCHANGED chosen
      BY <3>1, <3>2
    <3>3. ASSUME NEW s \in Slots, Used(list[x][s]), chosen' = [chosen EXCEPT ![x] = list[x][s]]
          PROVE  \/ chosen'[c] = chosen[c]
                 \/ \E l \in Logs, t \in Slots :
                      /\ chosen'[c] = l /\ list[c][t] = l /\ Used(l)
                      /\ cpc[c] = "choose" /\ chosen[c] = NoLog
      <4>1. list[x][s] \in Logs
        BY <2>1, <3>3 DEF Tables, Used
      <4>2. CASE c = x
        <5>1. chosen'[c] = list[c][s]
          BY <2>1, <3>3, <4>2
        <5>2. QED
          BY <3>1, <3>3, <4>1, <4>2, <5>1
      <4>3. CASE c # x
        BY <2>1, <3>3, <4>3
      <4>4. QED
        BY <4>2, <4>3
    <3>4. QED
      BY <2>4, <3>1, <3>2, <3>3 DEF ChatChooses
  <2>5. QED
    BY <1>2, <2>2, <2>3, <2>4 DEF ChatStep
<1>3. QED
  BY <1>1, <1>2

(* What a log prints, it prints of the connection it serves.               *)
LEMMA Prints ==
  ASSUME CoreInv, [Next]_vars, printed' # printed
  PROVE  \E l \in Logs, c \in Chats :
           /\ LogReceives(l) /\ LogStep(l) /\ serving[l] = <<c, "chat">> /\ chosen[c] = l
           /\ printed' = Append(printed, <<l, c>>)
           /\ <<c, "chat">> \notin gone /\ <<c, "chat">> \in gone'
<1>1. \E l \in Logs : LogStep(l)
  BY DiscoveryStepFrame, ChatStepFrame, SignalFrame, RestartFrame, StutterFrame DEF Next
<1>2. PICK l \in Logs : LogStep(l)
  BY <1>1
<1>3. LogReceives(l)
  BY <1>2 DEF LogStep, StartLog, LogAccepts, LogTests, LogDials, LogConnects, LogSends
<1>4. /\ printed' = Append(printed, <<l, serving[l][1]>>) /\ lpc[l] = <<"serve", "recv">>
      /\ gone' = gone \union {serving[l]}
  BY <1>3 DEF LogReceives, CloseServed, At
<1>5. serving[l] # NoConnection /\ l \in Servers /\ l # Discovery
  BY <1>4, Kinds DEF CoreInv, ServeInv
<1>6. serving[l] \in Pending(l) /\ serving[l] \in Connections
  BY <1>5, PendingIs, PendingTypes DEF CoreInv, NetInv
<1>7. serving[l] \notin gone /\ ServerOf(serving[l]) = l
  BY <1>5, <1>6 DEF CoreInv, NetInv, PlaceInv
<1>8. serving[l][2] = "chat" /\ chosen[serving[l][1]] = l
  BY <1>5, <1>7 DEF ServerOf
<1>9. serving[l] = <<serving[l][1], "chat">> /\ serving[l][1] \in Chats
  BY <1>6, <1>8, Kinds
<1>10. QED
  BY <1>2, <1>3, <1>4, <1>7, <1>8, <1>9

(* What the chats were sent, copied and chose was in the table: every step *)
(* keeps this, because a chat is replied to once.                          *)
LEMMA CopyStep ==
  CoreInv /\ HandledInv /\ TableInv /\ CopyInv /\ [Next]_vars => CopyInv'
<1> SUFFICES ASSUME CoreInv, HandledInv, TableInv, CopyInv, [Next]_vars
             PROVE  CopyInv'
  OBVIOUS
<1>1. /\ reply \in [Chats -> [sent : BOOLEAN, table : Tables]]
      /\ printed \in Seq(Logs \X Chats) /\ chatters \in Tables
  BY DEF CoreInv, DiscoveryTypeOK, LogTypeOK
<1>2. ASSUME NEW c \in Chats
      PROVE  \/ reply'[c] = reply[c]
             \/ /\ reply'[c] = [sent |-> TRUE, table |-> chatters] /\ ~reply[c].sent
                /\ <<c, "request">> \in gone'
  <2>1. CASE DiscoveryHandles
    <3> DEFINE d == serving[Discovery]
    <3>1. d = <<d[1], d[2]>> /\ d \notin gone /\ d \in gone'
      BY <2>1, HandlesIs
    <3>2. \/ reply' = reply
          \/ d[2] = "request" /\ reply' = [reply EXCEPT ![d[1]] = [sent |-> TRUE, table |-> chatters]]
      BY <2>1 DEF DiscoveryHandles, handle_request
    <3>3. CASE reply' = reply
      BY <3>3
    <3>4. CASE /\ d[2] = "request"
               /\ reply' = [reply EXCEPT ![d[1]] = [sent |-> TRUE, table |-> chatters]]
      <4>1. CASE d[1] = c
        <5>1. d = <<c, "request">>
          BY <3>1, <3>4, <4>1
        <5>2. ~reply[c].sent
          BY <3>1, <5>1 DEF CopyInv
        <5>3. reply'[c] = [sent |-> TRUE, table |-> chatters]
          BY <1>1, <3>4, <4>1
        <5>4. QED
          BY <3>1, <5>1, <5>2, <5>3
      <4>2. CASE d[1] # c
        BY <1>1, <3>4, <4>2
      <4>3. QED
        BY <4>1, <4>2
    <3>5. QED
      BY <3>2, <3>3, <3>4
  <2>2. reply' = reply \/ DiscoveryHandles
    BY Grows, RestartFrame
  <2>3. QED
    BY <2>1, <2>2
<1>3. \A s \in Slots : chatters[s] # NoLog => <<chatters[s], "register">> \in sent
  BY DEF TableInv, HandledInv
<1>4. ASSUME NEW c \in Chats
      PROVE  /\ reply'[c].sent => <<c, "request">> \in gone'
             /\ \A s \in Slots : reply'[c].table[s] # NoLog =>
                  <<reply'[c].table[s], "register">> \in sent'
             /\ list'[c] # NoTable => reply'[c].sent /\ list'[c] = reply'[c].table
             /\ chosen'[c] # NoLog => reply'[c].sent /\ chosen'[c] \in Listed(reply[c].table)'
  <2>1. /\ reply[c].sent => <<c, "request">> \in gone
        /\ \A s \in Slots : reply[c].table[s] # NoLog => <<reply[c].table[s], "register">> \in sent
        /\ list[c] # NoTable => reply[c].sent /\ list[c] = reply[c].table
        /\ chosen[c] # NoLog => reply[c].sent /\ chosen[c] \in Listed(reply[c].table)
    BY DEF CopyInv
  <2>2. \/ list'[c] = list[c]
        \/ reply[c].sent /\ list'[c] = reply[c].table
    BY CopyMoves
  <2>3. /\ reply'[c].sent => <<c, "request">> \in gone'
        /\ \A s \in Slots : reply'[c].table[s] # NoLog =>
             <<reply'[c].table[s], "register">> \in sent'
    BY <1>2, <1>3, <2>1, Grows
  <2>4. list'[c] # NoTable => reply'[c].sent /\ list'[c] = reply'[c].table
    BY <1>2, <2>1, <2>2
  <2>5. reply[c].sent => reply'[c] = reply[c]
    BY <1>2
  <2>6. world' = world
    BY Grows
  <2>7. chosen'[c] # NoLog => reply[c].sent /\ chosen'[c] \in Listed(reply[c].table)
    <3>1. CASE chosen'[c] = chosen[c]
      BY <2>1, <2>5, <3>1
    <3>2. ASSUME NEW l \in Logs, NEW s \in Slots, chosen'[c] = l, list[c][s] = l, Used(l)
          PROVE  reply[c].sent /\ chosen'[c] \in Listed(reply[c].table)
      <4>1. list[c] # NoTable
        BY <3>2, Kinds DEF NoTable
      <4>2. QED
        BY <2>1, <2>5, <3>2, <4>1 DEF Listed
    <3>3. QED
      BY <3>1, <3>2, CopyMoves
  <2>8. chosen'[c] # NoLog => reply'[c].sent /\ Listed(reply[c].table)' = Listed(reply[c].table)
    <3>1. ASSUME chosen'[c] # NoLog
          PROVE  reply'[c] = reply[c] /\ reply[c].sent
      BY <2>5, <2>7, <3>1
    <3>2. reply'[c] = reply[c] => Listed(reply[c].table)' = Listed(reply[c].table)
      BY <2>6 DEF Listed, Used
    <3>3. QED
      BY <3>1, <3>2
  <2>9. QED
    BY <2>3, <2>4, <2>7, <2>8
<1>5. \A i \in 1..Len(printed') : <<printed'[i][2], "chat">> \in gone'
  <2>1. CASE printed' = printed
    BY <2>1, Grows DEF CopyInv
  <2>2. ASSUME NEW l \in Logs, NEW c \in Chats, printed' = Append(printed, <<l, c>>),
               <<c, "chat">> \in gone', NEW i \in 1..Len(printed')
        PROVE  <<printed'[i][2], "chat">> \in gone'
    <3>1. /\ Len(printed') = Len(printed) + 1 /\ Len(printed) \in Nat
          /\ printed'[Len(printed) + 1] = <<l, c>>
          /\ \A m \in 1..Len(printed) : printed'[m] = printed[m]
      BY <1>1, <2>2, AppendProperties
    <3>2. i \in 1..Len(printed) \/ i = Len(printed) + 1
      BY <3>1
    <3>3. CASE i = Len(printed) + 1
      <4>1. printed'[i] = <<l, c>>
        BY <3>1, <3>3
      <4>2. QED
        BY <2>2, <4>1
    <3>4. CASE i \in 1..Len(printed)
      <4>1. printed'[i] = printed[i] /\ <<printed[i][2], "chat">> \in gone
        BY <3>1, <3>4 DEF CopyInv
      <4>2. QED
        BY <4>1, Grows
    <3>5. QED
      BY <3>2, <3>3, <3>4
  <2>3. QED
    BY <2>1, <2>2, Prints
<1>6. QED
  BY <1>4, <1>5 DEF CopyInv

(* A log is sent to by chats that have chosen it, the discovery server by  *)
(* all others.                                                             *)
LEMMA Peers ==
  ASSUME CoreInv
  PROVE  /\ \A l \in Logs : \A c \in Pending(l) :
              c \notin gone /\ c[1] \in Chats /\ c = <<c[1], "chat">> /\ chosen[c[1]] = l
         /\ \A c \in Pending(Discovery) : c \notin gone /\ c \in Connections /\ c[2] # "chat"
<1>1. ASSUME NEW l \in Logs, NEW c \in Pending(l)
      PROVE  c \notin gone /\ c[1] \in Chats /\ c = <<c[1], "chat">> /\ chosen[c[1]] = l
  <2>1. l \in Servers /\ l # Discovery
    BY Kinds
  <2>2. c \notin gone /\ ServerOf(c) = l /\ c \in Connections
    BY <2>1, PendingTypes DEF CoreInv, NetInv, PlaceInv
  <2>3. c[2] = "chat" /\ chosen[c[1]] = l
    BY <2>1, <2>2 DEF ServerOf
  <2>4. QED
    BY <2>2, <2>3, Kinds
<1>2. ASSUME NEW c \in Pending(Discovery)
      PROVE  c \notin gone /\ c \in Connections /\ c[2] # "chat"
  <2>1. c \notin gone /\ ServerOf(c) = Discovery /\ c \in Connections
    BY PendingTypes, Kinds DEF CoreInv, NetInv, PlaceInv
  <2>2. ASSUME c[2] = "chat"
        PROVE  FALSE
    <3>1. c[1] \in Chats /\ chosen[c[1]] = Discovery
      BY <2>1, <2>2, Kinds DEF ServerOf
    <3>2. chosen[c[1]] \in Logs \union {NoLog}
      BY <3>1 DEF CoreInv, ChatTypeOK
    <3>3. QED
      BY <3>1, <3>2, ProcessAssumption DEF NoLog
  <2>3. QED
    BY <2>1, <2>2
<1>3. QED
  BY <1>1, <1>2

(* What a log closes, it had accepted or could have.                       *)
LEMMA LogCloses ==
  ASSUME CoreInv, NEW l \in Logs, LogStep(l)
  PROVE  \A c \in gone' : c \in gone \/ c \in Pending(l)
<1>1. LogExits(l) => gone' = gone \union Pending(l)
  BY LogExitFrame
<1>2. CASE LogReceives(l)
  <2>1. lpc[l] = <<"serve", "recv">>
    BY <1>2 DEF LogReceives, At
  <2>2. serving[l] \in Pending(l)
    BY <2>1, PendingIs, Kinds DEF CoreInv, ServeInv
  <2>3. QED
    BY <1>1, <1>2, <2>2 DEF LogReceives, CloseServed, serverNet
<1>3. CASE ~LogReceives(l)
  BY <1>1, <1>3 DEF LogStep, StartLog, LogAccepts, LogTests, LogDials, LogConnects, LogSends,
                    netVars, serverNet
<1>4. QED
  BY <1>2, <1>3

(* The discovery server exits on Ctrl-C, by a crash, or because a client   *)
(* hung up.                                                                *)
LEMMA DiscoveryExitsWhen ==
  ASSUME CoreInv, DiscoveryStep, dpc' = "exited"
  PROVE  \/ ctrl_c[Discovery]
         \/ \E c \in Pending(Discovery) : c \in closed \ sent /\ c \in gone'
<1>1. CASE ctrl_c[Discovery]
  BY <1>1
<1>2. CASE ~ctrl_c[Discovery]
  <2>1. dpc = "recv" /\ HungUp(serving[Discovery]) /\ DiscoveryExits
    BY <1>2 DEF DiscoveryStep, DiscoveryAccepts, DiscoveryTests, DiscoveryReceives,
                DiscoveryHandles, Interrupted
  <2>2. serving[Discovery] \in Pending(Discovery)
    BY <2>1, PendingIs, Kinds DEF CoreInv, ServeInv
  <2>3. serving[Discovery] \in closed \ sent /\ serving[Discovery] \in gone'
    BY <2>1, <2>2 DEF HungUp, DiscoveryExits, CloseServer
  <2>4. QED
    BY <2>2, <2>3
<1>3. QED
  BY <1>1, <1>2

(* Once it is down, only a restart brings it up.                           *)
LEMMA ExitedStays ==
  ASSUME [Next]_vars, ~RestartDiscovery, dpc = "exited"
  PROVE  dpc' = "exited"
<1>1. ~DiscoveryStep
  BY DEF DiscoveryStep, DiscoveryAccepts, DiscoveryTests, DiscoveryReceives, DiscoveryHandles
<1>2. Signal => dpc' = dpc \/ dpc' = "exited"
  BY DEF Signal, StopServer, InterruptLog, KillChat, CrashDiscovery, DiscoveryExits,
         discoveryVars
<1>3. QED
  BY <1>1, <1>2, LogStepFrame, ChatStepFrame, StutterFrame DEF Next

(* So it has been down, or has been started again, from then on.                                  *)
LEMMA DownUntilRestart ==
  ASSUME CoreInv, [Next]_vars, dpc = "exited" \/ restarts > 0
  PROVE  dpc' = "exited" \/ restarts' > 0
<1>1. restarts \in Nat
  <2>1. world.restarts \in Nat /\ restarts \in 0..world.restarts
    BY WorldAssumption DEF CoreInv, FaultTypeOK
  <2>2. QED
    BY <2>1
<1>2. CASE RestartDiscovery
  BY <1>1, <1>2 DEF RestartDiscovery
<1>3. CASE ~RestartDiscovery
  <2>1. restarts' = restarts
    BY <1>3, Grows
  <2>2. dpc = "exited" => dpc' = "exited"
    BY <1>3, ExitedStays
  <2>3. QED
    BY <2>1, <2>2
<1>4. QED
  BY <1>2, <1>3

(* The discovery server closes a connection unheard only when it goes      *)
(* down: every step keeps this.                                            *)
LEMMA GoneStep == CoreInv /\ GoneInv /\ [Next]_vars => GoneInv'
<1> SUFFICES ASSUME CoreInv, GoneInv, [Next]_vars, NEW c \in gone', c[2] # "chat"
             PROVE  c \in sent' \/ dpc' = "exited" \/ restarts' > 0
  BY DEF GoneInv
<1>1. CASE c \in gone
  BY <1>1, Grows, DownUntilRestart DEF GoneInv
<1>2. CASE c \notin gone
  <2>1. CASE DiscoveryStep
    <3>1. CASE DiscoveryHandles
      BY <1>2, <3>1, HandlesIs, Grows
    <3>2. CASE ~DiscoveryHandles
      BY <1>2, <2>1, <3>2 DEF DiscoveryStep, DiscoveryAccepts, DiscoveryTests, DiscoveryReceives,
                              DiscoveryExits, serverNet
    <3>3. QED
      BY <3>1, <3>2
  <2>2. ASSUME NEW l \in Logs, LogStep(l)
        PROVE  FALSE
    <3>1. c \in Pending(l)
      BY <1>2, <2>2, LogCloses
    <3>2. c = <<c[1], "chat">>
      BY <3>1, Peers
    <3>3. c[2] = "chat"
      BY <3>2
    <3>4. QED
      BY <3>3
  <2>3. CASE Signal
    <3>1. ASSUME NEW l \in Logs, InterruptLog(l)
          PROVE  FALSE
      <4>1. c \in Pending(l)
        BY <1>2, <3>1, LogExitFrame DEF InterruptLog
      <4>2. c = <<c[1], "chat">>
        BY <4>1, Peers
      <4>3. c[2] = "chat"
        BY <4>2
      <4>4. QED
        BY <4>3
    <3>2. ~\E l \in Logs : InterruptLog(l)
      BY <3>1
    <3>3. CASE CrashDiscovery
      BY <3>3 DEF CrashDiscovery, DiscoveryExits
    <3>4. QED
      BY <1>2, <2>3, <3>2, <3>3 DEF Signal, StopServer, KillChat, netVars, serverNet
  <2>4. QED
    BY <1>2, <2>1, <2>2, <2>3, ChatStepFrame, RestartFrame, StutterFrame DEF Next
<1>3. QED
  BY <1>1, <1>2

(* A log deregisters because Ctrl-C was pressed, and forgets that it was.  *)
LEMMA LogInterrupted ==
  ASSUME CoreInv, NEW l \in Logs, LogStep(l)
  PROVE  /\ \A m \in Logs : m # l => lpc'[m] = lpc[m]
         /\ \A s \in Servers : s # l => ctrl_c'[s] = ctrl_c[s]
         /\ \/ /\ ctrl_c'[l] = ctrl_c[l]
               /\ lpc'[l][1] = "deregister" => lpc[l][1] = "deregister"
            \/ ctrl_c[l] /\ ~ctrl_c'[l]
<1>1. lpc \in [Logs -> Calls] /\ ctrl_c \in [Servers -> BOOLEAN] /\ l \in Servers
  BY Kinds DEF CoreInv, LogTypeOK, FaultTypeOK
<1>2. CASE LeaveLoop(l) /\ Interrupted(l)
  BY <1>1, <1>2 DEF LeaveLoop, Reset, Goto, Interrupted
<1>3. CASE /\ ctrl_c' = ctrl_c
           /\ \E x : lpc' = [lpc EXCEPT ![l] = x] /\ (x[1] = "deregister" => lpc[l][1] = "deregister")
  BY <1>1, <1>3
<1>4. LogExits(l) => lpc' = [lpc EXCEPT ![l] = <<"exited", "exited">>]
  BY DEF LogExits, Goto
<1>5. CASE StartLog(l)
  BY <1>3, <1>5 DEF StartLog, Goto
<1>6. CASE LogAccepts(l) \/ LogTests(l)
  BY <1>2, <1>3, <1>6 DEF LogAccepts, LogTests, Goto
<1>7. CASE LogReceives(l)
  BY <1>3, <1>4, <1>7 DEF LogReceives, Goto
<1>8. ASSUME NEW what \in {"register", "deregister"},
             LogDials(l, what) \/ LogConnects(l, what) \/ LogSends(l, what)
      PROVE  /\ ctrl_c' = ctrl_c
             /\ \E x : lpc' = [lpc EXCEPT ![l] = x] /\ (x[1] = "deregister" => lpc[l][1] = "deregister")
  <2>1. ctrl_c' = ctrl_c
    BY <1>8 DEF LogDials, LogConnects, LogSends
  <2>2. lpc[l][1] = what
    BY <1>8 DEF LogDials, LogConnects, LogSends, At
  <2>3. \/ \E call : lpc' = [lpc EXCEPT ![l] = <<what, call>>]
        \/ lpc' = [lpc EXCEPT ![l] = <<"exited", "exited">>]
        \/ lpc' = [lpc EXCEPT ![l] = <<"serve", "accept">>]
    BY <1>4, <1>8 DEF LogDials, LogConnects, LogSends, Goto
  <2>4. QED
    BY <2>1, <2>2, <2>3
<1>9. QED
  BY <1>3, <1>5, <1>6, <1>7, <1>8 DEF LogStep

(* What Ctrl-C leaves behind: every step keeps this.                       *)
LEMMA SignalStep == CoreInv /\ SignalInv /\ [Next]_vars => SignalInv'
<1> SUFFICES ASSUME CoreInv, SignalInv, [Next]_vars
             PROVE  SignalInv'
  OBVIOUS
<1>1. /\ lpc \in [Logs -> Calls] /\ ctrl_c \in [Servers -> BOOLEAN] /\ stopped \subseteq Servers
      /\ signals \in Nat
  <2>1. world.signals \in Nat /\ signals \in 0..world.signals
    BY WorldAssumption DEF CoreInv, FaultTypeOK
  <2>2. signals \in Nat
    BY <2>1
  <2>3. QED
    BY <2>2 DEF CoreInv, LogTypeOK, FaultTypeOK
<1>2. CASE UNCHANGED <<ctrl_c, lpc, stopped, signals>>
  BY <1>2 DEF SignalInv
<1>3. ASSUME NEW l \in Logs, LogStep(l)
      PROVE  SignalInv'
  <2>1. stopped' = stopped /\ signals' = signals /\ l \in Servers
    BY <1>3, LogStepFrame, Kinds
  <2>2. \/ /\ ctrl_c'[l] = ctrl_c[l]
           /\ lpc'[l][1] = "deregister" => lpc[l][1] = "deregister"
        \/ ctrl_c[l] /\ ~ctrl_c'[l]
    BY <1>3, LogInterrupted
  <2>3. /\ \A m \in Logs : m # l => lpc'[m] = lpc[m]
        /\ \A s \in Servers : s # l => ctrl_c'[s] = ctrl_c[s]
    BY <1>3, LogInterrupted
  <2>4. \A s \in Servers : ctrl_c'[s] => ctrl_c[s]
    BY <2>2, <2>3
  <2>5. \A s \in Servers : ctrl_c'[s] => s \in stopped'
    BY <2>1, <2>4 DEF SignalInv
  <2>6. \A m \in Logs : lpc'[m][1] = "deregister" => m \in stopped'
    BY <2>1, <2>2, <2>3 DEF SignalInv
  <2>7. signals' = 0 => stopped' = {}
    BY <2>1 DEF SignalInv
  <2>8. ASSUME NEW m \in Logs, signals' <= 1, lpc'[m][1] = "deregister"
        PROVE  ~ctrl_c'[m]
    <3>1. lpc[m][1] = "deregister" => ~ctrl_c[m]
      BY <2>1, <2>8 DEF SignalInv
    <3>2. m \in Servers
      BY Kinds
    <3>3. QED
      BY <2>2, <2>3, <2>4, <2>8, <3>1, <3>2
  <2>9. QED
    BY <2>5, <2>6, <2>7, <2>8 DEF SignalInv
<1>4. ASSUME Signal
      PROVE  SignalInv'
  <2>1. signals' = signals + 1 /\ signals' # 0
    BY <1>1, <1>4, SignalFrame
  <2>2. ASSUME NEW s \in Servers, Press(s),
               \A m \in Logs : lpc'[m][1] = "deregister" => lpc[m][1] = "deregister"
        PROVE  SignalInv'
    <3>1. ctrl_c' = [ctrl_c EXCEPT ![s] = TRUE] /\ stopped' = stopped \union {s}
      BY <2>2 DEF Press
    <3>2. \A t \in Servers : ctrl_c'[t] => t \in stopped'
      BY <1>1, <3>1 DEF SignalInv
    <3>3. ASSUME signals' <= 1
          PROVE  stopped = {}
      <4>1. signals = 0
        BY <1>1, <2>1, <3>3
      <4>2. QED
        BY <4>1 DEF SignalInv
    <3>4. QED
      BY <2>1, <2>2, <3>1, <3>2, <3>3 DEF SignalInv
  <2>3. ASSUME NEW s \in Servers, StopServer(s)
        PROVE  SignalInv'
    BY <2>2, <2>3 DEF StopServer, logVars
  <2>4. ASSUME NEW l \in Logs, InterruptLog(l)
        PROVE  SignalInv'
    <3>1. Press(l) /\ lpc' = [lpc EXCEPT ![l] = <<"exited", "exited">>]
      BY <2>4 DEF InterruptLog, LogExits, Goto
    <3>2. \A m \in Logs : lpc'[m][1] = "deregister" => lpc[m][1] = "deregister"
      BY <1>1, <3>1
    <3>3. QED
      BY <2>2, <3>1, <3>2, Kinds
  <2>5. ASSUME UNCHANGED <<ctrl_c, lpc>>, stopped \subseteq stopped'
        PROVE  SignalInv'
    <3>1. ASSUME signals' <= 1
          PROVE  signals <= 1
      BY <1>1, <2>1, <3>1
    <3>2. QED
      BY <2>1, <2>5, <3>1 DEF SignalInv
  <2>6. (\E c \in Chats : KillChat(c)) \/ CrashDiscovery =>
          UNCHANGED <<ctrl_c, lpc>> /\ stopped \subseteq stopped'
    BY DEF KillChat, CrashDiscovery, logVars
  <2>7. QED
    BY <1>4, <2>3, <2>4, <2>5, <2>6 DEF Signal
<1>5. CASE RestartDiscovery
  <2>1. /\ ctrl_c' = [ctrl_c EXCEPT ![Discovery] = FALSE] /\ stopped' = stopped \ {Discovery}
        /\ lpc' = lpc /\ signals' = signals
    BY <1>5 DEF RestartDiscovery, logVars
  <2>2. QED
    BY <1>1, <2>1, Kinds DEF SignalInv
<1>6. QED
  BY <1>2, <1>3, <1>4, <1>5, DiscoveryStepFrame, ChatStepFrame, StutterFrame DEF Next

(* Why a log exits.                                                        *)
Unregistered(l) ==
  /\ lpc[l][1] = "register" /\ <<l, "register">> \notin sent'
  /\ ctrl_c[l] \/ dpc = "exited" \/ <<l, "register">> \in gone
Deregistered(l) ==
  /\ lpc[l][1] = "deregister"
  /\ \/ ctrl_c[l] \/ dpc = "exited"
     \/ <<l, "deregister">> \in gone \ sent \/ <<l, "deregister">> \in sent'
HungUpBy(l) ==
  \E c \in Chats : chosen[c] = l /\ <<c, "chat">> \in closed \ sent /\ <<c, "chat">> \in gone'

(* A log exits for one of these reasons.                                   *)
LEMMA LogExitsWhen ==
  ASSUME CoreInv, NEW l \in Logs, LogStep(l), At(l, "exited", "exited")'
  PROVE  Unregistered(l) \/ Deregistered(l) \/ HungUpBy(l)
<1>1. lpc \in [Logs -> Calls] /\ l \in Servers /\ LogClient(l)
  BY Kinds DEF CoreInv, LogTypeOK, ClientInv
<1>2. \A doing, call : Goto(l, doing, call) => lpc'[l] = <<doing, call>>
  BY <1>1 DEF Goto
<1>3. lpc'[l] = <<"exited", "exited">>
  BY DEF At
<1>4. ~StartLog(l) /\ ~LogAccepts(l) /\ ~LogTests(l)
  BY <1>2, <1>3 DEF StartLog, LogAccepts, LogTests, LeaveLoop
<1>5. CASE LogReceives(l)
  <2>1. At(l, "serve", "recv") /\ HungUp(serving[l]) /\ LogExits(l)
    BY <1>2, <1>3, <1>5 DEF LogReceives
  <2>2. serving[l] \in Pending(l)
    BY <1>1, <2>1, PendingIs, Kinds DEF CoreInv, ServeInv, At
  <2>3. PICK c \in Chats : serving[l] = <<c, "chat">> /\ chosen[c] = l
    BY <2>2, Peers
  <2>4. <<c, "chat">> \in closed \ sent /\ <<c, "chat">> \in gone'
    BY <2>1, <2>2, <2>3, LogExitFrame DEF HungUp
  <2>5. QED
    BY <2>3, <2>4 DEF HungUpBy
<1>6. ASSUME NEW what \in {"register", "deregister"}, LogDials(l, what)
      PROVE  Unregistered(l) \/ Deregistered(l)
  <2>1. lpc[l] = <<what, "dial">> /\ (ctrl_c[l] \/ dpc = "exited") /\ sent' = sent
    BY <1>2, <1>3, <1>6, Kinds DEF LogDials, At, Interrupted, Listening
  <2>2. QED
    BY <1>1, <2>1 DEF Unregistered, Deregistered, LogClient
<1>7. ASSUME NEW what \in {"register", "deregister"}, LogConnects(l, what)
      PROVE  Unregistered(l) \/ Deregistered(l)
  <2>1. lpc[l] = <<what, "dialing">> /\ (ctrl_c[l] \/ <<l, what>> \in gone) /\ sent' = sent
    BY <1>2, <1>3, <1>7 DEF LogConnects, At, Interrupted
  <2>2. QED
    BY <1>1, <2>1 DEF Unregistered, Deregistered, LogClient
<1>8. ASSUME NEW what \in {"register", "deregister"}, LogSends(l, what)
      PROVE  Deregistered(l)
  <2>1. lpc[l] = <<"deregister", "send">>
    BY <1>2, <1>3, <1>8 DEF LogSends, At
  <2>2. what = "deregister"
    BY <1>8, <2>1 DEF LogSends, At
  <2>3. <<l, "deregister">> \notin sent
    BY <1>1, <2>1 DEF LogClient
  <2>4. ctrl_c[l] \/ <<l, "deregister">> \in gone \/ <<l, "deregister">> \in sent'
    BY <1>8, <2>2 DEF LogSends, Interrupted
  <2>5. QED
    BY <2>1, <2>3, <2>4 DEF Deregistered
<1>9. QED
  BY <1>4, <1>5, <1>6, <1>7, <1>8 DEF LogStep

(* Only its own steps, and a signal that finds it in recv, move a log.     *)
LEMMA LogMoves ==
  ASSUME CoreInv, [Next]_vars, NEW l \in Logs, lpc'[l] # lpc[l]
  PROVE  \/ LogStep(l)
         \/ Signal /\ InterruptLog(l)
<1>1. lpc \in [Logs -> Calls]
  BY DEF CoreInv, LogTypeOK
<1>2. ASSUME NEW m \in Logs, LogStep(m)
      PROVE  m = l
  BY <1>2, LogInterrupted
<1>3. ASSUME Signal
      PROVE  InterruptLog(l)
  <2>1. PICK m \in Logs : InterruptLog(m)
    BY <1>3 DEF Signal, StopServer, KillChat, CrashDiscovery, logVars
  <2>2. lpc' = [lpc EXCEPT ![m] = <<"exited", "exited">>]
    BY <2>1 DEF InterruptLog, LogExits, Goto
  <2>3. m = l
    BY <1>1, <2>2
  <2>4. QED
    BY <2>1, <2>3
<1>4. QED
  BY <1>2, <1>3, DiscoveryStepFrame, ChatStepFrame, RestartFrame, StutterFrame DEF Next

(* A chat chooses once.                                                    *)
LEMMA ChosenStays ==
  ASSUME CoreInv, [Next]_vars, NEW c \in Chats, chosen[c] \in Logs
  PROVE  chosen'[c] = chosen[c]
  BY CopyMoves, Kinds

(* Servers stay up: every step keeps this. A client that hung up never     *)
(* sends its message later.                                                *)
LEMMA UpStep ==
  CoreInv /\ GoneInv /\ SignalInv /\ ServersStayUp /\ [Next]_vars => ServersStayUp'
<1> SUFFICES ASSUME CoreInv, GoneInv, SignalInv, ServersStayUp, [Next]_vars
             PROVE  ServersStayUp'
  OBVIOUS
<1>1. HungUpOn \subseteq HungUpOn'
  BY UnheardStays, Grows DEF HungUpOn
<1>2. ASSUME dpc' = "exited"
      PROVE  Discovery \in stopped' \/ \E c \in HungUpOn' : c[2] # "chat"
  <2>1. ~RestartDiscovery
    BY <1>2 DEF RestartDiscovery
  <2>2. stopped \subseteq stopped'
    BY <2>1, Grows
  <2>3. CASE dpc = "exited"
    BY <1>1, <2>2, <2>3 DEF ServersStayUp
  <2>4. CASE DiscoveryStep
    <3>1. CASE ctrl_c[Discovery]
      BY <2>2, <3>1, Kinds DEF SignalInv
    <3>2. CASE \E c \in Pending(Discovery) : c \in closed \ sent /\ c \in gone'
      <4>1. PICK c \in Pending(Discovery) : c \in closed \ sent /\ c \in gone'
        BY <3>2
      <4>2. c[2] # "chat" /\ c \in HungUpOn'
        BY <4>1, UnheardStays, Peers DEF HungUpOn
      <4>3. QED
        BY <4>2
    <3>3. QED
      BY <1>2, <2>4, <3>1, <3>2, DiscoveryExitsWhen
  <2>5. CASE dpc # "exited" /\ ~DiscoveryStep
    <3>1. CrashDiscovery
      BY <1>2, <2>1, <2>5, LogStepFrame, ChatStepFrame, StutterFrame
         DEF Next, Signal, StopServer, InterruptLog, KillChat, discoveryVars
    <3>2. QED
      BY <3>1 DEF CrashDiscovery
  <2>6. QED
    BY <2>3, <2>4, <2>5
<1>3. ASSUME NEW l \in Logs, At(l, "exited", "exited")'
      PROVE  \/ l \in stopped'
             \/ \E c \in Chats : chosen'[c] = l /\ <<c, "chat">> \in HungUpOn'
             \/ (dpc' = "exited" \/ restarts' > 0) /\ <<l, "register">> \notin sent'
  <2>1. l \in stopped => l \in stopped'
    BY Grows, Kinds DEF RestartDiscovery
  <2>2. CASE At(l, "exited", "exited")
    <3>1. <<l, "register">> \notin sent => <<l, "register">> \notin sent'
      <4>1. lpc[l][1] # "register"
        BY <2>2 DEF At
      <4>2. lpc[l] # <<"register", "send">>
        BY <4>1
      <4>3. <<l, "register">>[1] = l /\ <<l, "register">>[2] = "register"
        OBVIOUS
      <4>4. QED
        BY <4>2, <4>3, SendsOpen
    <3>2. CASE l \in stopped
      BY <2>1, <3>2
    <3>3. ASSUME NEW c \in Chats, chosen[c] = l, <<c, "chat">> \in HungUpOn
          PROVE  chosen'[c] = l /\ <<c, "chat">> \in HungUpOn'
      BY <1>1, <3>3, ChosenStays
    <3>4. CASE (dpc = "exited" \/ restarts > 0) /\ <<l, "register">> \notin sent
      BY <3>1, <3>4, DownUntilRestart
    <3>5. QED
      BY <2>2, <3>2, <3>3, <3>4 DEF ServersStayUp
  <2>3. CASE ~At(l, "exited", "exited") /\ LogStep(l)
    <3>1. UNCHANGED <<dpc, restarts, chosen>>
      BY <2>3, LogStepFrame
    <3>2. ctrl_c[l] => l \in stopped
      BY Kinds DEF SignalInv
    <3>3. CASE Unregistered(l)
      <4>1. ASSUME <<l, "register">> \in gone
            PROVE  dpc = "exited" \/ restarts > 0
        <5>1. <<l, "register">>[2] # "chat" /\ <<l, "register">> \notin sent
          BY <3>3, Grows DEF Unregistered
        <5>2. QED
          BY <4>1, <5>1 DEF GoneInv
      <4>2. QED
        BY <2>1, <3>1, <3>2, <3>3, <4>1 DEF Unregistered
    <3>4. CASE Deregistered(l)
      BY <2>1, <3>4 DEF Deregistered, SignalInv
    <3>5. CASE HungUpBy(l)
      BY <3>1, <3>5, UnheardStays DEF HungUpBy, HungUpOn
    <3>6. QED
      BY <1>3, <2>3, <3>3, <3>4, <3>5, LogExitsWhen
  <2>4. CASE ~At(l, "exited", "exited") /\ ~LogStep(l)
    <3>1. lpc'[l] # lpc[l]
      BY <1>3, <2>4 DEF At
    <3>2. InterruptLog(l)
      BY <2>4, <3>1, LogMoves
    <3>3. QED
      BY <3>2 DEF InterruptLog, Press
  <2>5. QED
    BY <2>2, <2>3, <2>4
<1>4. QED
  BY <1>2, <1>3 DEF ServersStayUp

(* A log that owes a deregistration is forgotten by the discovery server:  *)
(* every step keeps this.                                                  *)
LEMMA ForgottenStep ==
  CoreInv /\ HandledInv /\ SignalInv /\ ForgottenInv /\ [Next]_vars => ForgottenInv'
<1> SUFFICES ASSUME CoreInv, HandledInv, SignalInv, ForgottenInv, [Next]_vars, NEW l \in Logs,
                    ~world'.blocking, signals' <= 1,
                    \A c \in Chats : <<c, "chat">> \notin closed' \ sent'
             PROVE  /\ At(l, "exited", "exited")' /\ <<l, "deregister">> \notin sent'
                         => dpc' = "exited" \/ Forgotten(l)'
                    /\ <<l, "deregister">> \in gone' \ sent' => dpc' = "exited" \/ Forgotten(l)'
  BY DEF ForgottenInv
<1>1. ~world.blocking /\ signals <= 1 /\ \A c \in Chats : <<c, "chat">> \notin closed \ sent
  <2>1. signals \in Nat
    <3>1. world.signals \in Nat /\ signals \in 0..world.signals
      BY WorldAssumption DEF CoreInv, FaultTypeOK
    <3>2. QED
      BY <3>1
  <2>2. signals' = signals \/ signals' = signals + 1
    BY DiscoveryStepFrame, LogStepFrame, ChatStepFrame, SignalFrame, RestartFrame, StutterFrame
       DEF Next
  <2>3. signals <= 1
    BY <2>1, <2>2
  <2>4. QED
    BY <2>3, Grows, UnheardStays
<1>2. /\ At(l, "exited", "exited") /\ <<l, "deregister">> \notin sent
           => dpc = "exited" \/ Forgotten(l)
      /\ <<l, "deregister">> \in gone \ sent => dpc = "exited" \/ Forgotten(l)
  BY <1>1 DEF ForgottenInv
(* The registration is forgotten for good.                                 *)
<1>3. ASSUME lpc[l][1] # "register", dpc = "exited" \/ Forgotten(l)
      PROVE  dpc' = "exited" \/ Forgotten(l)'
  <2> DEFINE r == <<l, "register">>
  <2>1. r \notin sent => r \notin sent'
    <3>1. lpc[l] # <<"register", "send">>
      BY <1>3
    <3>2. r[1] = l /\ r[2] = "register"
      OBVIOUS
    <3>3. QED
      BY <3>1, <3>2, SendsOpen
  <2>2. CASE RestartDiscovery
    <3>1. dpc = "exited" /\ handled' = {} /\ UNCHANGED <<gone, sent>>
      BY <2>2, RestartFrame DEF RestartDiscovery
    <3>2. backlog[Discovery] = <<>> /\ serving[Discovery] = NoConnection
      BY <3>1 DEF CoreInv, ServeInv
    <3>3. Pending(Discovery) = {}
      <4>1. Len(backlog[Discovery]) = 0
        BY <3>2
      <4>2. 1..Len(backlog[Discovery]) = {}
        BY <4>1
      <4>3. QED
        BY <3>2, <4>2, Kinds, PendingIs DEF Elements
    <3>4. ASSUME r \in sent
          PROVE  r \in gone
      <4>1. Made(r)
        BY <3>4 DEF CoreInv, ClientInv
      <4>2. ASSUME NEW s \in Servers, r \in Pending(s)
            PROVE  FALSE
        <5>1. ServerOf(r) = s
          BY <4>2 DEF CoreInv, NetInv, PlaceInv
        <5>2. r[2] # "chat"
          OBVIOUS
        <5>3. s = Discovery
          BY <5>1, <5>2 DEF ServerOf
        <5>4. QED
          BY <3>3, <4>2, <5>3
      <4>3. QED
        BY <4>1, <4>2 DEF Made
    <3>5. QED
      BY <3>1, <3>4 DEF Forgotten
  <2>3. CASE ~RestartDiscovery
    <3>1. CASE dpc = "exited"
      BY <2>3, <3>1, ExitedStays
    <3>2. CASE Forgotten(l)
      <4>1. r \in gone /\ r \notin handled => r \notin handled'
        BY <2>3, Grows, HandlesIs
      <4>2. QED
        BY <2>1, <3>2, <4>1, Grows DEF Forgotten
    <3>3. QED
      BY <1>3, <3>1, <3>2
  <2>4. QED
    BY <2>2, <2>3
<1>4. ASSUME <<l, "deregister">> \in gone \ sent
      PROVE  dpc' = "exited" \/ Forgotten(l)'
  <2>1. Made(<<l, "deregister">>)
    BY <1>4 DEF Made
  <2>2. lpc[l][1] # "register"
    BY <2>1 DEF CoreInv, ClientInv, LogClient
  <2>3. QED
    BY <1>2, <1>3, <1>4, <2>2
<1>5. ASSUME <<l, "deregister">> \in gone' \ sent'
      PROVE  dpc' = "exited" \/ Forgotten(l)'
  <2>1. <<l, "deregister">> \notin sent
    BY <1>5, Grows
  <2>2. CASE <<l, "deregister">> \in gone
    BY <1>4, <2>1, <2>2
  <2>3. CASE <<l, "deregister">> \notin gone
    <3> DEFINE d == <<l, "deregister">>
    <3>1. d[2] # "chat"
      OBVIOUS
    <3>2. d # <<d[1], "chat">>
      BY <3>1
    <3> HIDE DEF d
    <3>3. d \in gone' /\ d \notin gone /\ d \notin sent
      BY <1>5, <2>1, <2>3 DEF d
    <3>4. CASE DiscoveryStep
      <4>1. ~DiscoveryHandles
        BY <3>3, HandlesIs
      <4>2. QED
        BY <3>3, <3>4, <4>1 DEF DiscoveryStep, DiscoveryAccepts, DiscoveryTests, DiscoveryReceives,
                                DiscoveryExits, serverNet
    <3>5. ASSUME NEW m \in Logs, LogStep(m) \/ InterruptLog(m)
          PROVE  FALSE
      <4>1. d \in Pending(m)
        BY <3>3, <3>5, LogCloses, LogExitFrame DEF InterruptLog
      <4>2. QED
        BY <3>2, <4>1, Peers
    <3>6. CASE Signal
      <4>1. ~\E m \in Logs : InterruptLog(m)
        BY <3>5
      <4>2. QED
        BY <3>3, <3>6, <4>1 DEF Signal, StopServer, KillChat, CrashDiscovery, DiscoveryExits,
                                netVars, serverNet
    <3>7. QED
      BY <3>3, <3>4, <3>5, <3>6, ChatStepFrame, RestartFrame, StutterFrame DEF Next
  <2>4. QED
    BY <2>2, <2>3
<1>6. ASSUME At(l, "exited", "exited")', <<l, "deregister">> \notin sent'
      PROVE  dpc' = "exited" \/ Forgotten(l)'
  <2>1. <<l, "deregister">> \notin sent
    BY <1>6, Grows
  <2>2. CASE At(l, "exited", "exited")
    <3>1. lpc[l][1] # "register"
      BY <2>2 DEF At
    <3>2. QED
      BY <1>2, <1>3, <2>1, <2>2, <3>1
  <2>3. CASE ~At(l, "exited", "exited") /\ LogStep(l)
    <3>1. dpc' = dpc /\ ~HungUpBy(l)
      BY <1>1, <2>3, LogStepFrame DEF HungUpBy
    <3>2. CASE Unregistered(l)
      BY <3>2 DEF Unregistered, Forgotten
    <3>3. CASE Deregistered(l)
      <4>1. ~ctrl_c[l]
        BY <1>1, <3>3 DEF Deregistered, SignalInv
      <4>2. dpc = "exited" \/ <<l, "deregister">> \in gone \ sent
        BY <1>6, <3>3, <4>1 DEF Deregistered
      <4>3. QED
        BY <1>4, <3>1, <4>2
    <3>4. QED
      BY <1>6, <2>3, <3>1, <3>2, <3>3, LogExitsWhen
  <2>4. CASE ~At(l, "exited", "exited") /\ ~LogStep(l)
    <3>1. lpc'[l] # lpc[l]
      BY <1>6, <2>4 DEF At
    <3>2. InterruptLog(l)
      BY <2>4, <3>1, LogMoves
    <3>3. QED
      BY <1>1, <3>2 DEF InterruptLog
  <2>5. QED
    BY <2>2, <2>3, <2>4
<1>7. QED
  BY <1>5, <1>6

-----------------------------------------------------------------------------
(* The table                                                               *)

(* First finds the smallest element.                                       *)
LEMMA FirstIs ==
  ASSUME NEW P \in SUBSET Slots, P # {}
  PROVE  First(P) \in P
<1> DEFINE less == {ss \in Nat \X Nat : ss[1] < ss[2]}
<1>1. P \subseteq Nat
  BY TableAssumption DEF Slots
<1>2. IsWellFoundedOn(less, Nat)
  BY NatLessThanWellFounded, Zenon DEF OpToRel
<1>3. PICK m \in P : \A t \in P : ~(<<t, m>> \in less)
  <2> HIDE DEF less
  <2>1. QED
    BY <1>1, <1>2, WFMin
<1>4. \A t \in P : m <= t
  <2>1. ASSUME NEW t \in P
        PROVE  m <= t
    <3>1. t \in Nat /\ m \in Nat /\ <<t, m>> \in Nat \X Nat
      BY <1>1
    <3>2. ~(t < m)
      BY <1>3, <3>1
    <3>3. QED
      BY <3>1, <3>2
  <2>2. QED
    BY <2>1
<1>5. QED
  BY <1>4 DEF First

(* What keeps one number from exceeding another.                           *)
LEMMA StaysBelow ==
  ASSUME NEW a \in Nat, NEW b \in Nat, a <= b, NEW c, NEW d
  PROVE  /\ c = b + 1 /\ (d = a \/ d = a + 1) => d <= c
         /\ c = b /\ (d = a \/ d = a - 1) => d <= c
         /\ (c = b \/ c = b - 1) /\ d = a - 1 => d <= c
         /\ c = b - 1 /\ d = 0 /\ b # 0 => d <= c
  OBVIOUS

(* Two counts of nothing.                                                  *)
LEMMA ZeroBelowZero == \A c, d : c = 0 /\ d = 0 => d <= c
  OBVIOUS

(* A set of slots or of logs, with one more or one less.                   *)
LEMMA OneMore ==
  ASSUME NEW S, IsFiniteSet(S), NEW x
  PROVE  /\ Cardinality(S) \in Nat /\ IsFiniteSet(S \union {x}) /\ IsFiniteSet(S \ {x})
         /\ x \in S => /\ Cardinality(S \union {x}) = Cardinality(S)
                       /\ Cardinality(S \ {x}) = Cardinality(S) - 1
         /\ x \notin S => /\ Cardinality(S \union {x}) = Cardinality(S) + 1
                          /\ Cardinality(S \ {x}) = Cardinality(S)
  BY FS_CardinalityType, FS_AddElement, FS_RemoveElement

(* The entries of a name; whether there is room for every log.             *)
SlotsOf(n) == {s \in Slots : Name(chatters[s]) = n}
Room == Cardinality(Logs) <= NumSlots /\ world.zero = {}

(* The slots, and those registered under a name, can be counted.           *)
LEMMA FiniteSlots ==
  /\ IsFiniteSet(Slots) /\ Cardinality(Slots) = NumSlots
  /\ \A n : IsFiniteSet(SlotsOf(n)) /\ IsFiniteSet(Registered(n))
<1>1. IsFiniteSet(Slots) /\ Cardinality(Slots) = NumSlots
  BY FS_Interval, TableAssumption DEF Slots
<1>2. \A n : SlotsOf(n) \in SUBSET Slots /\ Registered(n) \in SUBSET Logs
  BY DEF SlotsOf, Registered, Named
<1>3. QED
  BY <1>1, <1>2, FS_Subset, ProcessAssumption

(* The table is full only when there are more logs than slots.             *)
LEMMA RoomForAll ==
  ASSUME CoreInv, TableInv, Room, NEW l \in Logs, \A s \in Slots : chatters[s] # l
  PROVE  FreeSlots # {}
<1> SUFFICES ASSUME FreeSlots = {}
             PROVE  FALSE
  OBVIOUS
<1>1. \A s \in Slots : chatters[s] \in Logs \ {l} /\ chatters[s] # NoLog
  BY DEF FreeSlots, Used, CoreInv, DiscoveryTypeOK, Tables
<1>2. chatters \in [Slots -> Logs \ {l}]
  BY <1>1 DEF CoreInv, DiscoveryTypeOK, Tables
<1>3. \A s, t \in Slots : chatters[s] = chatters[t] => s = t
  BY <1>1 DEF TableInv
<1>4. chatters \in Injection(Slots, Logs \ {l})
  BY <1>2, <1>3 DEF Injection, IsInjective
<1>5. IsFiniteSet(Logs \ {l}) /\ Cardinality(Logs \ {l}) = Cardinality(Logs) - 1
  BY OneMore, ProcessAssumption
<1>6. Cardinality(Slots) <= Cardinality(Logs \ {l})
  BY <1>4, <1>5, FS_Injection
<1>7. Cardinality(Logs) \in Nat
  BY FS_CardinalityType, ProcessAssumption
<1>8. QED
  BY <1>5, <1>6, <1>7, FiniteSlots, TableAssumption DEF Room

(* What TableFollowsUsers says of one name.                                *)
TableIs(n) ==
  /\ Cardinality(SlotsOf(n)) <= Cardinality(Registered(n))
  /\ Room /\ ~Stray(n) => Cardinality(SlotsOf(n)) = Cardinality(Registered(n))

(* TableFollowsUsers, name by name.                                        *)
LEMMA TableFollowsIs ==
  TableFollowsUsers <=> \A n \in {world.name[l] : l \in Logs} \ {""} : TableIs(n)
  BY DEF TableFollowsUsers, TableIs, SlotsOf, Room

(* A registration adds one user and, where there is room, one entry of     *)
(* that name; it takes the place of none that counts.                      *)
LEMMA RegisterKeeps ==
  ASSUME CoreInv, HandledInv, TableInv, [Next]_vars, DiscoveryHandles,
         serving[Discovery][2] = "register", NEW n, n # "", TableIs(n)
  PROVE  TableIs(n)'
<1> DEFINE l == serving[Discovery][1]
<1>1. /\ serving[Discovery] = <<l, "register">> /\ l \in Logs
      /\ <<l, "register">> \notin gone /\ <<l, "register">> \in Pending(Discovery)
      /\ handled' = handled \union {<<l, "register">>}
  BY HandlesIs, Kinds
<1>2. world' = world /\ Store(FreeSlots, l)
  BY Grows DEF DiscoveryHandles, handle_register
<1> HIDE DEF l
<1>3. <<l, "register">> \notin handled /\ <<l, "deregister">> \notin handled
  BY <1>1 DEF HandledInv, CoreInv, NetInv, OrderInv
<1>4. /\ Registered(n)' = IF world.name[l] = n THEN Registered(n) \union {l} ELSE Registered(n)
      /\ l \notin Registered(n)
      /\ Stray(n)' <=> Stray(n)
  <2>1. \A m \in Logs : /\ <<m, "deregister">> \in handled' <=> <<m, "deregister">> \in handled
                        /\ m # l => (<<m, "register">> \in handled' <=> <<m, "register">> \in handled)
    BY <1>1
  <2>2. <<l, "register">> \in handled' /\ <<l, "deregister">> \notin handled'
    BY <1>1, <1>3
  <2>3. Named(n)' = Named(n)
    BY <1>2 DEF Named
  <2>4. l \notin Registered(n)
    BY <1>3 DEF Registered
  <2>5. Registered(n)' = IF world.name[l] = n THEN Registered(n) \union {l} ELSE Registered(n)
    BY <1>1, <2>1, <2>2, <2>3 DEF Registered, Named
  <2>6. Stray(n)' <=> Stray(n)
    <3>1. ASSUME NEW m \in Logs
          PROVE  (<<m, "deregister">> \in handled' /\ <<m, "register">> \notin handled')
                   <=> (<<m, "deregister">> \in handled /\ <<m, "register">> \notin handled)
      BY <1>3, <2>1, <2>2
    <3>2. Named(n) \subseteq Logs
      BY DEF Named
    <3>3. QED
      BY <2>3, <3>1, <3>2 DEF Stray
  <2>7. QED
    BY <2>4, <2>5, <2>6
<1>5. \A s \in Slots : chatters[s] # l
  BY <1>1, <1>3, Kinds DEF TableInv
<1>6. Room' <=> Room
  BY <1>2 DEF Room
<1> DEFINE slots == Cardinality(SlotsOf(n))
           users == Cardinality(Registered(n))
<1>7. slots \in Nat /\ users \in Nat
  BY FiniteSlots, FS_CardinalityType
<1>8. slots <= users /\ (Room /\ ~Stray(n) => slots = users)
  BY DEF TableIs
<1>9. ASSUME slots' <= users', Room /\ ~Stray(n) => slots' = users'
      PROVE  TableIs(n)'
  BY <1>4, <1>6, <1>9 DEF TableIs
<1>10. /\ world.name[l] = n => users' = users + 1
       /\ world.name[l] # n => users' = users
  <2>1. IsFiniteSet(Registered(n))
    BY FiniteSlots
  <2>2. Cardinality(Registered(n) \union {l}) = Cardinality(Registered(n)) + 1
    BY <1>4, <2>1, OneMore
  <2>3. QED
    BY <1>4, <2>2
<1>11. /\ world.name[l] = n => slots' = slots \/ slots' = slots + 1
       /\ world.name[l] # n => slots' = slots \/ slots' = slots - 1
       /\ Room => slots' = IF world.name[l] = n THEN slots + 1 ELSE slots
  <2>1. CASE FreeSlots = {}
    <3>1. ~Room
      BY <1>1, <1>5, <2>1, RoomForAll
    <3>2. SlotsOf(n)' = SlotsOf(n)
      BY <1>2, <2>1 DEF Store, SlotsOf, Name
    <3>3. QED
      BY <3>1, <3>2
  <2>2. CASE FreeSlots # {}
    <3>1. PICK s \in FreeSlots : chatters' = [chatters EXCEPT ![s] = l]
      <4>1. FreeSlots \in SUBSET Slots
        BY DEF FreeSlots
      <4>2. First(FreeSlots) \in FreeSlots
        BY <2>2, <4>1, FirstIs
      <4>3. QED
        BY <1>2, <2>2, <4>2 DEF Store
    <3>2. s \in Slots /\ ~Used(chatters[s]) /\ chatters \in [Slots -> Logs \union {NoLog}]
      BY <3>1 DEF FreeSlots, CoreInv, DiscoveryTypeOK, Tables
    <3>3. \A t \in Slots : Name(chatters[t])' = IF t = s THEN world.name[l] ELSE Name(chatters[t])
      BY <1>1, <1>2, <3>1, <3>2, Kinds DEF Name
    <3>4. SlotsOf(n)' = IF world.name[l] = n THEN SlotsOf(n) \union {s} ELSE SlotsOf(n) \ {s}
      <4>1. SlotsOf(n)' = {t \in Slots : (IF t = s THEN world.name[l] ELSE Name(chatters[t])) = n}
        BY <3>3 DEF SlotsOf
      <4>2. QED
        BY <3>2, <4>1 DEF SlotsOf
    <3>5. Room => s \notin SlotsOf(n)
      BY <3>2 DEF Room, Used, SlotsOf, Name
    <3>9. IsFiniteSet(SlotsOf(n))
      BY FiniteSlots
    <3>6. CASE s \in SlotsOf(n)
      <4>1. /\ Cardinality(SlotsOf(n) \union {s}) = Cardinality(SlotsOf(n))
            /\ Cardinality(SlotsOf(n) \ {s}) = Cardinality(SlotsOf(n)) - 1
        BY <3>6, <3>9, OneMore
      <4>2. QED
        BY <3>4, <3>5, <3>6, <4>1
    <3>7. CASE s \notin SlotsOf(n)
      <4>1. /\ Cardinality(SlotsOf(n) \union {s}) = Cardinality(SlotsOf(n)) + 1
            /\ Cardinality(SlotsOf(n) \ {s}) = Cardinality(SlotsOf(n))
        BY <3>7, <3>9, OneMore
      <4>2. QED
        BY <3>4, <4>1
    <3>8. QED
      BY <3>6, <3>7
  <2>3. QED
    BY <2>1, <2>2
<1> HIDE DEF slots, users
<1>12. slots' <= users'
  <2>1. CASE world.name[l] = n
    <3>1. users' = users + 1 /\ (slots' = slots \/ slots' = slots + 1) /\ slots <= users
      BY <1>8, <1>10, <1>11, <2>1
    <3>2. QED
      BY <1>7, <3>1, StaysBelow
  <2>2. CASE world.name[l] # n
    <3>1. users' = users /\ (slots' = slots \/ slots' = slots - 1) /\ slots <= users
      BY <1>8, <1>10, <1>11, <2>2
    <3>2. QED
      BY <1>7, <3>1, StaysBelow
  <2>3. QED
    BY <2>1, <2>2
<1>13. Room /\ ~Stray(n) => slots' = users'
  BY <1>7, <1>8, <1>10, <1>11
<1>14. QED
  BY <1>9, <1>12, <1>13

(* A deregistration takes off one entry of that name, if there is one, and *)
(* one user, if he had registered.                                         *)
LEMMA DeregisterKeeps ==
  ASSUME CoreInv, HandledInv, TableInv, [Next]_vars, DiscoveryHandles,
         serving[Discovery][2] = "deregister", NEW n, n # "", TableIs(n)
  PROVE  TableIs(n)'
<1> DEFINE l == serving[Discovery][1]
<1>1. /\ serving[Discovery] = <<l, "deregister">> /\ l \in Logs
      /\ <<l, "deregister">> \notin gone
      /\ handled' = handled \union {<<l, "deregister">>}
  BY HandlesIs, Kinds
<1>2. world' = world /\ Store(Same(l), NoLog)
  BY Grows DEF DiscoveryHandles, handle_deregister
<1> HIDE DEF l
<1>3. <<l, "deregister">> \notin handled
  BY <1>1 DEF HandledInv
<1>4. \A m \in Logs : /\ <<m, "register">> \in handled' <=> <<m, "register">> \in handled
                      /\ m # l => (<<m, "deregister">> \in handled' <=> <<m, "deregister">> \in handled)
  BY <1>1
<1>5. Named(n)' = Named(n) /\ Named(n) \subseteq Logs /\ (Room' <=> Room)
  BY <1>2 DEF Named, Room
<1>6. Registered(n)' = Registered(n) \ {l}
  BY <1>1, <1>4, <1>5 DEF Registered
<1>7. Stray(n) => Stray(n)'
  <2>1. ASSUME NEW m \in Named(n), <<m, "deregister">> \in handled, <<m, "register">> \notin handled
        PROVE  <<m, "deregister">> \in handled' /\ <<m, "register">> \notin handled'
    BY <1>1, <1>4, <1>5, <2>1
  <2>2. QED
    BY <1>5, <2>1 DEF Stray
<1>8. world.name[l] = n /\ ~Stray(n)' => l \in Registered(n)
  <2>1. <<l, "deregister">> \in handled'
    BY <1>1
  <2>2. ASSUME world.name[l] = n, <<l, "register">> \in handled'
        PROVE  l \in Registered(n)
    BY <1>1, <1>3, <1>4, <2>2 DEF Registered, Named
  <2>3. ASSUME world.name[l] = n, <<l, "register">> \notin handled'
        PROVE  Stray(n)'
    <3>1. l \in Named(n)'
      BY <1>1, <1>5, <2>3 DEF Named
    <3>2. QED
      BY <2>1, <2>3, <3>1 DEF Stray
  <2>4. QED
    BY <2>2, <2>3
<1> DEFINE slots == Cardinality(SlotsOf(n))
           users == Cardinality(Registered(n))
<1>9. slots \in Nat /\ users \in Nat
  BY FiniteSlots, FS_CardinalityType
<1>10. slots <= users /\ (Room /\ ~Stray(n) => slots = users)
  BY DEF TableIs
<1>11. ASSUME slots' <= users', Room /\ ~Stray(n)' => slots' = users'
       PROVE  TableIs(n)'
  BY <1>5, <1>11 DEF TableIs
<1>12. /\ l \in Registered(n) => users' = users - 1
       /\ l \notin Registered(n) => users' = users
  <2>1. IsFiniteSet(Registered(n))
    BY FiniteSlots
  <2>2. /\ l \in Registered(n) =>
             Cardinality(Registered(n) \ {l}) = Cardinality(Registered(n)) - 1
        /\ l \notin Registered(n) =>
             Cardinality(Registered(n) \ {l}) = Cardinality(Registered(n))
    BY <2>1, OneMore
  <2>3. QED
    BY <1>6, <2>2
<1>14. CASE Same(l) = {}
  <2>1. SlotsOf(n)' = SlotsOf(n)
    BY <1>2, <1>14 DEF Store, SlotsOf, Name
  <2>2. world.name[l] = n => SlotsOf(n) = {}
    BY <1>14 DEF Same, SlotsOf
  <2>3. slots' = slots /\ (world.name[l] = n => slots = 0)
    BY <2>1, <2>2, FS_EmptySet
  <2>4. l \in Registered(n) => world.name[l] = n
    BY DEF Registered, Named
  <2> HIDE DEF slots, users
  <2>5. CASE world.name[l] = n /\ l \in Registered(n)
    <3>1. slots' = 0 /\ users' = users - 1 /\ slots = 0
      BY <1>12, <2>3, <2>5
    <3>2. users # 0
      <4>1. IsFiniteSet(Registered(n)) /\ Registered(n) # {}
        BY <2>5, FiniteSlots
      <4>2. QED
        BY <4>1, FS_EmptySet DEF users
    <3>3. slots' <= users'
      BY <1>9, <1>10, <3>1, <3>2, StaysBelow
    <3>4. Room /\ ~Stray(n)' => users = 0
      BY <1>7, <1>10, <3>1
    <3>5. QED
      BY <1>11, <3>2, <3>3, <3>4
  <2>6. CASE l \notin Registered(n)
    <3>1. slots' = slots /\ users' = users
      BY <1>12, <2>3, <2>6
    <3>2. QED
      BY <1>7, <1>10, <1>11, <3>1
  <2>7. QED
    BY <2>4, <2>5, <2>6
<1>15. CASE Same(l) # {}
  <2>1. PICK s \in Same(l) : chatters' = [chatters EXCEPT ![s] = NoLog]
    <3>1. Same(l) \in SUBSET Slots
      BY DEF Same
    <3>2. First(Same(l)) \in Same(l)
      BY <1>15, <3>1, FirstIs
    <3>3. QED
      BY <1>2, <1>15, <3>2 DEF Store
  <2>2. s \in Slots /\ Name(chatters[s]) = world.name[l] /\ chatters \in [Slots -> Logs \union {NoLog}]
    BY <2>1 DEF Same, CoreInv, DiscoveryTypeOK, Tables
  <2>3. \A t \in Slots : Name(chatters[t])' = IF t = s THEN "" ELSE Name(chatters[t])
    BY <1>2, <2>1, <2>2 DEF Name
  <2>4. SlotsOf(n)' = SlotsOf(n) \ {s}
    <3>1. SlotsOf(n)' = {t \in Slots : (IF t = s THEN "" ELSE Name(chatters[t])) = n}
      BY <2>3 DEF SlotsOf
    <3>2. QED
      BY <2>2, <3>1 DEF SlotsOf
  <2>5. s \in SlotsOf(n) <=> world.name[l] = n
    BY <2>2 DEF SlotsOf
  <2>6. /\ world.name[l] = n => slots' = slots - 1
        /\ world.name[l] # n => slots' = slots
    <3>1. IsFiniteSet(SlotsOf(n))
      BY FiniteSlots
    <3>2. /\ s \in SlotsOf(n) =>
               Cardinality(SlotsOf(n) \ {s}) = Cardinality(SlotsOf(n)) - 1
          /\ s \notin SlotsOf(n) =>
               Cardinality(SlotsOf(n) \ {s}) = Cardinality(SlotsOf(n))
      BY <3>1, OneMore
    <3>3. QED
      BY <2>4, <2>5, <3>2
  <2>7. l \in Registered(n) => world.name[l] = n
    BY DEF Registered, Named
  <2> HIDE DEF slots, users
  <2>8. CASE world.name[l] = n
    <3>1. slots' = slots - 1 /\ (users' = users - 1 \/ users' = users) /\ slots <= users
      BY <1>10, <1>12, <2>6, <2>8
    <3>2. slots' <= users'
      BY <1>9, <3>1, StaysBelow
    <3>3. ASSUME Room, ~Stray(n)'
          PROVE  slots' = users'
      <4>1. slots = users /\ users' = users - 1
        BY <1>7, <1>8, <1>10, <1>12, <2>8, <3>3
      <4>2. QED
        BY <3>1, <4>1
    <3>4. QED
      BY <1>11, <3>2, <3>3
  <2>9. CASE world.name[l] # n
    <3>1. slots' = slots /\ users' = users
      BY <1>12, <2>6, <2>7, <2>9
    <3>2. QED
      BY <1>7, <1>10, <1>11, <3>1
  <2>10. QED
    BY <2>8, <2>9
<1>16. QED
  BY <1>14, <1>15

(* The table follows its users: every step keeps this.                     *)
LEMMA FollowsStep ==
  CoreInv /\ HandledInv /\ TableInv /\ TableFollowsUsers /\ [Next]_vars => TableFollowsUsers'
<1> SUFFICES ASSUME CoreInv, HandledInv, TableInv, TableFollowsUsers, [Next]_vars
             PROVE  TableFollowsUsers'
  OBVIOUS
<1>1. world' = world
  BY Grows
<1>2. SUFFICES ASSUME NEW n \in {world.name[l] : l \in Logs} \ {""}
               PROVE  TableIs(n)'
  BY <1>1 DEF TableFollowsUsers, TableIs, SlotsOf, Room
<1>3. n # "" /\ TableIs(n)
  BY TableFollowsIs
<1>4. ASSUME chatters' = chatters,
             \A l \in Logs, kind \in {"register", "deregister"} :
               <<l, kind>> \in handled' <=> <<l, kind>> \in handled
      PROVE  TableIs(n)'
  <2>1. SlotsOf(n)' = SlotsOf(n) /\ Named(n)' = Named(n) /\ (Room' <=> Room) /\ Named(n) \subseteq Logs
    BY <1>1, <1>4 DEF SlotsOf, Name, Named, Room
  <2>2. \A l \in Logs : /\ <<l, "register">> \in handled' <=> <<l, "register">> \in handled
                        /\ <<l, "deregister">> \in handled' <=> <<l, "deregister">> \in handled
    BY <1>4
  <2>3. Registered(n)' = Registered(n)
    BY <2>1, <2>2 DEF Registered
  <2>4. Stray(n)' <=> Stray(n)
    BY <2>1, <2>2 DEF Stray
  <2>5. QED
    BY <1>3, <2>1, <2>3, <2>4 DEF TableIs
<1>5. CASE DiscoveryHandles
  <2> DEFINE c == serving[Discovery]
  <2>1. CASE c[2] = "register"
    BY <1>3, <1>5, <2>1, RegisterKeeps
  <2>2. CASE c[2] = "deregister"
    BY <1>3, <1>5, <2>2, DeregisterKeeps
  <2>3. CASE c[2] = "request"
    <3>1. chatters' = chatters /\ handled' = handled \union {c}
      BY <1>5, <2>3 DEF DiscoveryHandles
    <3>2. ASSUME NEW l \in Logs, NEW kind \in {"register", "deregister"}
          PROVE  <<l, kind>> # c
      <4>1. <<l, kind>>[2] # c[2]
        BY <2>3
      <4>2. QED
        BY <4>1
    <3>3. QED
      BY <1>4, <3>1, <3>2
  <2>4. QED
    BY <1>5, <2>1, <2>2, <2>3 DEF DiscoveryHandles
<1>6. CASE RestartDiscovery
  <2>1. chatters' = NoTable /\ handled' = {}
    BY <1>6 DEF RestartDiscovery
  <2>2. SlotsOf(n)' = {} /\ Registered(n)' = {}
    BY <1>3, <2>1 DEF SlotsOf, Registered, NoTable, Name
  <2>3. QED
    <3>1. Cardinality({}) = 0
      BY FS_EmptySet
    <3>2. Cardinality(SlotsOf(n)') = 0 /\ Cardinality(Registered(n)') = 0
      BY <2>2, <3>1
    <3>3. Cardinality(SlotsOf(n))' = 0 /\ Cardinality(Registered(n))' = 0
      BY <3>2
    <3>4. \A c, d : c = 0 /\ d = 0 => d <= c
      BY ZeroBelowZero
    <3>5. Cardinality(SlotsOf(n))' <= Cardinality(Registered(n))'
      BY <3>3, <3>4
    <3>6. QED
      BY <3>3, <3>5 DEF TableIs
<1>7. CASE UNCHANGED <<chatters, reply, handled>>
  BY <1>4, <1>7
<1>8. QED
  BY <1>5, <1>6, <1>7, Grows

-----------------------------------------------------------------------------
(* The theorems                                                            *)

(* The inductive invariant holds at first.                                 *)
LEMMA ChatStarts == Init => ChatInv
<1> SUFFICES ASSUME Init
             PROVE  ChatInv
  OBVIOUS
<1>1. CoreInv
  BY CoreStarts
<1>2. /\ chatters = NoTable /\ sent = {} /\ gone = {} /\ handled = {} /\ stopped = {}
      /\ printed = <<>> /\ dpc = "accept"
      /\ \A c \in Chats : /\ ~reply[c].sent /\ reply[c].table = NoTable
                          /\ list[c] = NoTable /\ chosen[c] = NoLog
      /\ \A l \in Logs : lpc[l] = <<"boot", "listen">>
      /\ \A s \in Servers : ~ctrl_c[s]
  BY DEF Init
<1>3. HandledInv /\ GoneInv /\ ForgottenInv
  BY <1>2 DEF HandledInv, GoneInv, ForgottenInv, At
<1>4. TableInv
  BY <1>2 DEF TableInv, NoTable
<1>5. CopyInv
  <2>1. \A i \in 1..Len(printed) : FALSE
    BY <1>2
  <2>2. QED
    BY <1>2, <2>1 DEF CopyInv, NoTable
<1>6. SignalInv
  BY <1>2 DEF SignalInv
<1>7. ServersStayUp
  BY <1>2 DEF ServersStayUp, At
<1>8. TableFollowsUsers
  <2>1. ASSUME NEW n, n # ""
        PROVE  TableIs(n)
    <3>1. SlotsOf(n) = {} /\ Registered(n) = {}
      BY <1>2, <2>1 DEF SlotsOf, Registered, NoTable, Name
    <3>2. QED
      BY <3>1, FS_EmptySet DEF TableIs
  <2>2. QED
    BY <2>1, TableFollowsIs
<1>9. QED
  BY <1>1, <1>3, <1>4, <1>5, <1>6, <1>7, <1>8 DEF ChatInv

(* The inductive invariant always holds.                                   *)
LEMMA ChatInvariant == Spec => []ChatInv
<1>1. ChatInv /\ [Next]_vars => ChatInv'
  BY CoreStep, HandledStep, TableStep, CopyStep, GoneStep, SignalStep, ForgottenStep, UpStep,
     FollowsStep DEF ChatInv
<1>2. QED
  BY <1>1, ChatStarts, PTL DEF Spec

(* The table follows the registrations and deregistrations (discovery.c),  *)
(* however the connections of several logs are interleaved, lost in a      *)
(* crash or cut off by Ctrl-C: never more entries of a name than users     *)
(* registered under it, and no fewer where there is room.                  *)
THEOREM TableIsRight == Spec => []TableFollowsUsers
<1>1. ChatInv => TableFollowsUsers
  BY DEF ChatInv
<1>2. QED
  BY <1>1, ChatInvariant, PTL

(* A server exits only on Ctrl-C, by a crash, because a client hung up,    *)
(* or, a log, because there was no discovery server to register with (the  *)
(* loops of discovery.c and log.c).                                        *)
THEOREM ServersStay == Spec => []ServersStayUp
<1>1. ChatInv => ServersStayUp
  BY DEF ChatInv
<1>2. QED
  BY <1>1, ChatInvariant, PTL

(* Who is listed, in the table or in a chat's copy of it, listens, or has  *)
(* exited since: a log listens before it registers (log.c).                *)
THEOREM ListedAreListening == Spec => []ListedIsListening
<1>1. ChatInv => ListedIsListening
  <2> SUFFICES ASSUME ChatInv, NEW l \in Logs,
                      \E s \in Slots : chatters[s] = l \/ \E c \in Chats : list[c][s] = l
               PROVE  Listening(l) \/ At(l, "exited", "exited")
    BY DEF ListedIsListening
  <2>1. l # NoLog /\ l # Discovery
    BY Kinds
  <2>2. <<l, "register">> \in sent
    <3>1. ASSUME NEW s \in Slots, chatters[s] = l
          PROVE  <<l, "register">> \in sent
      BY <2>1, <3>1 DEF ChatInv, TableInv, HandledInv
    <3>2. ASSUME NEW s \in Slots, NEW c \in Chats, list[c][s] = l
          PROVE  <<l, "register">> \in sent
      <4>1. list[c] # NoTable
        BY <2>1, <3>2 DEF NoTable
      <4>2. reply[c].table[s] = l
        BY <3>2, <4>1 DEF ChatInv, CopyInv
      <4>3. QED
        BY <2>1, <4>2 DEF ChatInv, CopyInv
    <3>3. QED
      BY <3>1, <3>2
  <2>3. lpc[l][1] \notin {"boot", "register"}
    BY <2>2 DEF ChatInv, CoreInv, ClientInv, LogClient
  <2>4. lpc[l] \in Calls
    BY DEF ChatInv, CoreInv, LogTypeOK
  <2>5. lpc[l][1] \in OpenPhases \/ lpc[l] = <<"exited", "exited">>
    BY <2>3, <2>4 DEF Calls, OpenPhases
  <2>6. QED
    BY <2>1, <2>5 DEF Listening, At
<1>2. QED
  BY <1>1, ChatInvariant, PTL

(* Where accepted sockets do not block, one Ctrl-C makes a log that was    *)
(* listed send its deregistration before it exits (log.c), unless a chat   *)
(* hung up on it or the discovery server is down.                          *)
THEOREM CtrlCMeansDeregistered == Spec => []CtrlCDeregistersPortably
<1>1. ChatInv => CtrlCDeregistersPortably
  <2> SUFFICES ASSUME ChatInv, ~world.blocking, NEW l \in Logs,
                      At(l, "exited", "exited"), <<l, "register">> \in handled,
                      dpc # "exited", ~\E c \in Chats : <<c, "chat">> \in closed \ sent,
                      signals = 1
               PROVE  <<l, "deregister">> \in sent
    BY DEF CtrlCDeregistersPortably, CtrlCDeregisters
  <2>1. ~Forgotten(l)
    BY DEF ChatInv, HandledInv, Forgotten
  <2>2. QED
    BY <2>1 DEF ChatInv, ForgottenInv
<1>2. QED
  BY <1>1, ChatInvariant, PTL

-----------------------------------------------------------------------------
(* The service is a messenger                                              *)

(* What a messenger knows of its chats.                                    *)
Asked == {c \in Chats : reply[c].sent}
Seen == [c \in Chats |-> Listed(reply[c].table)]

(* The service starts as a messenger with an empty directory.              *)
LEMMA MessengerStarts == Init => Service!MessengerInit
<1> SUFFICES ASSUME Init
             PROVE  Service!MessengerInit
  OBVIOUS
<1>1. chatters = NoTable /\ printed = <<>> /\ reply = [c \in Chats |-> [sent |-> FALSE, table |-> NoTable]]
  BY DEF Init
<1>2. Listed(NoTable) = {}
  BY Kinds DEF Listed, NoTable
<1>3. {c \in Chats : reply[c].sent} = {}
  BY <1>1
<1>4. [c \in Chats |-> Listed(reply[c].table)] = [c \in Chats |-> {}]
  <2>1. \A c \in Chats : reply[c].table = NoTable
    BY <1>1
  <2>2. \A c \in Chats : Listed(reply[c].table) = {}
    BY <1>2, <2>1
  <2>3. QED
    BY <2>2
<1>5. QED
  BY <1>1, <1>2, <1>3, <1>4 DEF Service!MessengerInit

(* A change of the table is a log that joins, or one that leaves.          *)
LEMMA TableMoves ==
  ASSUME CoreInv, HandledInv, TableInv, [Next]_vars, DiscoveryHandles, chatters' # chatters
  PROVE  \/ Listed(chatters)' = Listed(chatters)
         \/ \E l \in Logs : l \notin Listed(chatters) /\ Listed(chatters)' = Listed(chatters) \union {l}
         \/ \E l \in Logs : l \in Listed(chatters) /\ Listed(chatters)' = Listed(chatters) \ {l}
<1> DEFINE c == serving[Discovery]
<1>1. c = <<c[1], c[2]>> /\ c \in Connections /\ c \notin handled
  BY HandlesIs DEF HandledInv
<1>2. world' = world /\ chatters \in [Slots -> Logs \union {NoLog}]
  BY Grows DEF CoreInv, DiscoveryTypeOK, Tables
<1>3. \/ c[2] = "register" /\ Store(FreeSlots, c[1])
      \/ c[2] = "deregister" /\ Store(Same(c[1]), NoLog)
  BY DEF DiscoveryHandles, handle_register, handle_deregister
<1>4. \A l \in Logs : Used(l)' <=> Used(l)
  BY <1>2 DEF Used
<1>5. CASE c[2] = "register" /\ Store(FreeSlots, c[1])
  <2> DEFINE l == c[1]
  <2>1. l \in Logs /\ \A s \in Slots : chatters[s] # l
    BY <1>1, <1>5, Kinds DEF TableInv
  <2>2. PICK s \in FreeSlots : chatters' = [chatters EXCEPT ![s] = l]
    <3>1. FreeSlots \in SUBSET Slots /\ FreeSlots # {}
      BY <1>5 DEF FreeSlots, Store
    <3>2. First(FreeSlots) \in FreeSlots
      BY <3>1, FirstIs
    <3>3. QED
      BY <1>5, <3>1, <3>2 DEF Store
  <2>3. s \in Slots /\ ~Used(chatters[s])
    BY <2>2 DEF FreeSlots
  <2> HIDE DEF l
  <2>4. l \notin Listed(chatters)
    BY <2>1 DEF Listed
  <2>5. \A t \in Slots : chatters'[t] = IF t = s THEN l ELSE chatters[t]
    BY <1>2, <2>2
  <2>6. ASSUME NEW m \in Logs
        PROVE  m \in Listed(chatters)' <=> m \in Listed(chatters) \/ (m = l /\ Used(l))
    <3>1. m \in Listed(chatters)' <=> Used(m) /\ \E t \in Slots : chatters'[t] = m
      BY <1>4 DEF Listed
    <3>2. m \in Listed(chatters) <=> Used(m) /\ \E t \in Slots : chatters[t] = m
      BY DEF Listed
    <3>3. QED
      BY <2>3, <2>5, <3>1, <3>2
  <2>7. Listed(chatters)' \subseteq Logs /\ Listed(chatters) \subseteq Logs
    BY DEF Listed
  <2>8. Listed(chatters)' = Listed(chatters) \/ Listed(chatters)' = Listed(chatters) \union {l}
    BY <2>1, <2>6, <2>7
  <2>9. QED
    BY <2>1, <2>4, <2>8
<1>6. CASE c[2] = "deregister" /\ Store(Same(c[1]), NoLog)
  <2>1. PICK s \in Slots : chatters' = [chatters EXCEPT ![s] = NoLog]
    <3>1. Same(c[1]) \in SUBSET Slots /\ Same(c[1]) # {}
      BY <1>6 DEF Same, Store
    <3>2. First(Same(c[1])) \in Same(c[1])
      BY <3>1, FirstIs
    <3>3. QED
      BY <1>6, <3>1, <3>2 DEF Store
  <2>2. \A t \in Slots : chatters'[t] = IF t = s THEN NoLog ELSE chatters[t]
    BY <1>2, <2>1
  <2>3. ASSUME NEW m \in Logs
        PROVE  m \in Listed(chatters)' <=> m \in Listed(chatters) /\ m # chatters[s]
    <3>1. m \in Listed(chatters)' <=> Used(m) /\ \E t \in Slots : chatters'[t] = m
      BY <1>4 DEF Listed
    <3>2. m \in Listed(chatters) <=> Used(m) /\ \E t \in Slots : chatters[t] = m
      BY DEF Listed
    <3>3. m # NoLog
      BY Kinds
    <3>4. ASSUME m = chatters[s], NEW t \in Slots, chatters'[t] = m
          PROVE  FALSE
      BY <2>2, <3>3, <3>4 DEF TableInv
    <3>5. QED
      BY <2>2, <3>1, <3>2, <3>3, <3>4
  <2>4. Listed(chatters)' \subseteq Logs /\ Listed(chatters) \subseteq Logs
    BY DEF Listed
  <2>5. Listed(chatters)' = Listed(chatters) \ {chatters[s]}
    BY <2>3, <2>4
  <2>6. CASE chatters[s] \in Listed(chatters)
    BY <2>4, <2>5, <2>6
  <2>7. CASE chatters[s] \notin Listed(chatters)
    BY <2>5, <2>7
  <2>8. QED
    BY <2>6, <2>7
<1>7. QED
  BY <1>3, <1>5, <1>6

(* Every step of the service is a step of the messenger, or none that it   *)
(* sees.                                                                   *)
LEMMA MessengerStep ==
  CoreInv /\ HandledInv /\ TableInv /\ CopyInv /\ [Next]_vars
    => [Service!MessengerNext]_(Service!messengerVars)
<1> SUFFICES ASSUME CoreInv, HandledInv, TableInv, CopyInv, [Next]_vars
             PROVE  Service!MessengerNext \/ UNCHANGED Service!messengerVars
  OBVIOUS
<1> USE DEF Asked, Seen
<1>1. UNCHANGED <<Listed(chatters), Asked, Seen, printed>> => UNCHANGED Service!messengerVars
  BY DEF Service!messengerVars
<1>2. world' = world
  BY Grows
<1>3. reply' = reply => Asked' = Asked /\ Seen' = Seen
  BY <1>2 DEF Listed, Used
<1>4. chatters' = chatters => Listed(chatters)' = Listed(chatters)
  BY <1>2 DEF Listed, Used
<1>5. CASE printed' # printed
  <2>1. PICK l \in Logs, c \in Chats :
          /\ LogStep(l) /\ chosen[c] = l /\ printed' = Append(printed, <<l, c>>)
          /\ <<c, "chat">> \notin gone
    BY <1>5, Prints
  <2>2. UNCHANGED <<chatters, reply>>
    BY <2>1, LogStepFrame
  <2>3. l \in Listed(reply[c].table)
    BY <2>1, Kinds DEF CopyInv
  <2>4. l \in Seen[c]
    BY <2>3
  <2>5. \A i \in 1..Len(printed) : printed[i][2] # c
    BY <2>1 DEF CopyInv
  <2>6. Service!Deliver(c, l)
    BY <1>3, <1>4, <2>1, <2>2, <2>4, <2>5 DEF Service!Deliver
  <2>7. QED
    BY <2>6 DEF Service!MessengerNext
<1>6. CASE printed' = printed /\ DiscoveryHandles
  <2>1. CASE chatters' # chatters
    <3>1. reply' = reply
      BY <1>6, <2>1 DEF DiscoveryHandles
    <3>2. CASE Listed(chatters)' = Listed(chatters)
      BY <1>1, <1>3, <1>6, <3>1, <3>2
    <3>3. ASSUME NEW l \in Logs, l \notin Listed(chatters),
                 Listed(chatters)' = Listed(chatters) \union {l}
          PROVE  Service!Join(l)
      BY <1>3, <1>6, <3>1, <3>3 DEF Service!Join
    <3>4. ASSUME NEW l \in Logs, l \in Listed(chatters),
                 Listed(chatters)' = Listed(chatters) \ {l}
          PROVE  Service!Leave(l)
      BY <1>3, <1>6, <3>1, <3>4 DEF Service!Leave
    <3>5. QED
      BY <1>6, <2>1, <3>2, <3>3, <3>4, TableMoves DEF Service!MessengerNext
  <2>2. CASE chatters' = chatters /\ reply' # reply
    <3>1. PICK c \in Chats :
            /\ <<c, "request">> \notin gone
            /\ reply' = [reply EXCEPT ![c] = [sent |-> TRUE, table |-> chatters]]
      <4> DEFINE d == serving[Discovery]
      <4>1. d[2] = "request" /\ reply' = [reply EXCEPT ![d[1]] = [sent |-> TRUE, table |-> chatters]]
        BY <1>6, <2>2 DEF DiscoveryHandles, handle_request
      <4>2. d \in Connections /\ d \notin gone
        BY <1>6, HandlesIs
      <4> HIDE DEF d
      <4>3. d = <<d[1], "request">> /\ d[1] \in Chats
        BY <4>1, <4>2, Kinds
      <4>4. <<d[1], "request">> \notin gone
        BY <4>2, <4>3
      <4>5. QED
        BY <4>1, <4>3, <4>4
    <3>2. reply \in [Chats -> [sent : BOOLEAN, table : Tables]]
      BY DEF CoreInv, DiscoveryTypeOK
    <3>3. ~reply[c].sent
      BY <3>1 DEF CopyInv
    <3>4. /\ reply'[c] = [sent |-> TRUE, table |-> chatters]
          /\ \A d \in Chats : d # c => reply'[d] = reply[d]
      BY <3>1, <3>2
    <3>5. c \notin Asked /\ Asked' = Asked \union {c}
      BY <3>1, <3>3, <3>4
    <3>6. Seen' = [Seen EXCEPT ![c] = Listed(chatters)]
      <4>1. \A d \in Chats : Listed(reply[d].table)' = IF d = c THEN Listed(chatters) ELSE Listed(reply[d].table)
        BY <1>2, <3>4 DEF Listed, Used
      <4>2. Seen' = [d \in Chats |-> IF d = c THEN Listed(chatters) ELSE Listed(reply[d].table)]
        BY <4>1
      <4>3. QED
        BY <3>1, <4>2
    <3>7. Service!Ask(c)
      BY <1>4, <1>6, <2>2, <3>5, <3>6 DEF Service!Ask
    <3>8. QED
      BY <3>1, <3>7 DEF Service!MessengerNext
  <2>3. CASE chatters' = chatters /\ reply' = reply
    BY <1>1, <1>3, <1>4, <1>6, <2>3
  <2>4. QED
    BY <2>1, <2>2, <2>3
<1>7. CASE printed' = printed /\ RestartDiscovery
  <2>1. chatters' = NoTable /\ reply' = reply
    BY <1>7 DEF RestartDiscovery
  <2>2. Listed(chatters)' = {}
    BY <2>1, Kinds DEF Listed, NoTable
  <2>3. Service!LoseDirectory
    BY <1>3, <1>7, <2>1, <2>2 DEF Service!LoseDirectory
  <2>4. QED
    BY <2>3 DEF Service!MessengerNext
<1>8. CASE printed' = printed /\ UNCHANGED <<chatters, reply, handled>>
  BY <1>1, <1>3, <1>4, <1>8
<1>9. QED
  BY <1>5, <1>6, <1>7, <1>8, Grows

(* The three programs implement Messenger.tla: a chat is shown the         *)
(* directory once and as it was at one moment, what it sends is delivered  *)
(* once at most and to a log it was shown, and the directory changes by    *)
(* one log at a time or is lost as a whole.                                *)
THEOREM ServiceIsMessenger == Spec => ImplementsMessenger
<1>1. ChatInv => CoreInv /\ HandledInv /\ TableInv /\ CopyInv
  BY DEF ChatInv
<1>2. QED
  BY <1>1, MessengerStarts, MessengerStep, ChatInvariant, PTL
     DEF Spec, ImplementsMessenger, Service!MessengerSpec

=============================================================================
