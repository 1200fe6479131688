---------------------------- MODULE ChatService -----------------------------
(***************************************************************************)
(* The three programs of Lab3 and the connections between them: one        *)
(* discovery server (discovery.c) that keeps the table of users, logs      *)
(* (log.c) that register, print what they are sent and deregister, and     *)
(* chats (chat.c) that ask for the table, choose a log and write to it.    *)
(* Each server serves one connection at a time.                            *)
(*                                                                         *)
(* A message has a fixed size and is sent and received whole, or not at    *)
(* all: how the loops of util.h achieve this is the business of            *)
(* Transfer.tla.  A connection can be made as soon as the server listens,  *)
(* before it accepts; the kernel keeps it in the server's backlog.  Its    *)
(* data can be read after the client has closed it.                        *)
(*                                                                         *)
(* Processes die: by Ctrl-C, which the servers handle and the chats do     *)
(* not, and the discovery server by a crash too, after which it is started *)
(* again with an empty table.                                              *)
(***************************************************************************)
EXTENDS Integers, Sequences, FiniteSets

CONSTANTS Logs, Chats,   (* the processes                                  *)
          Discovery,     (* the discovery server                           *)
          NumSlots,      (* the 32 of ChattersMessage                      *)
          Worlds         (* the circumstances: per log, its name (the      *)
                         (* second argument); the logs whose third         *)
                         (* argument is no number; does accept give a      *)
                         (* blocking socket, as it does on Linux? (BSD: as *)
                         (* the listening socket); and the bounds: how     *)
                         (* many signals there are, and restarts           *)

ASSUME ProcessAssumption ==
  /\ IsFiniteSet(Logs) /\ "none" \notin Logs \union {Discovery}
  /\ Logs \intersect Chats = {} /\ Discovery \notin Logs \union Chats
ASSUME TableAssumption == NumSlots \in Nat \ {0}
ASSUME WorldAssumption ==
  \A w \in Worlds : /\ DOMAIN w.name = Logs /\ w.zero \subseteq Logs
                    /\ w.blocking \in BOOLEAN
                    /\ w.signals \in Nat /\ w.restarts \in Nat

Servers == Logs \union {Discovery}
Slots == 1..NumSlots
NoLog == "none"     (* a user of zeros                                     *)

(* A connection is named by its client and what it is for.                 *)
Connections == (Logs \X {"register", "deregister"})
                 \union (Chats \X {"request", "chat"})
NoConnection == <<"none", "none">>

VARIABLES
  world,
  chatters,   (* the table of the discovery server: the log in each slot   *)
  dpc,        (* where the discovery server is                             *)
  backlog,    (* per server, the connections it has not accepted           *)
  serving,    (* per server, the connection it has accepted                *)
  lpc,        (* where each log is: what it does, and which call           *)
  ctrl_c,     (* per server, the variable ctrl_c_pressed                   *)
  cpc,        (* where each chat is                                        *)
  list,       (* the copy of the table each chat has received              *)
  chosen,     (* the log each chat has connected to                        *)
  sent,       (* the connections whose client has sent its message         *)
  closed,     (* the connections closed by their client                    *)
  gone,       (* the connections closed by their server                    *)
  reply,      (* the table sent to each chat                               *)
  printed,    (* history: the chats whose message a log has printed        *)
  handled,    (* history: what the discovery server has carried out since  *)
              (* it was started                                            *)
  stopped,    (* history: the servers at which Ctrl-C was pressed, or that *)
              (* crashed                                                   *)
  signals,    (* how many signals there have been                          *)
  restarts    (* how often the discovery server has been started again     *)

discoveryVars == <<chatters, dpc, reply, handled>>
logVars == <<lpc, printed>>
chatVars == <<cpc, list, chosen>>
serverNet == <<backlog, serving, gone>>
netVars == <<serverNet, sent, closed>>
faultVars == <<world, stopped, signals, restarts>>
vars == <<discoveryVars, logVars, chatVars, netVars, ctrl_c, faultVars>>

(* Mutant: a table with one entry more than there are slots.               *)
LongTable == [s \in Slots \union {NumSlots + 1} |-> NoLog]
NoTable == [s \in Slots |-> NoLog]

Calls == ({"register", "deregister"} \X {"dial", "dialing", "send"})
           \union ({"serve"} \X {"accept", "test", "recv"})
           \union {<<"boot", "listen">>, <<"exited", "exited">>}
Tables == [Slots -> Logs \union {NoLog}]

TypeOK ==
  /\ world \in Worlds
  /\ chatters \in Tables
  /\ dpc \in {"accept", "test", "recv", "handle", "exited"}
  /\ backlog \in [Servers -> Seq(Connections)]
  /\ serving \in [Servers -> Connections \union {NoConnection}]
  /\ lpc \in [Logs -> Calls]
  /\ ctrl_c \in [Servers -> BOOLEAN]
  /\ cpc \in [Chats -> {"dial", "dialing", "await", "choose", "typing", "done"}]
  /\ list \in [Chats -> Tables] /\ chosen \in [Chats -> Logs \union {NoLog}]
  /\ sent \subseteq Connections /\ closed \subseteq Connections
  /\ gone \subseteq Connections /\ handled \subseteq Connections
  /\ reply \in [Chats -> [sent : BOOLEAN, table : Tables]]
  /\ printed \in Seq(Logs \X Chats)
  /\ stopped \subseteq Servers
  /\ signals \in 0..world.signals /\ restarts \in 0..world.restarts

Init ==
  /\ world \in Worlds
  /\ chatters = NoTable
  /\ dpc = "accept"
  /\ backlog = [s \in Servers |-> <<>>]
  /\ serving = [s \in Servers |-> NoConnection]
  /\ lpc = [l \in Logs |-> <<"boot", "listen">>]
  /\ ctrl_c = [s \in Servers |-> FALSE]
  /\ cpc = [c \in Chats |-> "dial"]
  /\ list = [c \in Chats |-> NoTable]
  /\ chosen = [c \in Chats |-> NoLog]
  /\ sent = {} /\ closed = {} /\ gone = {}
  /\ reply = [c \in Chats |-> [sent |-> FALSE, table |-> NoTable]]
  /\ printed = <<>>
  /\ handled = {}
  /\ stopped = {}
  /\ signals = 0 /\ restarts = 0

-----------------------------------------------------------------------------
(* Connections                                                             *)

(* Mutant: a log closes its listening socket when it leaves its loop.      *)
OpenInLoop == {"register", "serve"}
OpenPhases == {"register", "serve", "deregister"}

Listening(s) == IF s = Discovery THEN dpc # "exited" ELSE lpc[s][1] \in OpenPhases

(* Mutant: the handler of the signal has no effect.                        *)
NeverInterrupted(s) == FALSE
Interrupted(s) == ctrl_c[s]

(* connect(): the handshake needs no accept.                               *)
Dial(c, s) == backlog' = [backlog EXCEPT ![s] = Append(@, c)]

(* accept() returns the oldest connection.                                 *)
AcceptNext(s) ==
  /\ backlog[s] # <<>>
  /\ serving' = [serving EXCEPT ![s] = Head(backlog[s])]
  /\ backlog' = [backlog EXCEPT ![s] = Tail(@)]

(* A server that exits closes what it serves and what it never accepted.   *)
Pending(s) ==
  {backlog[s][i] : i \in 1..Len(backlog[s])}
    \union (IF serving[s] = NoConnection THEN {} ELSE {serving[s]})
CloseServer(s) ==
  /\ gone' = gone \union Pending(s)
  /\ backlog' = [backlog EXCEPT ![s] = <<>>]
  /\ serving' = [serving EXCEPT ![s] = NoConnection]

(* close() of the connection a server has served.                          *)
CloseServed(s) ==
  /\ gone' = gone \union {serving[s]}
  /\ serving' = [serving EXCEPT ![s] = NoConnection]

(* What recv finds: the message, or the end of a stream without one.       *)
(* Mutant: a client that has not sent its message yet is taken for one     *)
(* that hung up.                                                           *)
HasMessage(c) == c \in sent
NotYetSent(c) == c \notin sent
HungUp(c) == c \in closed \ sent

-----------------------------------------------------------------------------
(* discovery.c                                                             *)

(* A port of 0 is what tells a free slot from a used one.                  *)
Used(e) == e # NoLog /\ e \notin world.zero
Name(e) == IF e = NoLog THEN "" ELSE world.name[e]

(* The first of some slots of the table is given to a user, if there is one. *)
First(P) == CHOOSE s \in P : \A t \in P : s <= t
Store(P, e) == chatters' = IF P = {} THEN chatters ELSE [chatters EXCEPT ![First(P)] = e]

(* Mutant: a slot is taken without a look at who is in it.                 *)
AnySlot == Slots
FreeSlots == {s \in Slots : ~Used(chatters[s])}
handle_register(l) == Store(FreeSlots, l)

(* Mutant: the result of strcmp is taken for "equal".                      *)
Other(l) == {s \in Slots : Name(chatters[s]) # world.name[l]}
Same(l) == {s \in Slots : Name(chatters[s]) = world.name[l]}

(* The entry is looked up by its name alone.                               *)
handle_deregister(l) == Store(Same(l), NoLog)

(* send_until_success sends nothing once Ctrl-C has been pressed.          *)
handle_request(c) ==
  reply' = IF Interrupted(Discovery) THEN reply
           ELSE [reply EXCEPT ![c] = [sent |-> TRUE, table |-> chatters]]

DiscoveryExits == dpc' = "exited" /\ CloseServer(Discovery)

DiscoveryAccepts ==
  /\ dpc = "accept"
  /\ \/ Interrupted(Discovery) /\ DiscoveryExits
     \/ /\ ~Interrupted(Discovery)
        /\ AcceptNext(Discovery) /\ dpc' = "test" /\ UNCHANGED gone

(* recv_until_success: the condition of its while.                         *)
DiscoveryTests ==
  /\ dpc = "test"
  /\ \/ Interrupted(Discovery) /\ DiscoveryExits
     \/ ~Interrupted(Discovery) /\ dpc' = "recv" /\ UNCHANGED serverNet

(* A client that hung up without a message makes the server exit.  signal  *)
(* lets recv resume after Ctrl-C.                                          *)
DiscoveryReceives ==
  LET c == serving[Discovery] IN
  /\ dpc = "recv"
  /\ \/ HasMessage(c) /\ dpc' = "handle" /\ UNCHANGED serverNet
     \/ HungUp(c) /\ DiscoveryExits
     \/ /\ ~world.blocking /\ ~HasMessage(c) /\ ~HungUp(c)
        /\ dpc' = "test" /\ UNCHANGED serverNet

DiscoveryHandles ==
  LET c == serving[Discovery] IN
  /\ dpc = "handle"
  /\ \/ c[2] = "request" /\ handle_request(c[1]) /\ UNCHANGED chatters
     \/ c[2] = "register" /\ handle_register(c[1]) /\ UNCHANGED reply
     \/ c[2] = "deregister" /\ handle_deregister(c[1]) /\ UNCHANGED reply
  /\ handled' = handled \union {c}
  /\ CloseServed(Discovery) /\ UNCHANGED backlog
  /\ dpc' = "accept"

-----------------------------------------------------------------------------
(* log.c                                                                   *)

At(l, doing, call) == lpc[l] = <<doing, call>>
Goto(l, doing, call) == lpc' = [lpc EXCEPT ![l] = <<doing, call>>]

(* return from main: every descriptor is closed.                           *)
LogExits(l) ==
  /\ Goto(l, "exited", "exited")
  /\ CloseServer(l)
  /\ closed' = closed \union {c \in Pending(Discovery) : c[1] = l}

(* socket, bind and listen, before the log registers.                      *)
StartLog(l) ==
  /\ At(l, "boot", "listen")
  /\ Goto(l, "register", "dial")
  /\ UNCHANGED <<netVars, ctrl_c, printed>>

(* The first connect() of connect_until_success: in progress, or refused.  *)
LogDials(l, what) ==
  /\ At(l, what, "dial")
  /\ \/ /\ ~Interrupted(l) /\ Listening(Discovery)
        /\ Dial(<<l, what>>, Discovery)
        /\ Goto(l, what, "dialing")
        /\ UNCHANGED <<serving, gone, closed>>
     \/ (Interrupted(l) \/ ~Listening(Discovery)) /\ LogExits(l)
  /\ UNCHANGED <<sent, ctrl_c, printed>>

(* The next one: established, unless Ctrl-C or a reset came first.  Of a   *)
(* connection the server has closed already it may say either.             *)
LogConnects(l, what) ==
  /\ At(l, what, "dialing")
  /\ \/ (Interrupted(l) \/ <<l, what>> \in gone) /\ LogExits(l)
     \/ /\ ~Interrupted(l)
        /\ Goto(l, what, "send") /\ UNCHANGED <<serverNet, closed>>
  /\ UNCHANGED <<sent, ctrl_c, printed>>

(* send_until_success sends nothing once Ctrl-C has been pressed; its      *)
(* status is not looked at, and the connection is closed.                  *)
LogSends(l, what) ==
  /\ At(l, what, "send")
  /\ sent' = IF Interrupted(l) \/ <<l, what>> \in gone THEN sent
             ELSE sent \union {<<l, what>>}
  /\ \/ /\ what = "register"
        /\ closed' = closed \union {<<l, what>>}
        /\ Goto(l, "serve", "accept")
        /\ UNCHANGED serverNet
     \/ what = "deregister" /\ LogExits(l)
  /\ UNCHANGED <<ctrl_c, printed>>

(* Mutant: the reset of ctrl_c_pressed is forgotten.                       *)
NotReset(l) == ctrl_c
Reset(l) == [ctrl_c EXCEPT ![l] = FALSE]

(* The loop is left, and ctrl_c_pressed is reset for what follows.         *)
LeaveLoop(l) ==
  /\ ctrl_c' = Reset(l)
  /\ Goto(l, "deregister", "dial")
  /\ UNCHANGED <<backlog, serving>>

LogAccepts(l) ==
  /\ At(l, "serve", "accept")
  /\ IF Interrupted(l) THEN LeaveLoop(l)
     ELSE AcceptNext(l) /\ Goto(l, "serve", "test") /\ UNCHANGED ctrl_c
  /\ UNCHANGED <<sent, closed, gone, printed>>

LogTests(l) ==
  /\ At(l, "serve", "test")
  /\ IF Interrupted(l) THEN LeaveLoop(l)
     ELSE Goto(l, "serve", "recv") /\ UNCHANGED <<ctrl_c, backlog, serving>>
  /\ UNCHANGED <<sent, closed, gone, printed>>

(* The message is printed, or the chat hung up without one and the log     *)
(* exits, without deregistering.                                           *)
LogReceives(l) ==
  LET c == serving[l] IN
  /\ At(l, "serve", "recv")
  /\ \/ /\ HasMessage(c)
        /\ printed' = Append(printed, <<l, c[1]>>)
        /\ CloseServed(l)
        /\ Goto(l, "serve", "accept")
        /\ UNCHANGED <<backlog, closed>>
     \/ HungUp(c) /\ LogExits(l) /\ UNCHANGED printed
     \/ /\ ~world.blocking /\ ~HasMessage(c) /\ ~HungUp(c)
        /\ Goto(l, "serve", "test")
        /\ UNCHANGED <<serverNet, closed, printed>>
  /\ UNCHANGED <<sent, ctrl_c>>

-----------------------------------------------------------------------------
(* chat.c                                                                  *)

ChatGoes(c, to) == cpc' = [cpc EXCEPT ![c] = to]

ChatDials(c) ==
  /\ cpc[c] = "dial"
  /\ IF Listening(Discovery) THEN Dial(<<c, "request">>, Discovery) /\ ChatGoes(c, "dialing")
     ELSE ChatGoes(c, "done") /\ UNCHANGED backlog
  /\ UNCHANGED <<list, chosen, sent, closed>>

ChatRequests(c) ==
  /\ cpc[c] = "dialing"
  /\ IF <<c, "request">> \in gone THEN ChatGoes(c, "done") /\ UNCHANGED sent
     ELSE sent' = sent \union {<<c, "request">>} /\ ChatGoes(c, "await")
  /\ UNCHANGED <<list, chosen, backlog, closed>>

(* recv returns 0: the server has closed the connection and not replied.   *)
(* Mutant: this is not taken for the end.                                  *)
NeverUnanswered(c) == FALSE
Unanswered(c) == ~reply[c].sent /\ <<c, "request">> \in gone

(* print_chatters counts the used slots; with none the chat ends.          *)
ChatReceives(c) ==
  /\ cpc[c] = "await"
  /\ \/ /\ reply[c].sent
        /\ list' = [list EXCEPT ![c] = reply[c].table]
        /\ ChatGoes(c, IF \E s \in Slots : Used(list'[c][s]) THEN "choose" ELSE "done")
     \/ Unanswered(c) /\ ChatGoes(c, "done") /\ UNCHANGED list
  /\ closed' = closed \union {<<c, "request">>}
  /\ UNCHANGED <<chosen, backlog, sent>>

(* A slot with a log that listens is chosen, or else the chat ends: with   *)
(* an index off the table, or with a slot to which nobody can connect,     *)
(* because it is free and has port 0 or because its log has exited in the  *)
(* meantime.                                                               *)
ChatChooses(c) ==
  /\ cpc[c] = "choose"
  /\ \/ \E l \in {list[c][s] : s \in Slots} :
          /\ Used(l) /\ Listening(l)
          /\ Dial(<<c, "chat">>, l)
          /\ chosen' = [chosen EXCEPT ![c] = l]
          /\ ChatGoes(c, "typing")
     \/ ChatGoes(c, "done") /\ UNCHANGED <<backlog, chosen>>
  /\ UNCHANGED <<list, sent, closed>>

(* The user has typed the message: it is sent and the connection closed.   *)
ChatSends(c) ==
  /\ cpc[c] = "typing"
  /\ sent' = IF <<c, "chat">> \in gone THEN sent ELSE sent \union {<<c, "chat">>}
  /\ closed' = closed \union {<<c, "chat">>}
  /\ ChatGoes(c, "done")
  /\ UNCHANGED <<list, chosen, backlog>>

-----------------------------------------------------------------------------
(* Signals, crashes and restarts                                           *)

Press(s) ==
  /\ ctrl_c' = [ctrl_c EXCEPT ![s] = TRUE]
  /\ stopped' = stopped \union {s}

StopServer(s) ==
  /\ Listening(s)
  /\ Press(s)
  /\ UNCHANGED <<discoveryVars, logVars, chatVars, netVars>>

(* The signal finds the log blocked in recv.  sigaction was not asked to   *)
(* restart it: recv fails with EINTR, an error like any other.             *)
InterruptLog(l) ==
  /\ At(l, "serve", "recv")
  /\ world.blocking /\ ~HasMessage(serving[l]) /\ ~HungUp(serving[l])
  /\ Press(l)
  /\ LogExits(l)
  /\ UNCHANGED <<discoveryVars, printed, chatVars, sent>>

(* chat.c handles no signal: the process ends.                             *)
KillChat(c) ==
  /\ cpc[c] # "done"
  /\ ChatGoes(c, "done")
  /\ closed' = closed \union (IF cpc[c] \in {"dialing", "await"} THEN {<<c, "request">>}
                              ELSE IF cpc[c] = "typing" THEN {<<c, "chat">>} ELSE {})
  /\ UNCHANGED <<discoveryVars, logVars, list, chosen, serverNet, sent, ctrl_c, stopped>>

CrashDiscovery ==
  /\ dpc # "exited"
  /\ DiscoveryExits
  /\ stopped' = stopped \union {Discovery}
  /\ UNCHANGED <<chatters, reply, handled, logVars, chatVars, sent, closed, ctrl_c>>

(* SO_REUSEADDR lets the new process bind to the old address at once.      *)
RestartDiscovery ==
  /\ dpc = "exited" /\ restarts < world.restarts
  /\ restarts' = restarts + 1
  /\ dpc' = "accept"
  /\ chatters' = NoTable
  /\ handled' = {}
  /\ ctrl_c' = [ctrl_c EXCEPT ![Discovery] = FALSE]
  /\ stopped' = stopped \ {Discovery}
  /\ UNCHANGED <<reply, logVars, chatVars, netVars, signals, world>>

-----------------------------------------------------------------------------
DiscoveryStep ==
  /\ \/ /\ DiscoveryAccepts \/ DiscoveryTests \/ DiscoveryReceives
        /\ UNCHANGED <<chatters, reply, handled>>
     \/ DiscoveryHandles
  /\ UNCHANGED <<logVars, chatVars, sent, closed, ctrl_c, faultVars>>
LogStep(l) ==
  /\ \/ StartLog(l) \/ LogAccepts(l) \/ LogTests(l) \/ LogReceives(l)
     \/ \E what \in {"register", "deregister"} :
          LogDials(l, what) \/ LogConnects(l, what) \/ LogSends(l, what)
  /\ UNCHANGED <<discoveryVars, chatVars, faultVars>>
ChatStep(c) ==
  /\ \/ ChatDials(c) \/ ChatRequests(c) \/ ChatReceives(c) \/ ChatChooses(c)
     \/ ChatSends(c)
  /\ UNCHANGED <<discoveryVars, logVars, serving, gone, ctrl_c, faultVars>>
Signal ==
  /\ signals < world.signals /\ signals' = signals + 1
  /\ \/ \E s \in Servers : StopServer(s)
     \/ \E l \in Logs : InterruptLog(l)
     \/ \E c \in Chats : KillChat(c)
     \/ CrashDiscovery
  /\ UNCHANGED <<restarts, world>>

Next ==
  \/ DiscoveryStep
  \/ \E l \in Logs : LogStep(l)
  \/ \E c \in Chats : ChatStep(c)
  \/ Signal
  \/ RestartDiscovery

Spec == Init /\ [][Next]_vars

(* Every process goes on when it can, and the users of the chats type what *)
(* they are asked for in the end; nobody has to press Ctrl-C, and nobody   *)
(* has to start the discovery server again.                                *)
FairSpec ==
  /\ Spec
  /\ WF_vars(DiscoveryStep)
  /\ \A l \in Logs : WF_vars(LogStep(l))
  /\ \A c \in Chats : WF_vars(ChatStep(c))

-----------------------------------------------------------------------------
(* Properties                                                              *)

(* What the service promises its users: see Messenger.tla.  A user is      *)
(* listed by an entry that does not count as free.                         *)
Listed(table) == {l \in Logs : Used(l) /\ \E s \in Slots : table[s] = l}
Service == INSTANCE Messenger WITH
  listed <- Listed(chatters),
  asked <- {c \in Chats : reply[c].sent},
  seen <- [c \in Chats |-> Listed(reply[c].table)],
  delivered <- printed
ImplementsMessenger == Service!MessengerSpec

(* The table follows the registrations and deregistrations carried out     *)
(* since the discovery server was started: it never has more users of a    *)
(* name than have registered under it and not deregistered, and no fewer   *)
(* either if there is room for every log, none has port 0 and none of that *)
(* name has deregistered from a server it is not registered with.  So no   *)
(* log is listed again by a registration that comes after its              *)
(* deregistration, on another connection, nor by one of before a crash;    *)
(* one that has exited stays listed only if its deregistration was not     *)
(* carried out.  (Of two logs of one name the wrong one may be taken off   *)
(* the table; and a free slot has the empty name.)                         *)
Named(n) == {l \in Logs : world.name[l] = n}
Registered(n) ==
  {l \in Named(n) : <<l, "register">> \in handled /\ <<l, "deregister">> \notin handled}
Stray(n) ==
  \E l \in Named(n) : <<l, "deregister">> \in handled /\ <<l, "register">> \notin handled
TableFollowsUsers ==
  \A n \in {world.name[l] : l \in Logs} \ {""} :
    LET listed == Cardinality({s \in Slots : Name(chatters[s]) = n})
        users  == Cardinality(Registered(n))
    IN /\ listed <= users
       /\ Cardinality(Logs) <= NumSlots /\ world.zero = {} /\ ~Stray(n) => listed = users

(* A log that is listed, in the table or in a copy of it, has been         *)
(* listening since before it was listed: a chat that is refused chose a    *)
(* log that has exited.                                                    *)
ListedIsListening ==
  \A l \in Logs :
    (\E s \in Slots : chatters[s] = l \/ \E c \in Chats : list[c][s] = l)
      => Listening(l) \/ At(l, "exited", "exited")

(* A server exits because Ctrl-C is pressed or it crashes, and otherwise   *)
(* only because a client connected and went away without sending its       *)
(* message; a log also because the discovery server was down when it       *)
(* wanted to register.                                                     *)
HungUpOn == (closed \ sent) \intersect gone
ServersStayUp ==
  /\ dpc = "exited" =>
       Discovery \in stopped \/ \E c \in HungUpOn : c[2] # "chat"
  /\ \A l \in Logs : At(l, "exited", "exited") =>
       \/ l \in stopped
       \/ \E c \in Chats : chosen[c] = l /\ <<c, "chat">> \in HungUpOn
       \/ (dpc = "exited" \/ restarts > 0) /\ <<l, "register">> \notin sent

(* In the end every message sent to a log is printed: one that waits in    *)
(* the backlog gets its turn, and no client before it makes the log exit.  *)
(* Only after a signal, at the log or at a chat it serves, may the log be  *)
(* gone instead.                                                           *)
SentIsPrinted ==
  <>[](\A c \in Chats : <<c, "chat">> \in sent =>
         \E l \in Logs :
           /\ chosen[c] = l
           /\ \/ \E i \in 1..Len(printed) : printed[i] = <<l, c>>
              \/ signals > 0 /\ lpc[l][1] \in {"deregister", "exited"})

(* Every chat comes to its end, whoever disappears: the discovery server   *)
(* while the chat dials, waits in the backlog or waits for its reply, or   *)
(* the log while it chooses or types; and whoever is served before it.     *)
ChatsEnd == <>(\A c \in Chats : cpc[c] = "done")

(* Ctrl-C at a log makes it exit in the end, whoever it is serving and     *)
(* whatever has become of the discovery server.                            *)
CtrlCStopsLog ==
  \A l \in Logs : (l \in stopped) ~> At(l, "exited", "exited")

(* "If status > 0, ctrl-c was pressed", and the loop is left to deregister *)
(* (Lab3/log.c): as long as no chat hangs up and the discovery server is   *)
(* up, a log that was listed exits only after it has sent its              *)
(* deregistration.                                                         *)
CtrlCDeregisters ==
  \A l \in Logs :
    /\ At(l, "exited", "exited") /\ <<l, "register">> \in handled
    /\ dpc # "exited" /\ ~\E c \in Chats : <<c, "chat">> \in closed \ sent
    /\ signals = 1
    => <<l, "deregister">> \in sent

(* So it is where the accepted socket does not block.                      *)
CtrlCDeregistersPortably == ~world.blocking => CtrlCDeregisters
=============================================================================
