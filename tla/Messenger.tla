------------------------------ MODULE Messenger ------------------------------
(***************************************************************************)
(* What the programs of Lab3 promise their users, with no connection,      *)
(* server loop or signal in sight.  There is a directory of logs.  A chat  *)
(* may be shown the directory, as it is at one moment, once; and it may    *)
(* then have one message delivered to one of the logs it was shown.  The   *)
(* directory may be lost as a whole.  ChatService.tla is shown to          *)
(* implement this, whatever the circumstances.                             *)
(***************************************************************************)
EXTENDS Integers, Sequences

CONSTANTS Logs, Chats

VARIABLES
  listed,      (* the logs in the directory                                *)
  asked,       (* the chats that have been shown it                        *)
  seen,        (* per chat: the logs it has been shown                     *)
  delivered    (* the messages delivered, in order: to which log, by whom  *)

messengerVars == <<listed, asked, seen, delivered>>

MessengerInit ==
  /\ listed = {}
  /\ asked = {}
  /\ seen = [c \in Chats |-> {}]
  /\ delivered = <<>>

Join(l) ==
  /\ l \notin listed
  /\ listed' = listed \union {l}
  /\ UNCHANGED <<asked, seen, delivered>>

(* By its own wish, or in the place of a log of the same name.             *)
Leave(l) ==
  /\ l \in listed
  /\ listed' = listed \ {l}
  /\ UNCHANGED <<asked, seen, delivered>>

Ask(c) ==
  /\ c \notin asked
  /\ asked' = asked \union {c}
  /\ seen' = [seen EXCEPT ![c] = listed]
  /\ UNCHANGED <<listed, delivered>>

Deliver(c, l) ==
  /\ l \in seen[c]
  /\ \A i \in 1..Len(delivered) : delivered[i][2] # c
  /\ delivered' = Append(delivered, <<l, c>>)
  /\ UNCHANGED <<listed, asked, seen>>

LoseDirectory ==
  /\ listed' = {}
  /\ UNCHANGED <<asked, seen, delivered>>

MessengerNext ==
  \/ \E l \in Logs : Join(l) \/ Leave(l)
  \/ \E c \in Chats : Ask(c) \/ \E l \in Logs : Deliver(c, l)
  \/ LoseDirectory

MessengerSpec == MessengerInit /\ [][MessengerNext]_messengerVars

=============================================================================
