--------------------------- MODULE MCChatService ----------------------------
(* The instances of ChatService that TLC checks.                           *)
EXTENDS ChatService

CONSTANTS ann, bob    (* the logs                                          *)

OwnNames == [l \in Logs |-> IF l = ann THEN "ann" ELSE "bob"]
SameName == [l \in Logs |-> "ann"]

(* Linux, with logs of different names.                                    *)
Linux(presses, starts) ==
  [name |-> OwnNames, zero |-> {}, blocking |-> TRUE, signals |-> presses,
   restarts |-> starts]
(* Accepted sockets do not block; two logs of one name, bob with port 0.   *)
Portable ==
  [name |-> SameName, zero |-> {bob}, blocking |-> FALSE, signals |-> 1,
   restarts |-> 0]
(* Two logs of one name, and a discovery server that is started again: one *)
(* of them may deregister the other.                                       *)
Namesakes ==
  [name |-> SameName, zero |-> {}, blocking |-> FALSE, signals |-> 1,
   restarts |-> 1]

SignalWorlds == {Linux(2, 0), Linux(1, 1), Portable, Namesakes}
(* A signal for any one process: Ctrl-C for a server, the end for a chat.  *)
OnePress == {Linux(1, 0)}
=============================================================================
