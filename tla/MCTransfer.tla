----------------------------- MODULE MCTransfer -----------------------------
(* The instance of Transfer that TLC checks, on each kind of socket.       *)
EXTENDS Transfer

EverySocket == [blocking : BOOLEAN, restart : BOOLEAN]
=============================================================================
