---------------------------- MODULE MCThreadPool ----------------------------
(* The instances of ThreadPool that TLC checks.                            *)
EXTENDS ThreadPool
=============================================================================
