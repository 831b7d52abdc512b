------------------------------ MODULE MCDaemon ------------------------------
(* Daemon and SingleInstance with a few processes, for TLC. *)
EXTENDS Daemon, TLC
CONSTANTS c1, c2, d1, d2, f1, f2, f3, f4, f5

TwoClients == {c1, c2}
OneUrl == {c1}
TwoDaemons == {d1, d2}
FourProcs == TwoClients \cup TwoDaemons
FiveFiles == {f1, f2, f3, f4, f5}
Nobody == {}
=============================================================================
