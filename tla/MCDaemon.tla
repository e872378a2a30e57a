------------------------------ MODULE MCDaemon ------------------------------
(* Instances of Daemon for TLC: one client slot and one or two clients.     *)
EXTENDS Daemon, TLC

CONSTANTS k1, k2

OneClient == {k1}
TwoClients == {k1, k2}

ClientSymmetry == Permutations(Client)
=============================================================================
