---------------------------- MODULE MCTabBridge ----------------------------
(* Instances of TabBridge for TLC: two browsers and two daemon threads.     *)
EXTENDS TabBridge, TLC

CONSTANTS h1, h2, c1, c2

Hosts == {h1, h2}
OneHost == {h1}
Callers == {c1, c2}

\* Every extension reports the profile "default" (extension/background.js:131).
DefaultProfile == [h \in Host |-> "default"]

BridgeSymmetry == Permutations(Hosts) \cup Permutations(Callers)
=============================================================================
