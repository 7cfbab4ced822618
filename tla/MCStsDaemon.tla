---------------------------- MODULE MCStsDaemon ----------------------------
(* The instances of StsDaemon that TLC checks.                             *)
EXTENDS StsDaemon

CONSTANTS c1, c2, nobody

ClientsMC == {c1, c2}

\* A request for each way HandleRequest goes.  A sequence's request goes the way
\* of a version's when its target is known and is turned down otherwise.
AskedMC == {[kind |-> k, target |-> 0] : k \in {"save", "command"}}
             \cup {[kind |-> k, target |-> Io] : k \in {"version", "sequence"}}

\* Two spectrometers, with a request to each.
AskedBothMC == {[kind |-> "command", target |-> s] : s \in {0, 1}}

=============================================================================
