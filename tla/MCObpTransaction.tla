-------------------------- MODULE MCObpTransaction --------------------------
(* The instances of ObpTransaction that TLC checks.                        *)
EXTENDS ObpTransaction

CONSTANTS getShort, getLong, set, spectrum

\* A reply with immediate data, one with an extended payload, a command, and
\* a spectrum that is as long as the longest.
LengthMC == [t \in {getShort, getLong, set, spectrum} |->
               IF t \in {getLong, spectrum} THEN 2 ELSE 0]

\* A spectrum that is longer than any other reply.
LongestMC == [LengthMC EXCEPT ![getLong] = 1]

=============================================================================
