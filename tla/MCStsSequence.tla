---------------------------- MODULE MCStsSequence ----------------------------
(* Instances of StsSequence for TLC: one client that waits for each answer *)
(* before it sends again, or two clients whose requests overlap.           *)
EXTENDS StsSequence

CONSTANTS c1, c2

OneClient == {c1}

\* The configuration file asks for a file per acquisition, the mode in which an
\* acquisition takes the most steps; a client may still set the other one.
MultipleInit == Init /\ m_multiple = TRUE
MultipleSpec == MultipleInit /\ [][Next]_vars /\ Fairness
=============================================================================
