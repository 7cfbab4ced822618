------------------------------- MODULE ObpRpc -------------------------------
(***************************************************************************)
(* What an exchange with a device over the Ocean Binary Protocol promises: *)
(* one request at a time, each followed by an answer or by a failure.  As  *)
(* long as nothing went wrong on the bus the answer is that to the last    *)
(* request; afterwards it may be that to an earlier one, never one that    *)
(* was not given to anything asked.                                        *)
(***************************************************************************)
EXTENDS Naturals

VARIABLES asked,    \* requests made
          busy,     \* the last of them is in progress
          last,     \* the request the last answer given is for
          trouble   \* something went wrong on the bus

rpcVars == <<asked, busy, last, trouble>>

RpcInit == asked = 0 /\ busy = FALSE /\ last = 0 /\ trouble = FALSE

Ask == ~busy /\ asked' = asked + 1 /\ busy' \in BOOLEAN /\ UNCHANGED last

\* The call that collects what an earlier one asked for.
Collect == ~busy /\ busy' = TRUE /\ UNCHANGED <<asked, last>>

Answer ==
  /\ busy
  /\ busy' = FALSE
  /\ last' \in 1 .. asked
  /\ ~trouble' => last' = asked
  /\ UNCHANGED asked

Fail == busy /\ busy' = FALSE /\ UNCHANGED <<asked, last>>

RpcNext ==
  /\ Ask \/ Collect \/ Answer \/ Fail \/ UNCHANGED <<asked, busy, last>>
  /\ trouble => trouble'

RpcSpec == RpcInit /\ [][RpcNext]_rpcVars

=============================================================================
