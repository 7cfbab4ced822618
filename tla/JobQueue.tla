------------------------------ MODULE JobQueue ------------------------------
(***************************************************************************)
(* What an active object of the STS daemon promises to the threads that    *)
(* send it jobs: a first-in first-out queue of bounded length, and one     *)
(* worker that runs the jobs one at a time, each exactly once, in the      *)
(* order in which they were accepted, until it has run the job Done.       *)
(*                                                                         *)
(* There is no buffer, no lock and no condition variable here; the module  *)
(* ActiveObject is the code, and implements this specification.            *)
(***************************************************************************)
EXTENDS Naturals, Sequences

CONSTANTS Jobs,      \* the jobs that can be sent
          Done,      \* the job that ends the worker
          NoJob,     \* what the worker holds between two jobs
          Capacity   \* the most jobs that can wait

VARIABLES pending,   \* the jobs accepted and not yet taken, oldest first
          current,   \* the job the worker has taken and not finished
          log,       \* the jobs the worker has finished, in order
          open       \* FALSE once Done has been accepted

qvars == <<pending, current, log, open>>

QInit == /\ pending = << >>
         /\ current = NoJob
         /\ log = << >>
         /\ open = TRUE

Accept(j) == /\ open
             /\ Len(pending) < Capacity
             /\ pending' = Append(pending, j)
             /\ open' = (j # Done)
             /\ UNCHANGED <<current, log>>

Take == /\ current = NoJob
        /\ pending # << >>
        /\ current' = Head(pending)
        /\ pending' = Tail(pending)
        /\ UNCHANGED <<log, open>>

Finish == /\ current # NoJob
          /\ log' = Append(log, current)
          /\ current' = NoJob
          /\ UNCHANGED <<pending, open>>

QNext == \/ \E j \in Jobs \cup {Done} : Accept(j)
         \/ Take
         \/ Finish

QSpec == QInit /\ [][QNext]_qvars
=============================================================================
