--------------------------- MODULE StsDaemonProofs ---------------------------
(***************************************************************************)
(* Proofs about the daemon between its sockets and its spectrometers, for  *)
(* any number of clients, spectrometers and connections, every capacity of *)
(* the queues and every bound.                                             *)
(***************************************************************************)
EXTENDS StsDaemon, FiniteSetTheorems, TLAPS

USE DEF sockets, teardown

-----------------------------------------------------------------------------
(* The inductive invariant.                                                *)

\* Where a worker and where the io thread can be.
WorkerAt == {"loop", "execute", "fill", "write", "close", "pushing", "ended"}
IoAt     == {"loop", "reading", "submit", "fill", "write", "close", "pushing", "join"}

\* A job is of a client, with the connection to answer it on, or of nobody.
JobOK(j) == IF j.kind \in {"save", "command"} THEN j.conn # None
            ELSE j.kind \in {"entry", "done"} /\ j.conn = None

\* Where a thread can be, and what it has in hand there.
HandOK(t, w) ==
  /\ w.at \in IF t = Io THEN IoAt ELSE WorkerAt
  /\ w.at \in {"loop", "ended", "join"} => w.job.conn = None
  /\ w.at \in {"reading", "fill", "write", "close", "pushing"} => w.job.conn # None
  /\ w.at = "execute" => JobOK(w.job)
  /\ w.at = "submit" =>
       JobOK(w.job) /\ w.job.kind # "done" /\ w.job.target \in Spectrometers
  /\ w.at = "join" => w.job.target \in Spectrometers
HandsOK == \A t \in Threads : HandOK(t, thread[t])
QueueJobs == \A s \in Spectrometers : \A i \in Queued(s) : JobOK(queue[s][i])

\* No thread and no job has a connection that was not made.
Made ==
  /\ \A t \in Threads : thread[t].job.conn <= Len(peer)
  /\ \A s \in Spectrometers : \A i \in Queued(s) : queue[s][i].conn <= Len(peer)

\* A client with an open socket is not one that waits for it.
PeersConnected ==
  \A conn \in Connections : peer[conn] # NoClient =>
    client[peer[conn]].at \in {"connected", "waiting", "answered", "gone"}

\* Once the daemon stops serving the io thread is main, and destroys.
StageOK ==
  stage # "aborted" =>
    /\ stage # "serving" => thread[Io].at \in {"loop", "join"}
    /\ thread[Io].at = "join" => stage = "devicesClosed"
    /\ stage \notin {"devicesClosed", "ended"} => joined = {}
    /\ stage = "ended" => joined = Spectrometers

\* m_done is the last a worker gets, and only from the destructor.
Sent(s) == s \in joined \/ (thread[Io].at = "join" /\ thread[Io].job.target = s)
DoneLast ==
  \A s \in Spectrometers :
    /\ \A i \in Queued(s) : queue[s][i].kind = "done" => i = Len(queue[s]) /\ Sent(s)
    /\ thread[s].at = "execute" /\ thread[s].job.kind = "done" => queue[s] = << >> /\ Sent(s)
    /\ thread[s].at = "ended" => queue[s] = << >> /\ Sent(s)
    /\ s \in joined => thread[s].at = "ended"

Apart == FreeOnce /\ ThreadsApart /\ QueuedOnce /\ PlacesApart
Control == HandsOK /\ QueueJobs /\ Made
Ending == StageOK /\ DoneLast

IInv == /\ DaemonTypeOK /\ Control /\ PeersConnected /\ Ending
        /\ ConnectionsExclusive /\ OneAcceptChain

-----------------------------------------------------------------------------
(* Facts about threads, jobs and queues.                                   *)

LEMMA CountsNat == SpectrometerCount \in Nat /\ QueueSize \in Nat /\ QueueSize > 0
  BY CountsAssumption

LEMMA IoApart == Io \notin Spectrometers /\ Io \in Threads /\ Spectrometers \subseteq Threads
  BY CountsNat DEF Io, Spectrometers, Threads

LEMMA NoJobType == NoJob \in Job /\ NoJob.conn = None /\ NoJob.kind = "none"
  BY IoApart DEF NoJob, Job, None

\* What is taken from a queue, and what is left in it.
LEMMA TailFacts ==
  ASSUME NEW S, NEW q \in Seq(S), q # << >>
  PROVE  /\ Head(q) \in S /\ Head(q) = q[1]
         /\ Tail(q) \in Seq(S) /\ Len(Tail(q)) = Len(q) - 1 /\ Len(q) > 0
         /\ \A i \in 1 .. Len(Tail(q)) : Tail(q)[i] = q[i + 1] /\ i + 1 \in 1 .. Len(q)
  OBVIOUS

LEMMA AppendFacts ==
  ASSUME NEW S, NEW q \in Seq(S), NEW e \in S
  PROVE  /\ Append(q, e) \in Seq(S) /\ Len(Append(q, e)) = Len(q) + 1
         /\ \A i \in 1 .. Len(q) + 1 :
              Append(q, e)[i] = IF i <= Len(q) THEN q[i] ELSE e
  OBVIOUS

\* A connection that is made leaves those that are free what they were.
LEMMA FreeGrows ==
  ASSUME NEW n \in Nat, NEW q \in Seq(1 .. n)
  PROVE  q \in Seq(1 .. n + 1)
<1>1. \A i \in 1 .. Len(q) : q[i] \in 1 .. n + 1
  OBVIOUS
<1>2. QED
  BY <1>1

LEMMA SpentType == DaemonTypeOK => spent \in [requests : Nat, errors : Nat, entries : Nat]
  BY DEF DaemonTypeOK

\* The records of the clients, and what changing one of their fields does.
ClientAt == {"idle", "connecting", "connected", "waiting", "answered", "gone"}

ClientTable == [Clients -> [at : ClientAt, request : Request \cup {NoRequest}, got : Nat]]

LEMMA ClientTyped == DaemonTypeOK => client \in ClientTable
  BY DEF DaemonTypeOK, ClientTable, ClientAt

LEMMA ClientMoves ==
  ASSUME client \in ClientTable, NEW c \in Clients, NEW a \in ClientAt,
         client' = [client EXCEPT ![c].at = a]
  PROVE  /\ client' \in ClientTable
         /\ \A e \in Clients : client'[e].at = IF e = c THEN a ELSE client[e].at
<1>1. \A e \in Clients : client'[e] = IF e = c THEN [client[c] EXCEPT !.at = a] ELSE client[e]
  BY DEF ClientTable
<1>2. \A e \in Clients : client[e] \in [at : ClientAt, request : Request \cup {NoRequest}, got : Nat]
  BY DEF ClientTable
<1>3. /\ [client[c] EXCEPT !.at = a] \in [at : ClientAt, request : Request \cup {NoRequest}, got : Nat]
      /\ [client[c] EXCEPT !.at = a].at = a
  BY <1>2
<1>4. client' = [e \in Clients |-> client'[e]]
  BY DEF ClientTable
<1>5. QED
  BY <1>1, <1>2, <1>3, <1>4 DEF ClientTable

LEMMA ClientAnswered ==
  ASSUME client \in ClientTable, NEW c, NEW b \in Nat,
         client' = [client EXCEPT ![c].at = "answered", ![c].got = b]
  PROVE  /\ client' \in ClientTable
         /\ \A e \in Clients : client'[e].at = client[e].at \/ client'[e].at = "answered"
<1> DEFINE new == [[client[c] EXCEPT !.at = "answered"] EXCEPT !.got = b]
<1>1. \A e \in Clients : client'[e] = IF e = c THEN new ELSE client[e]
  BY DEF ClientTable
<1>2. \A e \in Clients : client[e] \in [at : ClientAt, request : Request \cup {NoRequest}, got : Nat]
  BY DEF ClientTable
<1>3. c \in Clients => /\ new \in [at : ClientAt, request : Request \cup {NoRequest}, got : Nat]
                       /\ new.at = "answered"
  BY <1>2 DEF ClientAt
<1>4. client' = [e \in Clients |-> client'[e]]
  BY DEF ClientTable
<1> HIDE DEF new
<1>5. QED
  BY <1>1, <1>2, <1>3, <1>4 DEF ClientTable

\* What is in hand or in a queue is a job, with the number of a connection.
LEMMA JobTypes ==
  ASSUME DaemonTypeOK
  PROVE  /\ \A t \in Threads : thread[t].job \in Job /\ thread[t].job.conn \in Nat
         /\ \A s \in Spectrometers : \A i \in Queued(s) :
              queue[s][i] \in Job /\ queue[s][i].conn \in Nat
         /\ Len(peer) \in Nat
<1>1. \A j \in Job : j.conn \in Nat
  BY DEF Job
<1>2. \A s \in Spectrometers : \A i \in Queued(s) : queue[s][i] \in Job
  BY DEF DaemonTypeOK, Queued
<1>3. \A t \in Threads : thread[t].job \in Job
  BY DEF DaemonTypeOK
<1>4. QED
  BY <1>1, <1>2, <1>3 DEF DaemonTypeOK

-----------------------------------------------------------------------------
(* The initial state.                                                      *)

LEMMA InitInv == DaemonInit => IInv
<1> SUFFICES ASSUME DaemonInit PROVE IInv
  OBVIOUS
<1> USE CountsNat, IoApart, NoJobType
<1>1. DaemonTypeOK
  <2>1. client \in [Clients -> [at : {"idle", "connecting", "connected", "waiting", "answered", "gone"},
                             request : Request \cup {NoRequest}, got : Nat]]
    BY DEF DaemonInit, At, Idle, None
  <2>2. peer \in Seq(Clients \cup {NoClient}) /\ Len(peer) = 1 /\ free \in Seq(Connections)
    BY DEF DaemonInit
  <2>3. accepting \in Connections \cup {None} /\ buffer \in Nat
    BY <2>2 DEF DaemonInit, Connections, None
  <2>4. posted \in BOOLEAN
    BY Zenon DEF DaemonInit
  <2>5. queue \in [Spectrometers -> Seq(Job)] /\ \A s \in Spectrometers : Len(queue[s]) <= QueueSize
    BY DEF DaemonInit
  <2>6. spent \in [requests : Nat, errors : Nat, entries : Nat]
    BY DEF DaemonInit
  <2>7. QED
    BY <2>1, <2>2, <2>3, <2>4, <2>5, <2>6 DEF DaemonInit, DaemonTypeOK, At
<1>2. Control
  BY DEF DaemonInit, At, Control, HandsOK, HandOK, WorkerAt, IoAt, QueueJobs, Queued, Made, None
<1>3. PeersConnected
  BY DEF DaemonInit, At, PeersConnected, Connections
<1>4. Ending
  BY DEF DaemonInit, At, Ending, StageOK, DoneLast, Queued
<1>5. ConnectionsExclusive
  BY DEF DaemonInit, At, ConnectionsExclusive, FreeOnce, ThreadsApart, QueuedOnce, PlacesApart, Queued,
         OpenInHand, InHand, PeersDiffer, Connections, None
<1>6. OneAcceptChain
  BY DEF DaemonInit, At, OneAcceptChain, None
<1>7. QED
  BY <1>1, <1>2, <1>3, <1>4, <1>5, <1>6 DEF IInv

-----------------------------------------------------------------------------
(* The clients.                                                            *)

\* A step that changes nothing but clients, and the counts against the bounds.
ClientStep == UNCHANGED <<sockets, thread, queue, teardown, fault>>

LEMMA ClientStepKeeps ==
  ASSUME IInv, ClientStep
  PROVE  Control' /\ Ending' /\ ConnectionsExclusive' /\ OneAcceptChain'
<1> USE DEF IInv, ClientStep
<1>1. Control'
  BY DEF Control, HandsOK, QueueJobs, Queued, Made
<1>2. Ending'
  BY DEF Ending, StageOK, DoneLast, Sent, Queued
<1>3. ConnectionsExclusive'
  BY DEF ConnectionsExclusive, FreeOnce, ThreadsApart, QueuedOnce, PlacesApart, Queued,
         OpenInHand, InHand, PeersDiffer, Connections
<1>4. OneAcceptChain'
  BY DEF OneAcceptChain
<1>5. QED
  BY <1>1, <1>2, <1>3, <1>4

LEMMA TalkInv ==
  ASSUME IInv, NEW c \in Clients, Connect(c) \/ Talk(c)
  PROVE  IInv'
<1> USE DEF IInv
<1>1. ClientStep
  BY DEF Connect, Talk, Leave, SendRequest, ClientStep
<1>2. DaemonTypeOK'
  <2>1. CASE Connect(c)
    <3>0. /\ client' = [client EXCEPT ![c].at = "connecting"]
          /\ spent' = [spent EXCEPT !.requests = spent.requests + 1]
      BY <2>1, Zenon DEF Connect
    <3>1. spent' \in [requests : Nat, errors : Nat, entries : Nat]
      BY <3>0, SpentType
    <3>2. client' \in ClientTable
      BY <3>0, ClientTyped, ClientMoves DEF ClientAt
    <3>3. UNCHANGED <<buffer, posted>>
      BY <2>1, Zenon DEF Connect, sockets
    <3>4. posted' \in BOOLEAN
      BY <3>3, Zenon DEF DaemonTypeOK
    <3>5. UNCHANGED <<peer, free, accepting, thread, queue, stage, joined, fault>>
      BY <1>1 DEF ClientStep
    <3>6. QED
      BY <3>1, <3>2, <3>3, <3>4, <3>5 DEF DaemonTypeOK, Connections, ClientTable, ClientAt
  <2>2. CASE Leave(c)
    <3>1. client' \in ClientTable
      BY <2>2, ClientTyped, ClientMoves DEF ClientAt, Leave
    <3>2. UNCHANGED <<buffer, posted, spent>>
      BY <2>2, Zenon DEF Leave, sockets
    <3>3. posted' \in BOOLEAN
      BY <3>2, Zenon DEF DaemonTypeOK
    <3>4. UNCHANGED <<peer, free, accepting, thread, queue, stage, joined, fault>>
      BY <1>1 DEF ClientStep
    <3>5. QED
      BY <3>1, <3>2, <3>3, <3>4 DEF DaemonTypeOK, Connections, ClientTable, ClientAt
  <2>3. ASSUME NEW r \in Asked, SendRequest(c, r) PROVE DaemonTypeOK'
    <3>1. client' = [client EXCEPT ![c].at = "waiting", ![c].request = r] /\ r \in Request
      BY <2>3, AskedAssumption DEF SendRequest
    <3>2. client \in ClientTable
      BY ClientTyped
    <3>3. client' \in ClientTable
      BY <3>1, <3>2 DEF ClientTable, ClientAt
    <3>4. UNCHANGED <<buffer, posted, spent>>
      BY <2>3, Zenon DEF SendRequest, sockets
    <3>5. posted' \in BOOLEAN
      BY <3>4, Zenon DEF DaemonTypeOK
    <3>6. UNCHANGED <<peer, free, accepting, thread, queue, stage, joined, fault>>
      BY <1>1 DEF ClientStep
    <3>7. QED
      BY <3>3, <3>4, <3>5, <3>6 DEF DaemonTypeOK, Connections, ClientTable, ClientAt
  <2>4. QED
    BY <2>1, <2>2, <2>3 DEF Talk
<1>3. PeersConnected'
  <2>1. CASE Connect(c)
    BY <2>1 DEF Connect, DaemonTypeOK, PeersConnected, Connections
  <2>2. CASE Leave(c)
    BY <2>2 DEF Leave, DaemonTypeOK, PeersConnected, Connections
  <2>3. ASSUME NEW r \in Asked, SendRequest(c, r) PROVE PeersConnected'
    BY <2>3 DEF SendRequest, DaemonTypeOK, PeersConnected, Connections
  <2>4. QED
    BY <2>1, <2>2, <2>3 DEF Talk
<1>4. QED
  BY <1>1, <1>2, <1>3, ClientStepKeeps

-----------------------------------------------------------------------------
(* The io thread.                                                          *)

LEMMA QueueAcceptInv ==
  ASSUME IInv, Running, QueueAcceptConnection
  PROVE  IInv'
<1> USE DEF IInv
<1> USE IoApart, CountsNat
<1>0. stage = "serving" /\ fault = "none" /\ accepting = None /\ thread[Io].job.conn = None
  BY DEF QueueAcceptConnection, IoLoop, Running, OneAcceptChain
<1>f. UNCHANGED <<client, buffer, thread, queue, stage, joined, spent>> /\ posted' = FALSE
  BY DEF QueueAcceptConnection
<1>q. \A s : Queued(s)' = Queued(s)
  BY <1>f DEF Queued
<1>h. \A conn : InHand(conn)' = InHand(conn)
  BY <1>f, <1>q DEF InHand
<1>1. CASE fault' = "list" /\ UNCHANGED <<peer, free, accepting>>
  <2>1. DaemonTypeOK'
    <3>1. posted' \in BOOLEAN
      BY Zenon DEF QueueAcceptConnection
    <3>2. QED
      BY <1>1, <3>1 DEF QueueAcceptConnection, DaemonTypeOK, Connections
  <2>2. Control' /\ PeersConnected'
    BY <1>1 DEF QueueAcceptConnection, Control, HandsOK, QueueJobs, Queued, Made,
                PeersConnected, Connections
  <2>3. Ending'
    BY <1>1 DEF QueueAcceptConnection, Ending, StageOK, DoneLast, Sent, Queued
  <2>4. ConnectionsExclusive'
    BY <1>1 DEF QueueAcceptConnection, ConnectionsExclusive, FreeOnce, ThreadsApart, QueuedOnce,
                PlacesApart, Queued, OpenInHand, InHand, PeersDiffer, Connections
  <2>5. OneAcceptChain'
    BY <1>1 DEF OneAcceptChain
  <2>6. QED
    BY <2>1, <2>2, <2>3, <2>4, <2>5
<1>2. CASE /\ free = << >> /\ peer' = Append(peer, NoClient) /\ accepting' = Len(peer) + 1
           /\ UNCHANGED <<free, fault>>
  <2>0. /\ Len(peer') = Len(peer) + 1 /\ Len(peer) \in Nat
        /\ \A conn \in Connections : peer'[conn] = peer[conn]
        /\ peer'[Len(peer) + 1] = NoClient
        /\ Connections' = Connections \cup {Len(peer) + 1}
    BY <1>2 DEF DaemonTypeOK, Connections
  <2>1. DaemonTypeOK'
    <3>1. posted' \in BOOLEAN
      BY Zenon DEF QueueAcceptConnection
    <3>2. peer' \in Seq(Clients \cup {NoClient}) /\ free' \in Seq(Connections')
      BY <1>2 DEF DaemonTypeOK
    <3>3. accepting' \in Connections' \cup {None}
      BY <1>2, <2>0
    <3>4. QED
      BY <1>2, <3>1, <3>2, <3>3 DEF QueueAcceptConnection, DaemonTypeOK
  <2>2. Control'
    <3>1. Made'
      BY <1>f, <1>q, <2>0, JobTypes DEF Control, Made
    <3>2. HandsOK' /\ QueueJobs'
      BY <1>f, <1>q DEF Control, HandsOK, QueueJobs
    <3>3. QED
      BY <3>1, <3>2 DEF Control
  <2>3. PeersConnected'
    BY <1>2, <2>0 DEF QueueAcceptConnection, PeersConnected
  <2>4. Ending'
    BY <1>2 DEF QueueAcceptConnection, Ending, StageOK, DoneLast, Sent, Queued
  <2>5. FreeOnce' /\ ThreadsApart' /\ QueuedOnce'
    BY <1>2 DEF QueueAcceptConnection, ConnectionsExclusive, FreeOnce, ThreadsApart, QueuedOnce, Queued
  <2>6. PlacesApart'
    <3>1. /\ \A t \in Threads : thread[t].job.conn # Len(peer) + 1
          /\ \A s \in Spectrometers : \A j \in Queued(s) : queue[s][j].conn # Len(peer) + 1
      BY <2>0, JobTypes DEF Control, Made
    <3>2. \A i \in 1 .. Len(free) : free[i] # Len(peer) + 1
      BY <1>2
    <3>3. QED
      BY <1>2, <1>f, <1>q, <3>1, <3>2 DEF ConnectionsExclusive, PlacesApart
  <2>7. OpenInHand'
    <3>1. ~InHand(Len(peer) + 1)
      BY <2>0, JobTypes DEF InHand, Control, Made
    <3>2. QED
      BY <1>0, <1>f, <1>h, <2>0, <3>1 DEF ConnectionsExclusive, OpenInHand
  <2>8. PeersDiffer'
    BY <2>0 DEF ConnectionsExclusive, PeersDiffer
  <2>9. OneAcceptChain'
    BY <1>0, <1>2, <2>0 DEF QueueAcceptConnection, OneAcceptChain, None
  <2>10. QED
    BY <2>1, <2>2, <2>3, <2>4, <2>5, <2>6, <2>7, <2>8, <2>9 DEF ConnectionsExclusive
<1>3. CASE /\ free # << >> /\ accepting' = Head(free) /\ free' = Tail(free)
           /\ UNCHANGED <<peer, fault>>
  <2>0. /\ Connections' = Connections
        /\ free \in Seq(Connections) /\ Head(free) = free[1] /\ Len(free) > 0
        /\ free[1] \in Connections
        /\ free' \in Seq(Connections) /\ Len(free') = Len(free) - 1 /\ Len(free) \in Nat
        /\ \A i \in 1 .. Len(free') : free'[i] = free[i + 1] /\ i + 1 \in 1 .. Len(free)
    BY <1>3 DEF Connections, DaemonTypeOK
  <2>1. DaemonTypeOK'
    <3>1. posted' \in BOOLEAN
      BY Zenon DEF QueueAcceptConnection
    <3>2. QED
      BY <1>3, <2>0, <3>1 DEF QueueAcceptConnection, DaemonTypeOK
  <2>2. Control' /\ PeersConnected'
    BY <1>3, <2>0 DEF QueueAcceptConnection, Control, HandsOK, QueueJobs, Queued, Made,
                PeersConnected
  <2>4. Ending'
    BY <1>3 DEF QueueAcceptConnection, Ending, StageOK, DoneLast, Sent, Queued
  <2>5. FreeOnce'
    BY <1>3, <2>0 DEF ConnectionsExclusive, FreeOnce
  <2>6. ThreadsApart' /\ QueuedOnce'
    BY <1>3 DEF QueueAcceptConnection, ConnectionsExclusive, ThreadsApart, QueuedOnce, Queued
  <2>7. PlacesApart'
    <3>1. 1 \in 1 .. Len(free)
      BY <2>0
    <3>2. \A i \in 1 .. Len(free') : free'[i] # free[1]
      BY <2>0, <3>1 DEF ConnectionsExclusive, FreeOnce
    <3>3. /\ \A t \in Threads : thread[t].job.conn # free[1]
          /\ \A s \in Spectrometers : \A j \in Queued(s) : queue[s][j].conn # free[1]
      BY <3>1 DEF ConnectionsExclusive, PlacesApart
    <3>4. \A i \in 1 .. Len(free') :
            /\ \A t \in Threads : thread[t].job.conn # free'[i]
            /\ \A s \in Spectrometers : \A j \in Queued(s) : queue[s][j].conn # free'[i]
      BY <2>0 DEF ConnectionsExclusive, PlacesApart
    <3>5. accepting' = free[1]
      BY <1>3, <2>0
    <3>6. QED
      BY <1>f, <1>q, <3>2, <3>3, <3>4, <3>5 DEF ConnectionsExclusive, PlacesApart
  <2>8. OpenInHand' /\ PeersDiffer'
    BY <1>0, <1>3, <1>f, <1>h, <2>0 DEF ConnectionsExclusive, OpenInHand, PeersDiffer
  <2>9. OneAcceptChain'
    BY <1>0, <1>3, <2>0 DEF QueueAcceptConnection, OneAcceptChain, None, Connections
  <2>10. QED
    BY <2>1, <2>2, <2>4, <2>5, <2>6, <2>7, <2>8, <2>9 DEF ConnectionsExclusive
<1>4. QED
  BY <1>1, <1>2, <1>3 DEF QueueAcceptConnection

-----------------------------------------------------------------------------
(* Steps of a thread that give away no connection and take none.           *)

LEMMA GoesFacts ==
  ASSUME DaemonTypeOK, NEW t \in Threads, NEW a, NEW j, Goes(t, a, j)
  PROVE  /\ thread'[t].at = a /\ thread'[t].job = j
         /\ \A u \in Threads : u # t => thread'[u] = thread[u]
  BY DEF DaemonTypeOK, Goes, At

LEMMA GoesType ==
  ASSUME IInv, NEW t \in Threads, NEW a, NEW j \in Job, Goes(t, a, j),
         HandOK(t, [at |-> a, job |-> j])
  PROVE  /\ HandsOK'
         /\ thread' \in [Threads -> [at : {"loop", "reading", "submit", "execute", "fill", "write",
                                           "close", "pushing", "join", "ended"}, job : Job]]
<1> USE DEF IInv
<1>1. \A u \in Threads : thread'[u] = IF u = t THEN [at |-> a, job |-> j] ELSE thread[u]
  BY DEF DaemonTypeOK, Goes, At
<1>2. HandsOK'
  BY <1>1 DEF Control, HandsOK
<1>3. a \in WorkerAt \cup IoAt
  BY DEF HandOK
<1>4. QED
  BY <1>2, <1>3 DEF DaemonTypeOK, WorkerAt, IoAt, Goes, At

\* The thread does not come to m_done, and is not destroying.
LEMMA KeepsDone ==
  ASSUME IInv, NEW t \in Threads, NEW a, NEW j, Goes(t, a, j), UNCHANGED <<queue, joined>>,
         thread[t].at \notin {"join", "ended"}, a \notin {"join", "execute", "ended"}
  PROVE  DoneLast'
<1> USE DEF IInv
<1>1. \A s : Queued(s)' = Queued(s)
  BY DEF Queued
<1>2. \A s : Sent(s) => Sent(s)'
  BY IoApart, GoesFacts DEF Sent
<1>3. SUFFICES ASSUME NEW s \in Spectrometers
               PROVE  /\ \A i \in Queued(s) : queue[s][i].kind = "done" => i = Len(queue[s]) /\ Sent(s)'
                      /\ thread'[s].at = "execute" /\ thread'[s].job.kind = "done" => queue[s] = << >> /\ Sent(s)'
                      /\ thread'[s].at = "ended" => queue[s] = << >> /\ Sent(s)'
                      /\ s \in joined => thread'[s].at = "ended"
  BY <1>1 DEF DoneLast
<1>4. s # t => thread'[s] = thread[s]
  BY IoApart, GoesFacts
<1>5. QED
  BY <1>2, <1>4, GoesFacts DEF Ending, DoneLast

\* The io thread has its connection or none, and the accept is left alone.
LEMMA KeepsChain ==
  ASSUME IInv, NEW t \in Threads, NEW a, NEW j, Goes(t, a, j), UNCHANGED <<accepting, posted>>,
         t = Io => (j.conn = None <=> thread[Io].job.conn = None),
         fault' = "none" => fault = "none", stage' = "serving" => stage = "serving"
  PROVE  OneAcceptChain'
<1> USE DEF IInv
<1>1. thread'[Io].job.conn = None <=> thread[Io].job.conn = None
  BY IoApart, GoesFacts
<1>2. QED
  BY <1>1, Zenon DEF OneAcceptChain

\* The io thread reads, submits and answers only while the daemon serves.
LEMMA Serving ==
  ASSUME IInv, Running, thread[Io].at \notin {"loop", "join"}
  PROVE  stage = "serving" /\ fault = "none" /\ joined = {}
  BY DEF IInv, Ending, StageOK, Running

\* The thread goes on with its connection, or with none: no connection comes
\* to be in two places.
LEMMA KeepsApart ==
  ASSUME IInv, NEW t \in Threads, NEW a, NEW j, Goes(t, a, j),
         j.conn = thread[t].job.conn \/ j.conn = None,
         UNCHANGED <<accepting, free, queue>>, Len(peer') = Len(peer)
  PROVE  Apart' /\ Made'
<1> USE DEF IInv
<1>1. \A u \in Threads :
        thread'[u].job.conn = thread[u].job.conn \/ thread'[u].job.conn = None
  BY GoesFacts
<1>2. \A s : Queued(s)' = Queued(s)
  BY DEF Queued
<1>3. FreeOnce' /\ QueuedOnce'
  BY <1>2 DEF ConnectionsExclusive, FreeOnce, QueuedOnce
<1>4. ThreadsApart'
  BY <1>1 DEF ConnectionsExclusive, ThreadsApart
<1>5. \A i \in 1 .. Len(free) : free[i] # None
  BY DEF DaemonTypeOK, Connections, None
<1>6. PlacesApart'
  BY <1>1, <1>2, <1>5 DEF ConnectionsExclusive, PlacesApart
<1>7. Made'
  BY <1>1, <1>2, JobTypes DEF Control, Made, None
<1>8. QED
  BY <1>3, <1>4, <1>6, <1>7 DEF Apart

\* The sockets do not change, and the thread keeps its connection.
LEMMA KeepsOpen ==
  ASSUME IInv, NEW t \in Threads, NEW a, NEW j, Goes(t, a, j),
         j.conn = thread[t].job.conn,
         a # "pushing", thread[t].at # "pushing", UNCHANGED <<queue, peer, stage>>
  PROVE  OpenInHand' /\ PeersDiffer'
<1> USE DEF IInv
<1>1. \A u \in Threads : /\ thread'[u].job.conn = thread[u].job.conn
                         /\ thread'[u].at = "pushing" <=> thread[u].at = "pushing"
  BY GoesFacts
<1>2. \A s : Queued(s)' = Queued(s)
  BY DEF Queued
<1>3. \A conn : InHand(conn)' <=> InHand(conn)
  BY <1>1, <1>2 DEF InHand
<1>4. QED
  BY <1>3 DEF ConnectionsExclusive, OpenInHand, PeersDiffer, Connections

\* Closing the socket of the connection in hand, which goes or stays on its
\* way into the list.
LEMMA Closes ==
  ASSUME IInv, NEW t \in Threads, NEW a, NEW j, Goes(t, a, j), stage # "aborted",
         thread[t].job.conn # None, thread[t].at # "pushing", Disconnected(thread[t].job.conn),
         j.conn = None \/ (j.conn = thread[t].job.conn /\ a = "pushing"),
         UNCHANGED <<accepting, free, queue>>
  PROVE  /\ Apart' /\ Made' /\ OpenInHand' /\ PeersDiffer' /\ PeersConnected'
         /\ client' \in [Clients -> [at : {"idle", "connecting", "connected", "waiting", "answered", "gone"},
                                     request : Request \cup {NoRequest}, got : Nat]]
         /\ peer' \in Seq(Clients \cup {NoClient}) /\ Len(peer') = Len(peer)
<1> USE DEF IInv
<1>0. PICK conn : conn = thread[t].job.conn
  OBVIOUS
<1> USE <1>0
<1>1. /\ conn \in Connections /\ Len(peer) \in Nat
      /\ \A u \in Threads : thread[u].job.conn \in Nat
  BY JobTypes DEF Control, Made, Connections, None
<1>2. InHand(conn)
  BY DEF InHand
<1>3. peer[conn] \in Clients
  BY <1>1, <1>2 DEF ConnectionsExclusive, OpenInHand, DaemonTypeOK, Connections
<1>4. /\ peer' \in Seq(Clients \cup {NoClient}) /\ Len(peer') = Len(peer)
      /\ \A d \in Connections : peer'[d] = IF d = conn THEN NoClient ELSE peer[d]
      /\ Connections' = Connections
  BY <1>1 DEF Disconnected, DaemonTypeOK, Connections
<1>5. Apart' /\ Made'
  BY <1>4, KeepsApart
<1>6. OpenInHand'
  <2>1. \A s : Queued(s)' = Queued(s)
    BY DEF Queued
  <2>2. \A d \in Connections : d # conn => (InHand(d)' <=> InHand(d))
    BY <2>1, GoesFacts DEF InHand, Connections, None
  <2>3. \A u \in Threads : u # t => thread[u].job.conn # conn
    BY DEF ConnectionsExclusive, ThreadsApart
  <2>4. \A s \in Spectrometers : \A i \in Queued(s) : queue[s][i].conn # conn
    BY DEF ConnectionsExclusive, PlacesApart
  <2>5. ~InHand(conn)'
    <3>1. thread'[t].job.conn # conn \/ thread'[t].at = "pushing"
      BY GoesFacts
    <3>2. \A u \in Threads : thread'[u].job.conn # conn \/ thread'[u].at = "pushing"
      BY <2>3, <3>1, GoesFacts
    <3>3. QED
      BY <2>1, <2>4, <3>2 DEF InHand
  <2>6. \A d \in Connections : peer'[d] # NoClient <=> InHand(d)'
    <3>1. TAKE d \in Connections
    <3>2. CASE d = conn
      BY <1>4, <2>5, <3>2
    <3>3. CASE d # conn
      BY <1>4, <2>2, <3>3 DEF ConnectionsExclusive, OpenInHand
    <3>4. QED
      BY <3>2, <3>3
  <2>7. QED
    BY <1>4, <2>6 DEF OpenInHand
<1>7. PeersDiffer'
  BY <1>4 DEF ConnectionsExclusive, PeersDiffer
<1>8. client' = [client EXCEPT ![peer[conn]] = Idle]
  BY DEF Disconnected
<1>9. client' \in [Clients -> [at : {"idle", "connecting", "connected", "waiting", "answered", "gone"},
                               request : Request \cup {NoRequest}, got : Nat]]
  BY <1>8 DEF DaemonTypeOK, Idle, None
<1>10. PeersConnected'
  <2>1. SUFFICES ASSUME NEW d \in Connections, d # conn, peer[d] # NoClient
                 PROVE  client'[peer[d]].at \in {"connected", "waiting", "answered", "gone"}
    BY <1>4 DEF PeersConnected
  <2>2. peer[d] # peer[conn] /\ peer[d] \in Clients
    BY <1>1, <2>1 DEF ConnectionsExclusive, PeersDiffer, DaemonTypeOK, Connections
  <2>3. QED
    BY <1>8, <2>1, <2>2 DEF DaemonTypeOK, PeersConnected
<1>11. QED
  BY <1>4, <1>5, <1>6, <1>7, <1>9, <1>10

-----------------------------------------------------------------------------
(* The io thread: accepting, reading, submitting.                          *)

LEMMA AcceptInv ==
  ASSUME IInv, Running, NEW c \in Clients, AcceptConnection(c)
  PROVE  IInv'
<1> USE DEF IInv
<1> USE IoApart, CountsNat
<1>1. PICK conn, job : conn = accepting /\ job = [NoJob EXCEPT !.conn = conn]
  OBVIOUS
<1>2. /\ thread[Io].at = "loop" /\ stage = "serving" /\ conn # None /\ conn \in Connections
      /\ client[c].at = "connecting" /\ client' = [client EXCEPT ![c].at = "connected"]
      /\ peer' = [peer EXCEPT ![conn] = c] /\ accepting' = None
      /\ Goes(Io, "reading", job)
      /\ UNCHANGED <<free, buffer, queue, stage, joined, spent, fault>>
  BY <1>1 DEF AcceptConnection, IoLoop, DaemonTypeOK
<1>3. job \in Job /\ job.conn = conn
  BY <1>1, <1>2, NoJobType DEF Job, Connections
<1>4. thread[Io].job.conn = None
  BY <1>2 DEF Control, HandsOK, HandOK
<1>5. /\ HandsOK'
      /\ thread' \in [Threads -> [at : {"loop", "reading", "submit", "execute", "fill", "write",
                                        "close", "pushing", "join", "ended"}, job : Job]]
  <2>1. HandOK(Io, [at |-> "reading", job |-> job])
    BY <1>2, <1>3 DEF HandOK, IoAt
  <2>2. QED
    BY <1>2, <1>3, <2>1, GoesType
<1>6. \A s : Queued(s)' = Queued(s)
  BY <1>2 DEF Queued
<1>7. /\ Len(peer) \in Nat /\ Len(peer') = Len(peer) /\ Connections' = Connections
      /\ peer' \in Seq(Clients \cup {NoClient})
      /\ \A d \in Connections : peer'[d] = IF d = conn THEN c ELSE peer[d]
  BY <1>2 DEF DaemonTypeOK, Connections
<1>8. /\ thread'[Io].at = "reading" /\ thread'[Io].job.conn = conn
      /\ \A u \in Threads : u # Io => thread'[u] = thread[u]
  BY <1>2, <1>3, GoesFacts
<1>9. DaemonTypeOK'
  <2>1. posted' \in BOOLEAN
    BY Zenon DEF AcceptConnection, DaemonTypeOK, sockets
  <2>2. client' \in ClientTable
    <3>1. \E d \in Clients : client' = [client EXCEPT ![d].at = "connected"]
      BY <1>2
    <3>2. QED
      BY <3>1, ClientTyped, ClientMoves DEF ClientAt
  <2>3. accepting' \in Nat
    BY <1>2 DEF DaemonTypeOK, None
  <2>4. QED
    BY <1>2, <1>5, <1>7, <2>1, <2>2, <2>3 DEF DaemonTypeOK, ClientTable, ClientAt
<1>10. Control'
  <2>1. QueueJobs'
    BY <1>2, <1>6 DEF Control, QueueJobs
  <2>2. Made'
    BY <1>2, <1>6, <1>7, <1>8 DEF Control, Made, Connections
  <2>3. QED
    BY <1>5, <2>1, <2>2 DEF Control
<1>11. PeersConnected' /\ PeersDiffer'
  <2>1. \A d \in Connections : peer[d] # c
    BY <1>2, ClientsAssumption DEF PeersConnected
  <2>2. PeersDiffer'
    BY <1>7, <2>1 DEF ConnectionsExclusive, PeersDiffer
  <2>3. \A d \in Connections : peer[d] # NoClient => peer[d] \in Clients
    BY DEF DaemonTypeOK, Connections
  <2>4. PeersConnected'
    BY <1>2, <1>7, <2>1, <2>3 DEF PeersConnected, DaemonTypeOK
  <2>5. QED
    BY <2>2, <2>4
<1>12. Ending'
  <2>1. StageOK'
    BY <1>2, <1>8 DEF Ending, StageOK
  <2>2. DoneLast'
    BY <1>2, KeepsDone
  <2>3. QED
    BY <2>1, <2>2 DEF Ending
<1>13. /\ \A t \in Threads : thread[t].job.conn # conn
       /\ \A s \in Spectrometers : \A j \in Queued(s) : queue[s][j].conn # conn
       /\ \A i \in 1 .. Len(free) : free[i] # conn
  BY <1>1, <1>2 DEF ConnectionsExclusive, PlacesApart
<1>14. FreeOnce' /\ ThreadsApart' /\ QueuedOnce'
  BY <1>2, <1>6, <1>8, <1>13 DEF ConnectionsExclusive, FreeOnce, ThreadsApart, QueuedOnce
<1>15. PlacesApart'
  <2>1. \A i \in 1 .. Len(free) : free[i] # None
    BY DEF DaemonTypeOK, Connections, None
  <2>2. \A t \in Threads : thread'[t].job.conn = thread[t].job.conn \/ thread'[t].job.conn = conn
    BY <1>8
  <2>3. QED
    BY <1>2, <1>6, <1>13, <2>1, <2>2 DEF ConnectionsExclusive, PlacesApart
<1>16. OpenInHand'
  <2>1. \A d \in Connections : d # conn => (InHand(d)' <=> InHand(d))
    BY <1>2, <1>4, <1>6, <1>8 DEF InHand, Connections, None
  <2>2. InHand(conn)'
    BY <1>8 DEF InHand
  <2>3. \A d \in Connections : peer'[d] # NoClient <=> InHand(d)'
    <3>1. TAKE d \in Connections
    <3>2. CASE d = conn
      BY <1>7, <2>2, <3>2, ClientsAssumption
    <3>3. CASE d # conn
      BY <1>2, <1>7, <2>1, <3>3 DEF ConnectionsExclusive, OpenInHand
    <3>4. QED
      BY <3>2, <3>3
  <2>4. QED
    BY <1>7, <2>3 DEF OpenInHand
<1>17. OneAcceptChain'
  <2>1. UNCHANGED posted /\ UNCHANGED fault /\ UNCHANGED stage
    BY DEF AcceptConnection
  <2>2. fault = "none" => ~posted
    BY <1>1, <1>2, Zenon DEF OneAcceptChain
  <2>3. accepting' = None /\ thread'[Io].job.conn # None
    BY <1>2, <1>8
  <2>4. QED
    BY <2>1, <2>2, <2>3, Zenon DEF OneAcceptChain
<1>18. QED
  BY <1>9, <1>10, <1>11, <1>12, <1>14, <1>15, <1>16, <1>17 DEF ConnectionsExclusive

LEMMA AcceptErrorInv ==
  ASSUME IInv, Running, AcceptError
  PROVE  IInv'
<1> USE DEF IInv
<1>1. /\ accepting # None /\ accepting' = None /\ stage = "serving"
      /\ spent' = [spent EXCEPT !.errors = spent.errors + 1]
      /\ UNCHANGED <<client, peer, free, buffer, thread, queue, stage, joined, fault>>
  BY DEF AcceptError, IoLoop
<1>2. \A s : Queued(s)' = Queued(s)
  BY <1>1 DEF Queued
<1>3. \A conn : InHand(conn)' <=> InHand(conn)
  BY <1>1, <1>2 DEF InHand
<1>4. DaemonTypeOK'
  <2>1. spent' \in [requests : Nat, errors : Nat, entries : Nat]
    BY <1>1, SpentType
  <2>2. posted' \in BOOLEAN
    BY Zenon DEF AcceptError
  <2>3. QED
    BY <1>1, <2>1, <2>2 DEF DaemonTypeOK, Connections
<1>5. Control' /\ PeersConnected'
  BY <1>1, <1>2 DEF Control, HandsOK, QueueJobs, Made, PeersConnected, Connections
<1>6. Ending'
  BY <1>1, <1>2 DEF Ending, StageOK, DoneLast, Sent
<1>7. FreeOnce' /\ ThreadsApart' /\ QueuedOnce' /\ PeersDiffer'
  BY <1>1, <1>2 DEF ConnectionsExclusive, FreeOnce, ThreadsApart, QueuedOnce, PeersDiffer, Connections
<1>8. PlacesApart'
  <2>1. \A i \in 1 .. Len(free) : free[i] # None
    BY DEF DaemonTypeOK, Connections, None
  <2>2. QED
    BY <1>1, <1>2, <2>1 DEF ConnectionsExclusive, PlacesApart
<1>9. OpenInHand'
  BY <1>1, <1>3 DEF ConnectionsExclusive, OpenInHand, Connections
<1>10. OneAcceptChain'
  <2>1. UNCHANGED thread /\ UNCHANGED fault /\ UNCHANGED stage /\ posted' = TRUE
    BY DEF AcceptError
  <2>2. fault = "none" => thread[Io].job.conn = None
    BY <1>1, Zenon DEF OneAcceptChain
  <2>3. QED
    BY <1>1, <2>1, <2>2, Zenon DEF OneAcceptChain
<1>11. QED
  BY <1>4, <1>5, <1>6, <1>7, <1>8, <1>9, <1>10 DEF ConnectionsExclusive

LEMMA GetRequestInv ==
  ASSUME IInv, Running, GetRequest
  PROVE  IInv'
<1> USE DEF IInv
<1> USE IoApart, CountsNat
<1>1. PICK conn, r, job, a :
        /\ conn = thread[Io].job.conn /\ r = client[peer[conn]].request /\ r # NoRequest
        /\ job = [kind |-> r.kind, target |-> r.target, conn |-> conn] /\ a = HandleRequest(r)
        /\ thread[Io].at = "reading" /\ Goes(Io, a, job)
        /\ UNCHANGED <<client, peer, free, accepting, buffer, queue, stage, joined, spent, fault>>
  BY DEF GetRequest
<1>2. UNCHANGED posted
  BY DEF GetRequest
<1>3. stage = "serving" /\ conn # None /\ conn \in Connections /\ InHand(conn)
  <2>1. stage = "serving"
    BY <1>1, Serving
  <2>0. conn = thread[Io].job.conn
    BY <1>1
  <2>2. conn # None
    BY <1>1 DEF Control, HandsOK, HandOK
  <2>3. conn \in Connections
    BY <2>0, <2>2, JobTypes DEF Control, Made, Connections, None
  <2>4. InHand(conn)
    BY <1>1 DEF InHand
  <2>5. QED
    BY <2>1, <2>2, <2>3, <2>4
<1>4. peer[conn] \in Clients
  BY <1>3 DEF ConnectionsExclusive, OpenInHand, DaemonTypeOK, Connections
<1>5. r \in Request
  BY <1>1, <1>4 DEF DaemonTypeOK
<1>6. job \in Job /\ job.conn = conn /\ a \in {"fill", "submit", "close"}
  <2>1. a \in {"fill", "submit", "close"}
    BY <1>1 DEF HandleRequest
  <2>2. conn \in Nat /\ r.kind \in Kinds /\ r.target \in Threads
    BY <1>3, <1>5 DEF Request, Connections
  <2>3. QED
    BY <1>1, <2>1, <2>2 DEF Job
<1>7. HandOK(Io, [at |-> a, job |-> job])
  BY <1>1, <1>3, <1>5, <1>6 DEF HandOK, IoAt, JobOK, HandleRequest, Submitted, Known
<1>8. /\ HandsOK'
      /\ thread' \in [Threads -> [at : {"loop", "reading", "submit", "execute", "fill", "write",
                                        "close", "pushing", "join", "ended"}, job : Job]]
  BY <1>1, <1>6, <1>7, GoesType
<1>9. Apart' /\ Made'
  BY <1>1, <1>6, KeepsApart
<1>10. OpenInHand' /\ PeersDiffer'
  <2>1. a # "pushing" /\ thread[Io].at # "pushing" /\ job.conn = thread[Io].job.conn
    BY <1>1, <1>6
  <2>2. UNCHANGED <<queue, peer, stage>> /\ Goes(Io, a, job)
    BY <1>1
  <2>3. QED
    BY <2>1, <2>2, KeepsOpen
<1>11. DaemonTypeOK'
  <2>1. posted' \in BOOLEAN
    BY <1>2, Zenon DEF DaemonTypeOK
  <2>2. QED
    BY <1>1, <1>8, <2>1 DEF DaemonTypeOK, Connections
<1>12. Control' /\ PeersConnected'
  BY <1>1, <1>8, <1>9 DEF Control, QueueJobs, Queued, PeersConnected, Connections
<1>13. Ending'
  <2>1. DoneLast'
    BY <1>1, <1>6, KeepsDone
  <2>2. StageOK'
    BY <1>1, <1>3, <1>6, GoesFacts DEF Ending, StageOK
  <2>3. QED
    BY <2>1, <2>2 DEF Ending
<1>14. OneAcceptChain'
  BY <1>1, <1>2, <1>3, <1>6, KeepsChain
<1>15. QED
  BY <1>9, <1>10, <1>11, <1>12, <1>13, <1>14 DEF ConnectionsExclusive, Apart

LEMMA ReadFailsInv ==
  ASSUME IInv, Running, ReadFails
  PROVE  IInv'
<1> USE DEF IInv
<1> USE IoApart, CountsNat
<1>1. /\ thread[Io].at = "reading" /\ Disconnected(thread[Io].job.conn) /\ stage' = "stopped"
      /\ Goes(Io, "loop", NoJob)
      /\ UNCHANGED <<free, accepting, buffer, queue, joined, spent, fault>>
  BY DEF ReadFails
<1>2. stage = "serving" /\ joined = {} /\ thread[Io].job.conn # None
  BY <1>1, Serving DEF Control, HandsOK, HandOK
<1>3. /\ Apart' /\ Made' /\ OpenInHand' /\ PeersDiffer' /\ PeersConnected'
      /\ client' \in [Clients -> [at : {"idle", "connecting", "connected", "waiting", "answered", "gone"},
                                  request : Request \cup {NoRequest}, got : Nat]]
      /\ peer' \in Seq(Clients \cup {NoClient}) /\ Len(peer') = Len(peer)
  BY <1>1, <1>2, NoJobType, Closes
<1>4. HandOK(Io, [at |-> "loop", job |-> NoJob])
  BY NoJobType DEF HandOK, IoAt
<1>5. /\ HandsOK'
      /\ thread' \in [Threads -> [at : {"loop", "reading", "submit", "execute", "fill", "write",
                                        "close", "pushing", "join", "ended"}, job : Job]]
  BY <1>1, <1>4, NoJobType, GoesType
<1>6. DaemonTypeOK'
  <2>1. posted' \in BOOLEAN
    BY Zenon DEF ReadFails, DaemonTypeOK
  <2>2. QED
    BY <1>1, <1>3, <1>5, <2>1 DEF DaemonTypeOK, Connections
<1>7. Control'
  BY <1>1, <1>3, <1>5 DEF Control, QueueJobs, Queued
<1>8. Ending'
  <2>1. DoneLast'
    BY <1>1, NoJobType, KeepsDone
  <2>2. StageOK'
    BY <1>1, <1>2, GoesFacts DEF StageOK
  <2>3. QED
    BY <2>1, <2>2 DEF Ending
<1>9. OneAcceptChain'
  BY <1>1 DEF OneAcceptChain
<1>10. QED
  BY <1>3, <1>6, <1>7, <1>8, <1>9 DEF ConnectionsExclusive, Apart

LEMMA TimerFiresInv ==
  ASSUME IInv, Running, NEW s \in Spectrometers, TimerFires(s)
  PROVE  IInv'
<1> USE DEF IInv
<1> USE IoApart, CountsNat
<1>1. PICK job :
        /\ job = [kind |-> "entry", target |-> s, conn |-> None]
        /\ thread[Io].at = "loop" /\ stage = "serving" /\ Goes(Io, "submit", job)
        /\ spent' = [spent EXCEPT !.entries = spent.entries + 1]
        /\ UNCHANGED <<client, peer, free, accepting, buffer, queue, stage, joined, fault>>
  BY DEF TimerFires, IoLoop
<1>2. UNCHANGED posted
  BY DEF TimerFires
<1>3. job \in Job /\ job.conn = None
  BY <1>1 DEF Job, None
<1>4. thread[Io].job.conn = None
  BY <1>1 DEF Control, HandsOK, HandOK
<1>5. HandOK(Io, [at |-> "submit", job |-> job])
  BY <1>1, <1>3 DEF HandOK, IoAt, JobOK
<1>6. /\ HandsOK'
      /\ thread' \in [Threads -> [at : {"loop", "reading", "submit", "execute", "fill", "write",
                                        "close", "pushing", "join", "ended"}, job : Job]]
  BY <1>1, <1>3, <1>5, GoesType
<1>7. Apart' /\ Made'
  BY <1>1, <1>3, KeepsApart
<1>8. OpenInHand' /\ PeersDiffer'
  <2>1. thread[Io].at # "pushing" /\ job.conn = thread[Io].job.conn
    BY <1>1, <1>3, <1>4
  <2>2. UNCHANGED <<queue, peer, stage>> /\ Goes(Io, "submit", job)
    BY <1>1
  <2>3. QED
    BY <2>1, <2>2, KeepsOpen
<1>9. DaemonTypeOK'
  <2>1. posted' \in BOOLEAN
    BY <1>2, Zenon DEF DaemonTypeOK
  <2>2. spent' \in [requests : Nat, errors : Nat, entries : Nat]
    BY <1>1, SpentType
  <2>3. QED
    BY <1>1, <1>6, <2>1, <2>2 DEF DaemonTypeOK, Connections
<1>10. Control' /\ PeersConnected'
  BY <1>1, <1>6, <1>7 DEF Control, QueueJobs, Queued, PeersConnected, Connections
<1>11. Ending'
  <2>1. DoneLast'
    BY <1>1, KeepsDone
  <2>2. StageOK'
    BY <1>1, GoesFacts DEF Ending, StageOK
  <2>3. QED
    BY <2>1, <2>2 DEF Ending
<1>12. OneAcceptChain'
  BY <1>1, <1>2, <1>3, <1>4, KeepsChain
<1>13. QED
  BY <1>7, <1>8, <1>9, <1>10, <1>11, <1>12 DEF ConnectionsExclusive, Apart

-----------------------------------------------------------------------------
(* Answering, on the io thread and on the workers.                         *)

\* No thread answers once the workers are gone, and the io thread only while
\* the daemon serves.
LEMMA Answering ==
  ASSUME IInv, Running, NEW t \in Threads,
         thread[t].at \in {"fill", "write", "close", "pushing"}
  PROVE  /\ stage # "aborted" /\ fault = "none"
         /\ t = Io => stage = "serving"
         /\ thread[t].job \in Job /\ thread[t].job.conn # None
         /\ thread[t].job.conn \in Connections
<1> USE DEF IInv
<1>1. stage # "aborted" /\ fault = "none"
  BY DEF Running
<1>2. t = Io => stage = "serving"
  BY Serving
<1>3. thread[t].job.conn # None
  BY DEF Control, HandsOK, HandOK
<1>4. thread[t].job \in Job /\ thread[t].job.conn \in Connections
  BY <1>3, JobTypes DEF Control, Made, Connections, None
<1>5. QED
  BY <1>1, <1>2, <1>3, <1>4

\* A step from one place of answering to the next.
LEMMA AnswerStep ==
  ASSUME IInv, Running, NEW t \in Threads,
         thread[t].at \in {"fill", "write"}, NEW a \in {"write", "close"},
         NEW job, job = thread[t].job, Goes(t, a, job),
         UNCHANGED <<peer, free, accepting, posted, queue, stage, joined, spent>>,
         fault' = "none" => fault = "none"
  PROVE  /\ Control' /\ Ending' /\ ConnectionsExclusive' /\ OneAcceptChain'
         /\ thread' \in [Threads -> [at : {"loop", "reading", "submit", "execute", "fill", "write",
                                           "close", "pushing", "join", "ended"}, job : Job]]
<1> USE DEF IInv
<1> USE IoApart
<1>1. job \in Job /\ job.conn # None
  BY Answering
<1>2. /\ Goes(t, a, job) /\ job \in Job /\ job.conn # None /\ job.conn = thread[t].job.conn
      /\ a # "pushing" /\ thread[t].at # "pushing"
  BY <1>1
<1>3. HandOK(t, [at |-> a, job |-> job])
  BY <1>2 DEF HandOK, IoAt, WorkerAt
<1>4. /\ HandsOK'
      /\ thread' \in [Threads -> [at : {"loop", "reading", "submit", "execute", "fill", "write",
                                        "close", "pushing", "join", "ended"}, job : Job]]
  BY <1>2, <1>3, GoesType
<1>5. Apart' /\ Made'
  BY <1>2, KeepsApart
<1>6. OpenInHand' /\ PeersDiffer'
  BY <1>2, KeepsOpen
<1>7. Control'
  BY <1>4, <1>5 DEF Control, QueueJobs, Queued
<1>8. Ending'
  <2>1. DoneLast'
    BY <1>2, KeepsDone
  <2>2. StageOK'
    BY <1>2, Answering, GoesFacts DEF Ending, StageOK
  <2>3. QED
    BY <2>1, <2>2 DEF Ending
<1>9. OneAcceptChain'
  BY <1>2, KeepsChain
<1>10. QED
  BY <1>4, <1>5, <1>6, <1>7, <1>8, <1>9 DEF ConnectionsExclusive, Apart

LEMMA FillInv ==
  ASSUME IInv, Running, NEW t \in Threads, FillResponse(t)
  PROVE  IInv'
<1> USE DEF IInv
<1>1. PICK job :
        /\ job = thread[t].job /\ thread[t].at = "fill" /\ Goes(t, "write", job) /\ buffer' = job.conn
        /\ fault' = fault \/ fault' = "buffer"
        /\ UNCHANGED <<client, peer, free, accepting, queue, stage, joined, spent>>
  BY DEF FillResponse
<1>2. UNCHANGED posted
  BY DEF FillResponse
<1>3. /\ Control' /\ Ending' /\ ConnectionsExclusive' /\ OneAcceptChain'
      /\ thread' \in [Threads -> [at : {"loop", "reading", "submit", "execute", "fill", "write",
                                        "close", "pushing", "join", "ended"}, job : Job]]
  BY <1>1, <1>2, AnswerStep
<1>4. DaemonTypeOK'
  <2>1. posted' \in BOOLEAN
    BY <1>2, Zenon DEF DaemonTypeOK
  <2>2. buffer' \in Nat
    BY <1>1, JobTypes
  <2>3. fault' \in {"none", "list", "sequence", "device", "buffer"}
    BY <1>1 DEF DaemonTypeOK
  <2>4. QED
    BY <1>1, <1>3, <2>1, <2>2, <2>3 DEF DaemonTypeOK, Connections
<1>5. PeersConnected'
  BY <1>1 DEF PeersConnected, Connections
<1>6. QED
  BY <1>3, <1>4, <1>5

LEMMA WriteInv ==
  ASSUME IInv, Running, NEW t \in Threads, WriteResponse(t)
  PROVE  IInv'
<1> USE DEF IInv
<1>1. PICK job :
        /\ job = thread[t].job /\ thread[t].at = "write" /\ Goes(t, "close", job)
        /\ UNCHANGED <<peer, free, accepting, buffer, queue, stage, joined, spent, fault>>
  BY DEF WriteResponse
<1>2. UNCHANGED posted
  BY DEF WriteResponse
<1>3. PICK c, b : /\ client' = client \/ client' = [client EXCEPT ![c].at = "answered", ![c].got = b]
                  /\ c = peer[thread[t].job.conn] /\ b \in Nat
  <2>1. \A b \in InBuffer(t) : b \in Nat
    BY DEF InBuffer, DaemonTypeOK, None
  <2>2. 0 \in Nat
    OBVIOUS
  <2>3. QED
    BY <2>1, <2>2 DEF WriteResponse
<1>4. /\ Control' /\ Ending' /\ ConnectionsExclusive' /\ OneAcceptChain'
      /\ thread' \in [Threads -> [at : {"loop", "reading", "submit", "execute", "fill", "write",
                                        "close", "pushing", "join", "ended"}, job : Job]]
  BY <1>1, <1>2, AnswerStep
<1>5. /\ client' \in ClientTable
      /\ \A e \in Clients : client'[e].at = client[e].at \/ client'[e].at = "answered"
  <2>1. client \in ClientTable
    BY ClientTyped
  <2>2. CASE client' = client
    BY <2>1, <2>2
  <2>3. CASE client' = [client EXCEPT ![c].at = "answered", ![c].got = b]
    BY <1>3, <2>1, <2>3, ClientAnswered
  <2>4. QED
    BY <1>3, <2>2, <2>3
<1>6. DaemonTypeOK'
  <2>1. posted' \in BOOLEAN
    BY <1>2, Zenon DEF DaemonTypeOK
  <2>2. QED
    BY <1>1, <1>4, <1>5, <2>1 DEF DaemonTypeOK, Connections, ClientTable, ClientAt
<1>7. PeersConnected'
  <2>1. \A d \in Connections : peer[d] # NoClient => peer[d] \in Clients
    BY DEF DaemonTypeOK, Connections
  <2>2. QED
    BY <1>1, <1>5, <2>1 DEF PeersConnected, Connections
<1>8. QED
  BY <1>4, <1>6, <1>7

LEMMA WriteFailsInv ==
  ASSUME IInv, Running, NEW t \in Threads, WriteFails(t)
  PROVE  IInv'
<1> USE DEF IInv
<1> USE IoApart
<1>1. /\ thread[t].at = "write" /\ Goes(t, "loop", NoJob)
      /\ UNCHANGED <<free, accepting, buffer, queue, joined, spent, fault>>
  BY DEF WriteFails
<1>2. stage # "aborted" /\ (t = Io => stage = "serving") /\ thread[t].job.conn # None
  BY <1>1, Answering
<1>3. HandOK(t, [at |-> "loop", job |-> NoJob])
  BY NoJobType DEF HandOK, IoAt, WorkerAt
<1>4. /\ HandsOK'
      /\ thread' \in [Threads -> [at : {"loop", "reading", "submit", "execute", "fill", "write",
                                        "close", "pushing", "join", "ended"}, job : Job]]
  BY <1>1, <1>3, NoJobType, GoesType
<1>5. posted' \in BOOLEAN
  BY Zenon DEF WriteFails, DaemonTypeOK
<1>6. DoneLast'
  BY <1>1, KeepsDone
<1>7. CASE t = Io /\ stage' = "stopped" /\ Disconnected(thread[t].job.conn)
  <2>1. /\ Apart' /\ Made' /\ OpenInHand' /\ PeersDiffer' /\ PeersConnected'
        /\ client' \in [Clients -> [at : {"idle", "connecting", "connected", "waiting", "answered", "gone"},
                                    request : Request \cup {NoRequest}, got : Nat]]
        /\ peer' \in Seq(Clients \cup {NoClient}) /\ Len(peer') = Len(peer)
    BY <1>1, <1>2, <1>7, NoJobType, Closes
  <2>2. DaemonTypeOK'
    BY <1>1, <1>4, <1>5, <1>7, <2>1 DEF DaemonTypeOK, Connections
  <2>3. Control'
    BY <1>1, <1>4, <2>1 DEF Control, QueueJobs, Queued
  <2>4. StageOK'
    BY <1>1, <1>2, <1>7, GoesFacts DEF Ending, StageOK
  <2>5. OneAcceptChain'
    BY <1>7 DEF OneAcceptChain
  <2>6. QED
    BY <1>6, <2>1, <2>2, <2>3, <2>4, <2>5 DEF ConnectionsExclusive, Apart, Ending
<1>8. CASE t # Io /\ stage' = "aborted" /\ AllClosed
  <2>1. /\ peer' \in Seq(Clients \cup {NoClient}) /\ Len(peer') = Len(peer)
        /\ Connections' = Connections /\ \A conn \in Connections : peer'[conn] = NoClient
    BY <1>8 DEF AllClosed, DaemonTypeOK, Connections
  <2>2. client' \in [Clients -> [at : {"idle", "connecting", "connected", "waiting", "answered", "gone"},
                                 request : Request \cup {NoRequest}, got : Nat]]
    BY <1>8 DEF AllClosed, Idle, None
  <2>3. DaemonTypeOK'
    BY <1>1, <1>4, <1>5, <1>8, <2>1, <2>2 DEF DaemonTypeOK
  <2>4. Apart' /\ Made'
    BY <1>1, <2>1, NoJobType, KeepsApart
  <2>5. Control'
    BY <1>1, <1>4, <2>4 DEF Control, QueueJobs, Queued
  <2>6. StageOK' /\ OpenInHand' /\ OneAcceptChain'
    BY <1>8 DEF StageOK, OpenInHand, OneAcceptChain
  <2>7. PeersDiffer' /\ PeersConnected'
    BY <2>1 DEF PeersDiffer, PeersConnected
  <2>8. QED
    BY <1>6, <2>3, <2>4, <2>5, <2>6, <2>7 DEF ConnectionsExclusive, Apart, Ending
<1>9. QED
  BY <1>7, <1>8 DEF WriteFails

LEMMA CloseInv ==
  ASSUME IInv, Running, NEW t \in Threads, CloseConnection(t)
  PROVE  IInv'
<1> USE DEF IInv
<1> USE IoApart
<1>1. PICK job :
        /\ job = thread[t].job /\ thread[t].at = "close" /\ Goes(t, "pushing", job)
        /\ Disconnected(thread[t].job.conn)
        /\ fault' = IF ListBusy THEN "list" ELSE fault
        /\ UNCHANGED <<free, accepting, buffer, queue, stage, joined, spent>>
  BY DEF CloseConnection
<1>2. UNCHANGED posted
  BY DEF CloseConnection
<1>3. /\ stage # "aborted" /\ (t = Io => stage = "serving") /\ fault = "none"
      /\ job \in Job /\ job.conn # None /\ job.conn = thread[t].job.conn
  BY <1>1, Answering
<1>4. /\ Apart' /\ Made' /\ OpenInHand' /\ PeersDiffer' /\ PeersConnected'
      /\ client' \in [Clients -> [at : {"idle", "connecting", "connected", "waiting", "answered", "gone"},
                                  request : Request \cup {NoRequest}, got : Nat]]
      /\ peer' \in Seq(Clients \cup {NoClient}) /\ Len(peer') = Len(peer)
  BY <1>1, <1>3, Closes
<1>5. HandOK(t, [at |-> "pushing", job |-> job])
  BY <1>3 DEF HandOK, IoAt, WorkerAt
<1>6. /\ HandsOK'
      /\ thread' \in [Threads -> [at : {"loop", "reading", "submit", "execute", "fill", "write",
                                        "close", "pushing", "join", "ended"}, job : Job]]
  BY <1>1, <1>3, <1>5, GoesType
<1>7. DaemonTypeOK'
  <2>1. posted' \in BOOLEAN
    BY <1>2, Zenon DEF DaemonTypeOK
  <2>2. fault' \in {"none", "list", "sequence", "device", "buffer"}
    BY <1>1 DEF DaemonTypeOK
  <2>3. QED
    BY <1>1, <1>4, <1>6, <2>1, <2>2 DEF DaemonTypeOK, Connections
<1>8. Control'
  BY <1>1, <1>4, <1>6 DEF Control, QueueJobs, Queued
<1>9. Ending'
  <2>1. DoneLast'
    BY <1>1, KeepsDone
  <2>2. StageOK'
    BY <1>1, <1>3, GoesFacts DEF Ending, StageOK
  <2>3. QED
    BY <2>1, <2>2 DEF Ending
<1>10. OneAcceptChain'
  BY <1>1, <1>2, <1>3, KeepsChain
<1>11. QED
  BY <1>4, <1>7, <1>8, <1>9, <1>10 DEF ConnectionsExclusive, Apart

LEMMA PushInv ==
  ASSUME IInv, Running, NEW t \in Threads, PushConnection(t)
  PROVE  IInv'
<1> USE DEF IInv
<1> USE IoApart
<1>1. PICK conn :
        /\ conn = thread[t].job.conn /\ thread[t].at = "pushing" /\ Goes(t, "loop", NoJob)
        /\ free' = Append(free, conn)
        /\ UNCHANGED <<client, peer, accepting, buffer, queue, stage, joined, spent, fault>>
  BY DEF PushConnection
<1>2. posted' = (posted \/ t = Io)
  BY DEF PushConnection
<1>3. /\ stage # "aborted" /\ (t = Io => stage = "serving") /\ fault = "none"
      /\ conn # None /\ conn \in Connections
  BY <1>1, Answering
<1>4. HandOK(t, [at |-> "loop", job |-> NoJob])
  BY NoJobType DEF HandOK, IoAt, WorkerAt
<1>5. /\ HandsOK'
      /\ thread' \in [Threads -> [at : {"loop", "reading", "submit", "execute", "fill", "write",
                                        "close", "pushing", "join", "ended"}, job : Job]]
  BY <1>1, <1>4, NoJobType, GoesType
<1>6. /\ free \in Seq(Connections) /\ free' \in Seq(Connections) /\ Len(free) \in Nat
      /\ Len(free') = Len(free) + 1
      /\ \A i \in 1 .. Len(free') : free'[i] = IF i <= Len(free) THEN free[i] ELSE conn
  BY <1>1, <1>3 DEF DaemonTypeOK
<1>7. DaemonTypeOK'
  <2>1. posted' \in BOOLEAN
    BY <1>2, Zenon DEF DaemonTypeOK
  <2>2. QED
    BY <1>1, <1>5, <1>6, <2>1 DEF DaemonTypeOK, Connections
<1>8. \A s : Queued(s)' = Queued(s)
  BY <1>1 DEF Queued
<1>9. /\ thread'[t].job.conn = None /\ thread'[t].at = "loop"
      /\ \A u \in Threads : u # t => thread'[u] = thread[u]
      /\ \A u \in Threads : thread'[u].job.conn = thread[u].job.conn \/ thread'[u].job.conn = None
  BY <1>1, NoJobType, GoesFacts
<1>10. Control' /\ PeersConnected'
  <2>1. Made'
    BY <1>1, <1>8, <1>9, JobTypes DEF Control, Made, None
  <2>2. QED
    BY <1>1, <1>5, <1>8, <2>1 DEF Control, QueueJobs, PeersConnected, Connections
<1>11. Ending'
  <2>1. DoneLast'
    BY <1>1, KeepsDone
  <2>2. StageOK'
    BY <1>1, <1>3, <1>9 DEF Ending, StageOK
  <2>3. QED
    BY <2>1, <2>2 DEF Ending
<1>12. /\ \A u \in Threads : thread'[u].job.conn # conn
       /\ \A s \in Spectrometers : \A i \in Queued(s) : queue[s][i].conn # conn
       /\ accepting # conn /\ \A i \in 1 .. Len(free) : free[i] # conn
  <2>1. \A u \in Threads : u # t => thread[u].job.conn # conn
    BY <1>1, <1>3 DEF ConnectionsExclusive, ThreadsApart
  <2>2. \A u \in Threads : thread'[u].job.conn # conn
    BY <1>3, <1>9, <2>1
  <2>3. \A s \in Spectrometers : \A i \in Queued(s) : queue[s][i].conn # conn
    BY <1>1, <1>3 DEF ConnectionsExclusive, PlacesApart
  <2>4. accepting # conn /\ \A i \in 1 .. Len(free) : free[i] # conn
    BY <1>1, <1>3 DEF ConnectionsExclusive, PlacesApart
  <2>5. QED
    BY <2>2, <2>3, <2>4
<1>13. FreeOnce'
  BY <1>6, <1>12 DEF ConnectionsExclusive, FreeOnce
<1>14. ThreadsApart' /\ QueuedOnce' /\ PeersDiffer'
  BY <1>1, <1>8, <1>9 DEF ConnectionsExclusive, ThreadsApart, QueuedOnce, PeersDiffer, Connections
<1>15. PlacesApart'
  <2>1. \A i \in 1 .. Len(free') : free'[i] # None
    BY <1>6 DEF Connections, None
  <2>2. \A i \in 1 .. Len(free') :
          /\ free'[i] # accepting
          /\ \A u \in Threads : thread'[u].job.conn # free'[i]
          /\ \A s \in Spectrometers : \A j \in Queued(s) : queue[s][j].conn # free'[i]
    <3>1. TAKE i \in 1 .. Len(free')
    <3>2. CASE i <= Len(free)
      <4>1. i \in 1 .. Len(free) /\ free'[i] = free[i]
        BY <1>6, <3>2
      <4>2. QED
        BY <1>9, <2>1, <4>1 DEF ConnectionsExclusive, PlacesApart
    <3>3. CASE ~(i <= Len(free))
      BY <1>6, <1>12, <3>3
    <3>4. QED
      BY <3>2, <3>3
  <2>3. accepting # None =>
          /\ \A u \in Threads : thread'[u].job.conn # accepting
          /\ \A s \in Spectrometers : \A j \in Queued(s) : queue[s][j].conn # accepting
    BY <1>9 DEF ConnectionsExclusive, PlacesApart
  <2>4. \A s \in Spectrometers : \A j \in Queued(s) : queue[s][j].conn # None =>
          \A u \in Threads : thread'[u].job.conn # queue[s][j].conn
    BY <1>9 DEF ConnectionsExclusive, PlacesApart
  <2>5. QED
    BY <1>1, <1>8, <2>2, <2>3, <2>4 DEF PlacesApart
<1>16. OpenInHand'
  <2>1. \A d \in Connections : InHand(d)' <=> InHand(d)
    BY <1>1, <1>8, <1>9 DEF InHand, Connections, None
  <2>2. QED
    BY <1>1, <2>1 DEF ConnectionsExclusive, OpenInHand, Connections
<1>17. OneAcceptChain'
  <2>1. UNCHANGED accepting /\ UNCHANGED fault /\ UNCHANGED stage
    BY DEF PushConnection
  <2>2. CASE t = Io
    <3>1. stage = "serving" /\ fault = "none" /\ thread[Io].job.conn # None
      BY <1>1, <1>3, <2>2
    <3>2. accepting = None
      BY <3>1, Zenon DEF OneAcceptChain
    <3>3. posted' = TRUE
      BY <1>2, <2>2, Zenon
    <3>4. thread'[Io].job.conn = None
      BY <1>9, <2>2
    <3>5. QED
      BY <2>1, <3>2, <3>3, <3>4, Zenon DEF OneAcceptChain
  <2>3. CASE t # Io
    <3>1. thread'[Io] = thread[Io]
      BY <1>9, <2>3
    <3>2. posted \in BOOLEAN
      BY DEF DaemonTypeOK
    <3>3. posted' = posted
      BY <1>2, <2>3, <3>2, Zenon
    <3>4. QED
      BY <2>1, <3>1, <3>3, Zenon DEF OneAcceptChain
  <2>4. QED
    BY <2>2, <2>3
<1>18. QED
  BY <1>7, <1>10, <1>11, <1>13, <1>14, <1>15, <1>16, <1>17 DEF ConnectionsExclusive

-----------------------------------------------------------------------------
(* The queues of the workers.                                              *)

Enqueued(s, job) == queue' = [queue EXCEPT ![s] = Append(queue[s], job)]

\* A job joins the queue of worker s, and leaves the thread it came from.
LEMMA Enqueues ==
  ASSUME IInv, NEW s \in Spectrometers, NEW job \in Job, NEW a, NEW j \in Job, Goes(Io, a, j),
         Len(queue[s]) < QueueSize, Enqueued(s, job),
         JobOK(job), job.conn = thread[Io].job.conn, j.conn = None,
         thread[Io].at # "pushing",
         UNCHANGED <<peer, free, accepting, stage>>
  PROVE  /\ Apart' /\ Made' /\ OpenInHand' /\ PeersDiffer' /\ QueueJobs'
         /\ queue' \in [Spectrometers -> Seq(Job)]
         /\ \A r \in Spectrometers : Len(queue'[r]) <= QueueSize
<1> USE DEF IInv
<1> USE IoApart, CountsNat
<1>1. /\ queue \in [Spectrometers -> Seq(Job)] /\ queue' \in [Spectrometers -> Seq(Job)]
      /\ \A r \in Spectrometers : r # s => queue'[r] = queue[r]
      /\ queue'[s] = Append(queue[s], job)
  BY DEF DaemonTypeOK, Enqueued
<1>2. /\ Len(queue[s]) \in Nat /\ Len(queue'[s]) = Len(queue[s]) + 1
      /\ \A i \in 1 .. Len(queue[s]) + 1 :
           queue'[s][i] = IF i <= Len(queue[s]) THEN queue[s][i] ELSE job
  BY <1>1, AppendFacts
<1>q. \A r \in Spectrometers : r # s => queue'[r] = queue[r] /\ Queued(r)' = Queued(r)
  BY <1>1 DEF Queued
<1>s. /\ Queued(s)' = Queued(s) \cup {Len(queue[s]) + 1} /\ Len(queue[s]) + 1 \notin Queued(s)
      /\ \A i \in Queued(s) : queue'[s][i] = queue[s][i]
      /\ queue'[s][Len(queue[s]) + 1] = job
  <2>1. PICK n \in Nat : n = Len(queue[s])
    BY <1>2
  <2>2. Queued(s) = 1 .. n
    BY <2>1 DEF Queued
  <2>3. Queued(s)' = 1 .. (n + 1)
    BY <1>2, <2>1 DEF Queued
  <2>4. 1 .. (n + 1) = (1 .. n) \cup {n + 1} /\ n + 1 \notin 1 .. n
    OBVIOUS
  <2>5. \A i \in 1 .. n : i \in 1 .. n + 1 /\ i <= n
    OBVIOUS
  <2>6. /\ \A i \in 1 .. n : queue'[s][i] = queue[s][i]
        /\ queue'[s][n + 1] = job
    BY <1>2, <2>1, <2>5
  <2>7. QED
    BY <2>1, <2>2, <2>3, <2>4, <2>6
<1>3. \A r \in Spectrometers : Len(queue'[r]) <= QueueSize
  <2>1. Len(queue'[s]) <= QueueSize
    BY <1>2
  <2>2. \A r \in Spectrometers : Len(queue[r]) <= QueueSize
    BY DEF DaemonTypeOK
  <2>3. QED
    BY <1>q, <2>1, <2>2
<1>4. \A r \in Spectrometers : \A i \in Queued(r)' :
        \/ i \in Queued(r) /\ queue'[r][i] = queue[r][i]
        \/ r = s /\ i = Len(queue[s]) + 1 /\ queue'[r][i] = job
  BY <1>q, <1>s
<1>5. /\ \A r \in Spectrometers : \A i \in Queued(r) : i \in Queued(r)' /\ queue'[r][i] = queue[r][i]
      /\ Len(queue[s]) + 1 \in Queued(s)' /\ queue'[s][Len(queue[s]) + 1] = job
  BY <1>q, <1>s
<1>6. /\ thread'[Io].job.conn = None /\ thread'[Io].at = a
      /\ \A u \in Threads : u # Io => thread'[u] = thread[u]
      /\ \A u \in Threads : thread'[u].job.conn = thread[u].job.conn \/ thread'[u].job.conn = None
  BY GoesFacts
<1>7. QueueJobs'
  BY <1>4 DEF Control, QueueJobs
<1>8. Made'
  <2>1. job.conn <= Len(peer)
    BY DEF Control, Made
  <2>2. QED
    BY <1>4, <1>6, <2>1, JobTypes DEF Control, Made, None
<1>9. FreeOnce' /\ ThreadsApart' /\ PeersDiffer'
  BY <1>6 DEF ConnectionsExclusive, FreeOnce, ThreadsApart, PeersDiffer, Connections
<1>10. job.conn # None =>
         /\ \A u \in Threads : thread'[u].job.conn # job.conn
         /\ \A r \in Spectrometers : \A i \in Queued(r) : queue[r][i].conn # job.conn
         /\ accepting # job.conn /\ \A i \in 1 .. Len(free) : free[i] # job.conn
  <2>1. SUFFICES ASSUME job.conn # None
                 PROVE  /\ \A u \in Threads : thread'[u].job.conn # job.conn
                        /\ \A r \in Spectrometers : \A i \in Queued(r) : queue[r][i].conn # job.conn
                        /\ accepting # job.conn /\ \A i \in 1 .. Len(free) : free[i] # job.conn
    OBVIOUS
  <2>2. \A u \in Threads : u # Io => thread[u].job.conn # job.conn
    BY <2>1 DEF ConnectionsExclusive, ThreadsApart
  <2>3. \A u \in Threads : thread'[u].job.conn # job.conn
    BY <1>6, <2>1, <2>2
  <2>4. \A r \in Spectrometers : \A i \in Queued(r) : queue[r][i].conn # job.conn
    BY <2>1 DEF ConnectionsExclusive, PlacesApart
  <2>5. accepting # job.conn /\ \A i \in 1 .. Len(free) : free[i] # job.conn
    BY <2>1 DEF ConnectionsExclusive, PlacesApart
  <2>6. QED
    BY <2>3, <2>4, <2>5
<1>11. QueuedOnce'
  <2>1. SUFFICES ASSUME NEW q \in Spectrometers, NEW r \in Spectrometers,
                        NEW i \in Queued(q)', NEW k \in Queued(r)',
                        queue'[q][i].conn = queue'[r][k].conn, queue'[q][i].conn # None
                 PROVE  q = r /\ i = k
    BY DEF QueuedOnce
  <2>2. CASE i \in Queued(q) /\ queue'[q][i] = queue[q][i] /\ k \in Queued(r) /\ queue'[r][k] = queue[r][k]
    BY <2>1, <2>2 DEF ConnectionsExclusive, QueuedOnce
  <2>3. CASE q = s /\ i = Len(queue[s]) + 1 /\ queue'[q][i] = job
    <3>1. job.conn # None /\ queue'[r][k].conn = job.conn
      BY <2>1, <2>3
    <3>2. ~(k \in Queued(r) /\ queue'[r][k] = queue[r][k])
      BY <1>10, <3>1
    <3>3. r = s /\ k = Len(queue[s]) + 1
      BY <1>4, <3>2
    <3>4. QED
      BY <2>3, <3>3
  <2>4. CASE r = s /\ k = Len(queue[s]) + 1 /\ queue'[r][k] = job
    <3>1. job.conn # None /\ queue'[q][i].conn = job.conn
      BY <2>1, <2>4
    <3>2. ~(i \in Queued(q) /\ queue'[q][i] = queue[q][i])
      BY <1>10, <3>1
    <3>3. q = s /\ i = Len(queue[s]) + 1
      BY <1>4, <3>2
    <3>4. QED
      BY <2>4, <3>3
  <2>5. QED
    BY <1>4, <2>2, <2>3, <2>4
<1>12. PlacesApart'
  <2>1. \A i \in 1 .. Len(free) : free[i] # None
    BY DEF DaemonTypeOK, Connections, None
  <2>2. \A i \in 1 .. Len(free) :
          /\ free[i] # accepting
          /\ \A u \in Threads : thread'[u].job.conn # free[i]
    BY <1>6, <2>1 DEF ConnectionsExclusive, PlacesApart
  <2>3. \A i \in 1 .. Len(free) : \A r \in Spectrometers : \A k \in Queued(r)' : queue'[r][k].conn # free[i]
    BY <1>4, <1>10, <2>1 DEF ConnectionsExclusive, PlacesApart
  <2>4. accepting # None =>
          /\ \A u \in Threads : thread'[u].job.conn # accepting
          /\ \A r \in Spectrometers : \A k \in Queued(r)' : queue'[r][k].conn # accepting
    BY <1>4, <1>6, <1>10 DEF ConnectionsExclusive, PlacesApart
  <2>5. \A r \in Spectrometers : \A k \in Queued(r)' : queue'[r][k].conn # None =>
          \A u \in Threads : thread'[u].job.conn # queue'[r][k].conn
    BY <1>4, <1>6, <1>10 DEF ConnectionsExclusive, PlacesApart
  <2>6. QED
    BY <2>2, <2>3, <2>4, <2>5 DEF PlacesApart
<1>13. OpenInHand'
  <2>1. \A d \in Connections : InHand(d) => InHand(d)'
    <3>1. TAKE d \in Connections
    <3>2. ASSUME NEW u \in Threads, thread[u].job.conn = d, thread[u].at # "pushing" PROVE InHand(d)'
      <4>1. CASE u = Io
        BY <1>5, <3>2, <4>1 DEF InHand
      <4>2. CASE u # Io
        BY <1>6, <3>2, <4>2 DEF InHand
      <4>3. QED
        BY <4>1, <4>2
    <3>3. ASSUME NEW r \in Spectrometers, NEW i \in Queued(r), queue[r][i].conn = d PROVE InHand(d)'
      BY <1>5, <3>3 DEF InHand
    <3>4. QED
      BY <3>2, <3>3 DEF InHand
  <2>2. \A d \in Connections : InHand(d)' => InHand(d)
    <3>1. TAKE d \in Connections
    <3>2. d # None
      BY DEF Connections, None
    <3>3. ASSUME NEW u \in Threads, thread'[u].job.conn = d, thread'[u].at # "pushing" PROVE InHand(d)
      BY <1>6, <3>2, <3>3 DEF InHand
    <3>4. ASSUME NEW r \in Spectrometers, NEW i \in Queued(r)', queue'[r][i].conn = d PROVE InHand(d)
      BY <1>4, <3>4 DEF InHand
    <3>5. QED
      BY <3>3, <3>4 DEF InHand
  <2>3. QED
    BY <2>1, <2>2 DEF ConnectionsExclusive, OpenInHand, Connections
<1>14. QED
  BY <1>1, <1>3, <1>7, <1>8, <1>9, <1>11, <1>12, <1>13 DEF Apart

LEMMA SubmitInv ==
  ASSUME IInv, Running, Submit
  PROVE  IInv'
<1> USE DEF IInv
<1> USE IoApart
<1>1. PICK job, s :
        /\ job = thread[Io].job /\ s = job.target /\ thread[Io].at = "submit"
        /\ Len(queue[s]) < QueueSize
        /\ Enqueued(s, job)
        /\ Goes(Io, "loop", NoJob)
        /\ UNCHANGED <<client, peer, free, accepting, buffer, stage, joined, spent, fault>>
  BY DEF Submit, Enqueued
<1>2. posted' = (posted \/ thread[Io].job.conn # None)
  BY DEF Submit
<1>3. /\ stage = "serving" /\ fault = "none" /\ joined = {}
      /\ job \in Job /\ JobOK(job) /\ job.kind # "done" /\ s \in Spectrometers
      /\ job.conn = thread[Io].job.conn
  BY <1>1, Serving, JobTypes DEF Control, HandsOK, HandOK
<1>4. /\ Apart' /\ Made' /\ OpenInHand' /\ PeersDiffer' /\ QueueJobs'
      /\ queue' \in [Spectrometers -> Seq(Job)]
      /\ \A r \in Spectrometers : Len(queue'[r]) <= QueueSize
  BY <1>1, <1>3, NoJobType, Enqueues
<1>5. HandOK(Io, [at |-> "loop", job |-> NoJob])
  BY NoJobType DEF HandOK, IoAt
<1>6. /\ HandsOK'
      /\ thread' \in [Threads -> [at : {"loop", "reading", "submit", "execute", "fill", "write",
                                        "close", "pushing", "join", "ended"}, job : Job]]
  BY <1>1, <1>5, NoJobType, GoesType
<1>7. DaemonTypeOK'
  <2>1. posted' \in BOOLEAN
    BY <1>2, Zenon
  <2>2. QED
    BY <1>1, <1>4, <1>6, <2>1 DEF DaemonTypeOK, Connections
<1>8. Control' /\ PeersConnected'
  BY <1>1, <1>4, <1>6 DEF Control, PeersConnected, Connections
<1>9. Ending'
  <2>1. \A r \in Spectrometers : ~Sent(r)
    BY <1>1, <1>3 DEF Sent
  <2>2. \A r \in Spectrometers : /\ thread[r].at # "ended"
                                 /\ ~(thread[r].at = "execute" /\ thread[r].job.kind = "done")
                                 /\ \A i \in Queued(r) : queue[r][i].kind # "done"
    BY <2>1 DEF Ending, DoneLast
  <2>3. \A r \in Spectrometers : thread'[r] = thread[r]
    BY <1>1, GoesFacts
  <2>4. \A r \in Spectrometers : \A i \in Queued(r)' : queue'[r][i].kind # "done"
    <3>1. \A r \in Spectrometers : r # s => queue'[r] = queue[r]
      BY <1>1, <1>3 DEF DaemonTypeOK, Enqueued
    <3>2. queue'[s] = Append(queue[s], job) /\ queue[s] \in Seq(Job)
      BY <1>1, <1>3 DEF DaemonTypeOK, Enqueued
    <3>3. \A i \in Queued(s)' : queue'[s][i].kind # "done"
      BY <1>3, <2>2, <3>2, AppendFacts DEF Queued
    <3>4. QED
      BY <2>2, <3>1, <3>3 DEF Queued
  <2>5. DoneLast'
    BY <1>1, <1>3, <2>2, <2>3, <2>4 DEF DoneLast
  <2>6. StageOK'
    BY <1>1, <1>3, GoesFacts DEF Ending, StageOK
  <2>7. QED
    BY <2>5, <2>6 DEF Ending
<1>10. OneAcceptChain'
  <2>1. UNCHANGED accepting /\ UNCHANGED fault /\ UNCHANGED stage
    BY DEF Submit
  <2>2. thread'[Io].job.conn = None
    BY <1>1, NoJobType, GoesFacts
  <2>3. stage = "serving" /\ fault = "none"
    BY <1>3
  <2>4. QED
    BY <1>2, <2>1, <2>2, <2>3, Zenon DEF OneAcceptChain
<1>11. QED
  BY <1>4, <1>7, <1>8, <1>9, <1>10 DEF ConnectionsExclusive, Apart

LEMMA SendDoneInv ==
  ASSUME IInv, Running, NEW s \in Spectrometers, SendDone(s)
  PROVE  IInv'
<1> USE DEF IInv
<1> USE IoApart
<1>1. PICK job :
        /\ job = [kind |-> "done", target |-> s, conn |-> None]
        /\ stage = "devicesClosed" /\ thread[Io].at = "loop" /\ s \notin joined
        /\ Len(queue[s]) < QueueSize
        /\ Enqueued(s, job)
        /\ Goes(Io, "join", job)
        /\ UNCHANGED <<client, peer, free, accepting, buffer, stage, joined, spent, fault>>
  BY DEF SendDone, Enqueued
<1>2. UNCHANGED posted
  BY DEF SendDone
<1>3. /\ job \in Job /\ JobOK(job) /\ job.conn = None /\ job.kind = "done" /\ job.target = s
      /\ job.conn = thread[Io].job.conn
  BY <1>1 DEF Job, JobOK, None, Control, HandsOK, HandOK
<1>4. /\ Apart' /\ Made' /\ OpenInHand' /\ PeersDiffer' /\ QueueJobs'
      /\ queue' \in [Spectrometers -> Seq(Job)]
      /\ \A r \in Spectrometers : Len(queue'[r]) <= QueueSize
  BY <1>1, <1>3, Enqueues
<1>5. HandOK(Io, [at |-> "join", job |-> job])
  BY <1>3 DEF HandOK, IoAt
<1>6. /\ HandsOK'
      /\ thread' \in [Threads -> [at : {"loop", "reading", "submit", "execute", "fill", "write",
                                        "close", "pushing", "join", "ended"}, job : Job]]
  BY <1>1, <1>3, <1>5, GoesType
<1>7. DaemonTypeOK'
  <2>1. posted' \in BOOLEAN
    BY <1>2, Zenon DEF DaemonTypeOK
  <2>2. QED
    BY <1>1, <1>4, <1>6, <2>1 DEF DaemonTypeOK, Connections
<1>8. Control' /\ PeersConnected'
  BY <1>1, <1>4, <1>6 DEF Control, PeersConnected, Connections
<1>9. Ending'
  <2>1. ~Sent(s) /\ \A r \in Spectrometers : Sent(r) <=> r \in joined
    BY <1>1 DEF Sent
  <2>2. /\ thread[s].at # "ended" /\ ~(thread[s].at = "execute" /\ thread[s].job.kind = "done")
        /\ \A i \in Queued(s) : queue[s][i].kind # "done"
    BY <2>1 DEF Ending, DoneLast
  <2>3. \A r \in Spectrometers : thread'[r] = thread[r]
    BY <1>1, GoesFacts
  <2>4. thread'[Io].at = "join" /\ thread'[Io].job = job
    BY <1>1, GoesFacts
  <2>5. Sent(s)' /\ \A r \in Spectrometers : r \in joined => Sent(r)'
    BY <1>1, <1>3, <2>4 DEF Sent
  <2>6. /\ \A r \in Spectrometers : r # s => queue'[r] = queue[r]
        /\ queue'[s] = Append(queue[s], job) /\ queue[s] \in Seq(Job)
    BY <1>1 DEF DaemonTypeOK, Enqueued
  <2>7. \A i \in Queued(s)' : queue'[s][i].kind = "done" => i = Len(queue'[s])
    BY <1>3, <2>2, <2>6, AppendFacts DEF Queued
  <2>8. ASSUME NEW r \in Spectrometers
        PROVE  /\ \A i \in Queued(r)' : queue'[r][i].kind = "done" => i = Len(queue'[r]) /\ Sent(r)'
               /\ thread'[r].at = "execute" /\ thread'[r].job.kind = "done" => queue'[r] = << >> /\ Sent(r)'
               /\ thread'[r].at = "ended" => queue'[r] = << >> /\ Sent(r)'
               /\ r \in joined' => thread'[r].at = "ended"
    <3>1. CASE r = s
      BY <1>1, <2>2, <2>3, <2>5, <2>7, <3>1
    <3>2. CASE r # s
      <4>1. queue'[r] = queue[r] /\ Queued(r)' = Queued(r)
        BY <2>6, <3>2 DEF Queued
      <4>2. QED
        BY <1>1, <2>1, <2>3, <2>5, <4>1 DEF Ending, DoneLast
    <3>3. QED
      BY <3>1, <3>2
  <2>9. DoneLast'
    BY <2>8 DEF DoneLast
  <2>10. StageOK'
    BY <1>1, <2>4 DEF Ending, StageOK
  <2>11. QED
    BY <2>9, <2>10 DEF Ending
<1>10. OneAcceptChain'
  BY <1>1 DEF OneAcceptChain
<1>11. QED
  BY <1>4, <1>7, <1>8, <1>9, <1>10 DEF ConnectionsExclusive, Apart

Dequeued(s) == queue' = [queue EXCEPT ![s] = Tail(queue[s])]

LEMMA PopInv ==
  ASSUME IInv, Running, NEW s \in Spectrometers, Pop(s)
  PROVE  IInv'
<1> USE DEF IInv
<1> USE IoApart
<1>1. PICK job :
        /\ job = Head(queue[s]) /\ thread[s].at = "loop" /\ queue[s] # << >>
        /\ Dequeued(s) /\ Goes(s, "execute", job)
        /\ UNCHANGED <<client, peer, free, accepting, buffer, stage, joined, spent, fault>>
  BY DEF Pop, Dequeued
<1>2. UNCHANGED posted
  BY DEF Pop
<1>3. /\ queue \in [Spectrometers -> Seq(Job)] /\ queue' \in [Spectrometers -> Seq(Job)]
      /\ \A r \in Spectrometers : r # s => queue'[r] = queue[r]
      /\ queue'[s] = Tail(queue[s])
  BY <1>1, TailFacts DEF DaemonTypeOK, Dequeued
<1>4. /\ job \in Job /\ job = queue[s][1] /\ 1 \in Queued(s)
      /\ Len(queue'[s]) = Len(queue[s]) - 1 /\ Len(queue[s]) \in Nat
      /\ \A i \in Queued(s)' : queue'[s][i] = queue[s][i + 1] /\ i + 1 \in Queued(s) /\ i \in Nat /\ i > 0
  BY <1>1, <1>3, TailFacts DEF Queued
<1>5. /\ \A i \in Queued(s) : i # 1 => i - 1 \in Queued(s)' /\ queue'[s][i - 1] = queue[s][i]
      /\ \A r \in Spectrometers : r # s => Queued(r)' = Queued(r)
  <2>1. \A i \in Queued(s) : i # 1 => i - 1 \in Queued(s)'
    BY <1>4 DEF Queued
  <2>2. \A i \in Queued(s) : i \in Nat /\ (i - 1) + 1 = i
    BY <1>4 DEF Queued
  <2>3. \A i \in Queued(s) : i # 1 => queue'[s][i - 1] = queue[s][i]
    BY <1>4, <2>1, <2>2
  <2>4. QED
    BY <1>3, <2>1, <2>3 DEF Queued
<1>6. /\ thread'[s].job = job /\ thread'[s].at = "execute" /\ thread[s].job.conn = None
      /\ \A u \in Threads : u # s => thread'[u] = thread[u]
  BY <1>1, GoesFacts DEF Control, HandsOK, HandOK
<1>7. JobOK(job) /\ job.conn <= Len(peer)
  BY <1>4 DEF Control, QueueJobs, Made
<1>8. HandOK(s, [at |-> "execute", job |-> job])
  BY <1>7 DEF HandOK, WorkerAt
<1>9. /\ HandsOK'
      /\ thread' \in [Threads -> [at : {"loop", "reading", "submit", "execute", "fill", "write",
                                        "close", "pushing", "join", "ended"}, job : Job]]
  BY <1>1, <1>4, <1>8, GoesType
<1>10. DaemonTypeOK'
  <2>1. posted' \in BOOLEAN
    BY <1>2, Zenon DEF DaemonTypeOK
  <2>2. \A r \in Spectrometers : Len(queue'[r]) <= QueueSize
    <3>1. \A r \in Spectrometers : Len(queue[r]) <= QueueSize
      BY DEF DaemonTypeOK
    <3>2. Len(queue'[s]) <= QueueSize
      BY <1>4, <3>1, CountsNat
    <3>3. QED
      BY <1>3, <3>1, <3>2
  <2>3. QED
    BY <1>1, <1>3, <1>9, <2>1, <2>2 DEF DaemonTypeOK, Connections
\* What is in a queue afterwards was in it before.
<1>11. \A r \in Spectrometers : \A i \in Queued(r)' :
         \E k \in Queued(r) : queue'[r][i] = queue[r][k] /\ (r = s => k = i + 1) /\ (r # s => k = i)
  BY <1>3, <1>4, <1>5
<1>12. Control' /\ PeersConnected'
  <2>1. QueueJobs'
    BY <1>11 DEF Control, QueueJobs
  <2>2. Made'
    BY <1>1, <1>6, <1>7, <1>11 DEF Control, Made
  <2>3. QED
    BY <1>1, <1>9, <2>1, <2>2 DEF Control, PeersConnected, Connections
<1>13. Ending'
  <2>1. thread'[Io] = thread[Io]
    BY <1>6
  <2>2. StageOK'
    BY <1>1, <2>1 DEF Ending, StageOK
  <2>3. \A r \in Spectrometers : Sent(r) => Sent(r)'
    BY <1>1, <2>1 DEF Sent
  <2>4. job.kind = "done" => queue'[s] = << >> /\ Sent(s)'
    <3>1. SUFFICES ASSUME job.kind = "done" PROVE queue'[s] = << >> /\ Sent(s)'
      OBVIOUS
    <3>2. 1 = Len(queue[s]) /\ Sent(s)
      BY <1>4, <3>1 DEF Ending, DoneLast
    <3>3. queue'[s] \in Seq(Job)
      BY <1>3
    <3>4. Len(queue'[s]) = 0
      BY <1>4, <3>2
    <3>5. queue'[s] = << >>
      BY <3>3, <3>4
    <3>6. QED
      BY <2>3, <3>2, <3>5
  <2>5. s \notin joined
    BY <1>1 DEF Ending, DoneLast
  <2>6. \A i \in Queued(s)' : queue'[s][i].kind = "done" => i = Len(queue'[s]) /\ Sent(s)'
    <3>1. TAKE i \in Queued(s)'
    <3>2. HAVE queue'[s][i].kind = "done"
    <3>3. i + 1 = Len(queue[s]) /\ Sent(s)
      BY <1>4, <3>2 DEF Ending, DoneLast
    <3>4. QED
      BY <1>4, <2>3, <3>3
  <2>7. ASSUME NEW r \in Spectrometers
        PROVE  /\ \A i \in Queued(r)' : queue'[r][i].kind = "done" => i = Len(queue'[r]) /\ Sent(r)'
               /\ thread'[r].at = "execute" /\ thread'[r].job.kind = "done" => queue'[r] = << >> /\ Sent(r)'
               /\ thread'[r].at = "ended" => queue'[r] = << >> /\ Sent(r)'
               /\ r \in joined' => thread'[r].at = "ended"
    <3>1. CASE r = s
      BY <1>1, <1>6, <2>4, <2>5, <2>6, <3>1
    <3>2. CASE r # s
      <4>1. queue'[r] = queue[r] /\ Queued(r)' = Queued(r) /\ thread'[r] = thread[r]
        BY <1>3, <1>5, <1>6, <3>2
      <4>2. QED
        BY <1>1, <2>3, <4>1 DEF Ending, DoneLast
    <3>3. QED
      BY <3>1, <3>2
  <2>8. DoneLast'
    BY <2>7 DEF DoneLast
  <2>9. QED
    BY <2>2, <2>8 DEF Ending
<1>14. FreeOnce' /\ PeersDiffer'
  BY <1>1 DEF ConnectionsExclusive, FreeOnce, PeersDiffer, Connections
<1>15. job.conn # None =>
         /\ \A u \in Threads : thread[u].job.conn # job.conn
         /\ \A r \in Spectrometers : \A i \in Queued(r)' : queue'[r][i].conn # job.conn
         /\ accepting # job.conn /\ \A i \in 1 .. Len(free) : free[i] # job.conn
  <2>1. SUFFICES ASSUME job.conn # None
                 PROVE  /\ \A u \in Threads : thread[u].job.conn # job.conn
                        /\ \A r \in Spectrometers : \A i \in Queued(r)' : queue'[r][i].conn # job.conn
                        /\ accepting # job.conn /\ \A i \in 1 .. Len(free) : free[i] # job.conn
    OBVIOUS
  <2>2. /\ \A u \in Threads : thread[u].job.conn # job.conn
        /\ accepting # job.conn /\ \A i \in 1 .. Len(free) : free[i] # job.conn
    BY <1>4, <2>1 DEF ConnectionsExclusive, PlacesApart
  <2>3. ASSUME NEW r \in Spectrometers, NEW i \in Queued(r)' PROVE queue'[r][i].conn # job.conn
    <3>1. PICK k \in Queued(r) : queue'[r][i] = queue[r][k] /\ (r = s => k = i + 1)
      BY <1>11
    <3>2. ~(r = s /\ k = 1)
      BY <1>4, <3>1
    <3>3. QED
      BY <1>4, <2>1, <3>1, <3>2 DEF ConnectionsExclusive, QueuedOnce
  <2>4. QED
    BY <2>2, <2>3
<1>16. ThreadsApart'
  <2>1. SUFFICES ASSUME NEW t \in Threads, NEW u \in Threads, t # u,
                        thread'[t].job.conn = thread'[u].job.conn, thread'[t].job.conn # None
                 PROVE  FALSE
    BY DEF ThreadsApart
  <2>2. CASE t = s
    BY <1>6, <1>15, <2>1, <2>2
  <2>3. CASE u = s
    BY <1>6, <1>15, <2>1, <2>3
  <2>4. CASE t # s /\ u # s
    BY <1>6, <2>1, <2>4 DEF ConnectionsExclusive, ThreadsApart
  <2>5. QED
    BY <2>2, <2>3, <2>4
<1>17. QueuedOnce'
  <2>1. SUFFICES ASSUME NEW q \in Spectrometers, NEW r \in Spectrometers,
                        NEW i \in Queued(q)', NEW j \in Queued(r)',
                        queue'[q][i].conn = queue'[r][j].conn, queue'[q][i].conn # None
                 PROVE  q = r /\ i = j
    BY DEF QueuedOnce
  <2>2. PICK k \in Queued(q) : queue'[q][i] = queue[q][k] /\ (q = s => k = i + 1) /\ (q # s => k = i)
    BY <1>11
  <2>3. PICK l \in Queued(r) : queue'[r][j] = queue[r][l] /\ (r = s => l = j + 1) /\ (r # s => l = j)
    BY <1>11
  <2>4. q = r /\ k = l
    BY <2>1, <2>2, <2>3 DEF ConnectionsExclusive, QueuedOnce
  <2>5. CASE q = s
    BY <1>4, <2>2, <2>3, <2>4, <2>5
  <2>6. CASE q # s
    BY <2>2, <2>3, <2>4, <2>6
  <2>7. QED
    BY <2>5, <2>6
<1>18. PlacesApart'
  <2>1. \A i \in 1 .. Len(free) : free[i] # None
    BY DEF DaemonTypeOK, Connections, None
  <2>2. \A i \in 1 .. Len(free) :
          /\ free[i] # accepting
          /\ \A u \in Threads : thread'[u].job.conn # free[i]
          /\ \A r \in Spectrometers : \A j \in Queued(r)' : queue'[r][j].conn # free[i]
    BY <1>6, <1>11, <1>15, <2>1 DEF ConnectionsExclusive, PlacesApart
  <2>3. accepting # None =>
          /\ \A u \in Threads : thread'[u].job.conn # accepting
          /\ \A r \in Spectrometers : \A j \in Queued(r)' : queue'[r][j].conn # accepting
    BY <1>6, <1>11, <1>15 DEF ConnectionsExclusive, PlacesApart
  <2>4. ASSUME NEW r \in Spectrometers, NEW j \in Queued(r)', queue'[r][j].conn # None, NEW u \in Threads
        PROVE  thread'[u].job.conn # queue'[r][j].conn
    <3>1. CASE u = s
      BY <1>6, <1>15, <2>4, <3>1
    <3>2. CASE u # s
      BY <1>6, <1>11, <2>4, <3>2 DEF ConnectionsExclusive, PlacesApart
    <3>3. QED
      BY <3>1, <3>2
  <2>5. QED
    BY <1>1, <2>2, <2>3, <2>4 DEF PlacesApart
<1>19. OpenInHand'
  <2>1. \A d \in Connections : InHand(d) => InHand(d)'
    <3>1. TAKE d \in Connections
    <3>2. d # None
      BY DEF Connections, None
    <3>3. ASSUME NEW u \in Threads, thread[u].job.conn = d, thread[u].at # "pushing" PROVE InHand(d)'
      BY <1>6, <3>2, <3>3 DEF InHand
    <3>4. ASSUME NEW r \in Spectrometers, NEW i \in Queued(r), queue[r][i].conn = d PROVE InHand(d)'
      <4>1. CASE r = s /\ i = 1
        <5>1. thread'[s].job.conn = d /\ thread'[s].at # "pushing" /\ s \in Threads
          BY <1>4, <1>6, <3>4, <4>1
        <5>2. QED
          BY <5>1 DEF InHand
      <4>2. CASE r = s /\ i # 1
        BY <1>5, <3>4, <4>2 DEF InHand
      <4>3. CASE r # s
        BY <1>3, <1>5, <3>4, <4>3 DEF InHand
      <4>4. QED
        BY <4>1, <4>2, <4>3
    <3>5. QED
      BY <3>3, <3>4 DEF InHand
  <2>2. \A d \in Connections : InHand(d)' => InHand(d)
    <3>1. TAKE d \in Connections
    <3>2. ASSUME NEW u \in Threads, thread'[u].job.conn = d, thread'[u].at # "pushing" PROVE InHand(d)
      BY <1>4, <1>6, <3>2 DEF InHand
    <3>3. ASSUME NEW r \in Spectrometers, NEW i \in Queued(r)', queue'[r][i].conn = d PROVE InHand(d)
      BY <1>11, <3>3 DEF InHand
    <3>4. QED
      BY <3>2, <3>3 DEF InHand
  <2>3. QED
    BY <1>1, <2>1, <2>2 DEF ConnectionsExclusive, OpenInHand, Connections
<1>20. OneAcceptChain'
  BY <1>1, <1>2, KeepsChain
<1>21. QED
  BY <1>10, <1>12, <1>13, <1>14, <1>16, <1>17, <1>18, <1>19, <1>20 DEF ConnectionsExclusive

LEMMA ExecuteInv ==
  ASSUME IInv, Running, NEW s \in Spectrometers, Execute(s)
  PROVE  IInv'
<1> USE DEF IInv
<1> USE IoApart
<1>1. PICK job, j, a :
        /\ job = thread[s].job /\ j = (IF job.conn = None THEN NoJob ELSE job)
        /\ a = AfterExecute(job.kind) /\ thread[s].at = "execute" /\ Goes(s, a, j)
        /\ fault' = "sequence" \/ fault' = fault
        /\ UNCHANGED <<client, peer, free, accepting, buffer, queue, stage, joined, spent>>
  BY DEF Execute
<1>2. UNCHANGED posted
  BY DEF Execute
<1>3. /\ job \in Job /\ JobOK(job) /\ j \in Job /\ j.conn = thread[s].job.conn
      /\ j.conn = None => job.conn = None
  BY <1>1, NoJobType, JobTypes DEF Control, HandsOK, HandOK
<1>4. \/ job.kind \in {"save", "command"} /\ job.conn # None /\ j = job /\ a = "fill"
      \/ job.kind = "entry" /\ job.conn = None /\ j = NoJob /\ a = "loop"
      \/ job.kind = "done" /\ job.conn = None /\ j = NoJob /\ a = "ended"
  BY <1>1, <1>3 DEF JobOK, AfterExecute
<1>5. HandOK(s, [at |-> a, job |-> j])
  BY <1>4, NoJobType DEF HandOK, WorkerAt
<1>6. /\ HandsOK'
      /\ thread' \in [Threads -> [at : {"loop", "reading", "submit", "execute", "fill", "write",
                                        "close", "pushing", "join", "ended"}, job : Job]]
  BY <1>1, <1>3, <1>5, GoesType
<1>7. Apart' /\ Made'
  BY <1>1, <1>3, KeepsApart
<1>8. OpenInHand' /\ PeersDiffer'
  <2>1. a # "pushing" /\ thread[s].at # "pushing"
    BY <1>1, <1>4
  <2>2. QED
    BY <1>1, <1>3, <2>1, KeepsOpen
<1>9. DaemonTypeOK'
  <2>1. posted' \in BOOLEAN
    BY <1>2, Zenon DEF DaemonTypeOK
  <2>2. fault' \in {"none", "list", "sequence", "device", "buffer"}
    BY <1>1 DEF DaemonTypeOK
  <2>3. QED
    BY <1>1, <1>6, <2>1, <2>2 DEF DaemonTypeOK, Connections
<1>10. Control' /\ PeersConnected'
  BY <1>1, <1>6, <1>7 DEF Control, QueueJobs, Queued, PeersConnected, Connections
<1>11. Ending'
  <2>1. /\ thread'[s].at = a /\ thread'[s].job = j
        /\ \A u \in Threads : u # s => thread'[u] = thread[u]
    BY <1>1, GoesFacts
  <2>2. StageOK'
    BY <1>1, <2>1 DEF Ending, StageOK
  <2>3. \A r \in Spectrometers : (Sent(r)' <=> Sent(r)) /\ Queued(r)' = Queued(r)
    BY <1>1, <2>1 DEF Sent, Queued
  <2>4. a = "ended" => queue[s] = << >> /\ Sent(s)
    BY <1>1, <1>4 DEF Ending, DoneLast
  <2>5. s \notin joined
    BY <1>1 DEF Ending, DoneLast
  <2>6. a # "execute"
    BY <1>4
  <2>7. ASSUME NEW r \in Spectrometers
        PROVE  /\ \A i \in Queued(r)' : queue'[r][i].kind = "done" => i = Len(queue'[r]) /\ Sent(r)'
               /\ thread'[r].at = "execute" /\ thread'[r].job.kind = "done" => queue'[r] = << >> /\ Sent(r)'
               /\ thread'[r].at = "ended" => queue'[r] = << >> /\ Sent(r)'
               /\ r \in joined' => thread'[r].at = "ended"
    <3>1. CASE r = s
      BY <1>1, <2>1, <2>3, <2>4, <2>5, <2>6, <3>1 DEF Ending, DoneLast
    <3>2. CASE r # s
      BY <1>1, <2>1, <2>3, <3>2 DEF Ending, DoneLast
    <3>3. QED
      BY <3>1, <3>2
  <2>8. QED
    BY <2>2, <2>7 DEF Ending, DoneLast
<1>12. OneAcceptChain'
  BY <1>1, <1>2, KeepsChain DEF Running
<1>13. QED
  BY <1>7, <1>8, <1>9, <1>10, <1>11, <1>12 DEF ConnectionsExclusive, Apart

-----------------------------------------------------------------------------
(* Taking the daemon down.                                                 *)

\* A step of main that only goes on to the next stage.
LEMMA StageInv ==
  ASSUME IInv, Running, Stop \/ DestroySequences \/ CloseDevices
  PROVE  IInv'
<1> USE DEF IInv
<1>1. /\ UNCHANGED <<client, peer, free, accepting, buffer, thread, queue, joined, spent>>
      /\ fault' = fault \/ fault' = "device"
      /\ stage' \in {"stopped", "sequencesDestroyed", "devicesClosed"}
      /\ stage \in {"serving", "stopped", "sequencesDestroyed"} /\ thread[Io].at \in {"loop", "join"}
  BY DEF Stop, IoLoop, DestroySequences, CloseDevices, Ending, StageOK
<1>2. UNCHANGED posted
  BY DEF Stop, DestroySequences, CloseDevices
<1>3. \A s : Queued(s)' = Queued(s)
  BY <1>1 DEF Queued
<1>4. \A conn : InHand(conn)' <=> InHand(conn)
  BY <1>1, <1>3 DEF InHand
<1>5. DaemonTypeOK'
  <2>1. posted' \in BOOLEAN
    BY <1>2, Zenon DEF DaemonTypeOK
  <2>2. fault' \in {"none", "list", "sequence", "device", "buffer"}
    BY <1>1 DEF DaemonTypeOK
  <2>3. QED
    BY <1>1, <2>1, <2>2 DEF DaemonTypeOK, Connections
<1>6. Control' /\ PeersConnected'
  BY <1>1, <1>3 DEF Control, HandsOK, QueueJobs, Made, PeersConnected, Connections
<1>7. StageOK'
  BY <1>1 DEF Ending, StageOK
<1>8. DoneLast'
  BY <1>1, <1>3 DEF Ending, DoneLast, Sent
<1>9. FreeOnce' /\ ThreadsApart' /\ QueuedOnce' /\ PeersDiffer'
  BY <1>1, <1>3 DEF ConnectionsExclusive, FreeOnce, ThreadsApart, QueuedOnce, PeersDiffer, Connections
<1>10. PlacesApart'
  BY <1>1, <1>3 DEF ConnectionsExclusive, PlacesApart
<1>11. OpenInHand'
  BY <1>1, <1>4 DEF ConnectionsExclusive, OpenInHand, Connections
<1>12. OneAcceptChain'
  BY <1>1 DEF OneAcceptChain
<1>13. QED
  BY <1>5, <1>6, <1>7, <1>8, <1>9, <1>10, <1>11, <1>12 DEF ConnectionsExclusive, Ending

LEMMA JoinInv ==
  ASSUME IInv, Running, Join
  PROVE  IInv'
<1> USE DEF IInv
<1> USE IoApart
<1>1. PICK s :
        /\ s = thread[Io].job.target /\ thread[Io].at = "join" /\ thread[s].at = "ended"
        /\ joined' = joined \cup {s} /\ Goes(Io, "loop", NoJob)
        /\ UNCHANGED <<client, peer, free, accepting, buffer, queue, stage, spent, fault>>
  BY DEF Join
<1>2. UNCHANGED posted
  BY DEF Join
<1>3. /\ stage = "devicesClosed" /\ s \in Spectrometers /\ thread[Io].job.conn = None
      /\ thread[Io].at # "pushing" /\ NoJob.conn = thread[Io].job.conn
  BY <1>1, NoJobType DEF Running, Ending, StageOK, Control, HandsOK, HandOK
<1>4. HandOK(Io, [at |-> "loop", job |-> NoJob])
  BY NoJobType DEF HandOK, IoAt
<1>5. /\ HandsOK'
      /\ thread' \in [Threads -> [at : {"loop", "reading", "submit", "execute", "fill", "write",
                                        "close", "pushing", "join", "ended"}, job : Job]]
  BY <1>1, <1>4, NoJobType, GoesType
<1>6. Apart' /\ Made'
  BY <1>1, <1>3, KeepsApart
<1>7. OpenInHand' /\ PeersDiffer'
  BY <1>1, <1>3, KeepsOpen
<1>8. DaemonTypeOK'
  <2>1. posted' \in BOOLEAN
    BY <1>2, Zenon DEF DaemonTypeOK
  <2>2. joined' \subseteq Spectrometers
    BY <1>1, <1>3 DEF DaemonTypeOK
  <2>3. QED
    BY <1>1, <1>5, <2>1, <2>2 DEF DaemonTypeOK, Connections
<1>9. Control' /\ PeersConnected'
  BY <1>1, <1>5, <1>6 DEF Control, QueueJobs, Queued, PeersConnected, Connections
<1>10. Ending'
  <2>1. /\ thread'[Io].at = "loop" /\ \A u \in Threads : u # Io => thread'[u] = thread[u]
    BY <1>1, GoesFacts
  <2>2. StageOK'
    BY <1>1, <1>3, <2>1 DEF StageOK
  <2>3. \A r \in Spectrometers : Sent(r) => Sent(r)'
    BY <1>1 DEF Sent
  <2>4. \A r \in Spectrometers : Queued(r)' = Queued(r) /\ thread'[r] = thread[r]
    BY <1>1, <2>1 DEF Queued
  <2>5. ASSUME NEW r \in Spectrometers
        PROVE  /\ \A i \in Queued(r)' : queue'[r][i].kind = "done" => i = Len(queue'[r]) /\ Sent(r)'
               /\ thread'[r].at = "execute" /\ thread'[r].job.kind = "done" => queue'[r] = << >> /\ Sent(r)'
               /\ thread'[r].at = "ended" => queue'[r] = << >> /\ Sent(r)'
               /\ r \in joined' => thread'[r].at = "ended"
    BY <1>1, <2>3, <2>4 DEF Ending, DoneLast
  <2>6. QED
    BY <2>2, <2>5 DEF Ending, DoneLast
<1>11. OneAcceptChain'
  BY <1>1, <1>3 DEF OneAcceptChain
<1>12. QED
  BY <1>6, <1>7, <1>8, <1>9, <1>10, <1>11 DEF ConnectionsExclusive, Apart

LEMMA EndInv ==
  ASSUME IInv, Running, End
  PROVE  IInv'
<1> USE DEF IInv
<1> USE IoApart
<1>1. /\ stage = "devicesClosed" /\ thread[Io].at = "loop" /\ joined = Spectrometers
      /\ stage' = "ended" /\ AllClosed
      /\ UNCHANGED <<free, accepting, buffer, thread, queue, joined, spent, fault>>
  BY DEF End
<1>2. posted' \in BOOLEAN
  BY Zenon DEF End, DaemonTypeOK
<1>3. /\ peer' \in Seq(Clients \cup {NoClient}) /\ Len(peer') = Len(peer)
      /\ Connections' = Connections /\ \A conn \in Connections : peer'[conn] = NoClient
  BY <1>1 DEF AllClosed, DaemonTypeOK, Connections
<1>4. client' \in [Clients -> [at : {"idle", "connecting", "connected", "waiting", "answered", "gone"},
                               request : Request \cup {NoRequest}, got : Nat]]
  BY <1>1 DEF AllClosed, Idle, None
<1>5. DaemonTypeOK'
  BY <1>1, <1>2, <1>3, <1>4 DEF DaemonTypeOK
<1>6. \A s : Queued(s)' = Queued(s)
  BY <1>1 DEF Queued
<1>7. Control'
  BY <1>1, <1>3, <1>6 DEF Control, HandsOK, QueueJobs, Made
<1>8. PeersConnected' /\ PeersDiffer'
  BY <1>3 DEF PeersConnected, PeersDiffer
<1>9. Ending'
  BY <1>1, <1>6 DEF Ending, StageOK, DoneLast, Sent
<1>10. FreeOnce' /\ ThreadsApart' /\ QueuedOnce'
  BY <1>1, <1>6 DEF ConnectionsExclusive, FreeOnce, ThreadsApart, QueuedOnce
<1>11. PlacesApart'
  BY <1>1, <1>6 DEF ConnectionsExclusive, PlacesApart
<1>12. OpenInHand'
  <2>1. \A s \in Spectrometers : queue[s] = << >> /\ thread[s].job.conn = None
    BY <1>1 DEF Ending, DoneLast, Control, HandsOK, HandOK
  <2>2. thread[Io].job.conn = None
    BY <1>1 DEF Control, HandsOK, HandOK
  <2>3. \A t \in Threads : t \in Spectrometers \/ t = Io
    BY DEF Threads
  <2>4. \A conn \in Connections : ~InHand(conn)
    BY <2>1, <2>2, <2>3 DEF InHand, Queued, Connections, None
  <2>5. \A conn : InHand(conn)' <=> InHand(conn)
    BY <1>1, <1>6 DEF InHand
  <2>6. QED
    BY <1>3, <2>4, <2>5 DEF OpenInHand
<1>13. OneAcceptChain'
  BY <1>1 DEF OneAcceptChain
<1>14. QED
  BY <1>5, <1>7, <1>8, <1>9, <1>10, <1>11, <1>12, <1>13 DEF ConnectionsExclusive

-----------------------------------------------------------------------------
(* The theorems.                                                           *)

LEMMA StutterInv ==
  ASSUME IInv, UNCHANGED vars
  PROVE  IInv'
<1> USE DEF IInv, vars
<1>1. UNCHANGED posted
  BY DEF vars
<1>2. ClientStep
  BY DEF ClientStep
<1>3. DaemonTypeOK'
  <2>1. posted' \in BOOLEAN
    BY <1>1, Zenon DEF DaemonTypeOK
  <2>2. QED
    BY <2>1 DEF DaemonTypeOK, Connections
<1>4. PeersConnected'
  BY DEF PeersConnected, Connections
<1>5. QED
  BY <1>2, <1>3, <1>4, ClientStepKeeps

LEMMA NextInv == IInv /\ [DaemonNext]_vars => IInv'
<1> SUFFICES ASSUME IInv, [DaemonNext]_vars PROVE IInv'
  OBVIOUS
<1> USE IoApart
<1>1. CASE UNCHANGED vars
  BY <1>1, StutterInv
<1>2. ASSUME Running, Serve PROVE IInv'
  BY <1>2, QueueAcceptInv, AcceptInv, GetRequestInv, ReadFailsInv, SubmitInv DEF Serve
<1>3. ASSUME Running, NEW t \in Threads, Notify(t) PROVE IInv'
  BY <1>3, FillInv, WriteInv, WriteFailsInv, CloseInv, PushInv DEF Notify
<1>4. ASSUME Running, TakeDown PROVE IInv'
  BY <1>4, StageInv, SendDoneInv, JoinInv, EndInv DEF TakeDown
<1>5. ASSUME Running, NEW s \in Spectrometers, TimerFires(s) \/ Worker(s) PROVE IInv'
  BY <1>3, <1>5, TimerFiresInv, PopInv, ExecuteInv DEF Worker
<1>6. ASSUME Running, Stop \/ AcceptError PROVE IInv'
  BY <1>6, StageInv, AcceptErrorInv
<1>7. ASSUME NEW c \in Clients, Connect(c) \/ Talk(c) PROVE IInv'
  BY <1>7, TalkInv
<1>8. QED
  BY <1>1, <1>2, <1>3, <1>4, <1>5, <1>6, <1>7 DEF DaemonNext, IoThread

LEMMA Inductive == DaemonSpec => []IInv
<1>1. DaemonInit => IInv
  BY InitInv
<1>2. IInv /\ [DaemonNext]_vars => IInv'
  BY NextInv
<1>3. QED
  BY <1>1, <1>2, PTL DEF DaemonSpec

\* Every variable keeps its type: connections are only ever given out that
\* exist, and no queue exceeds its capacity.
THEOREM DaemonTypeCorrect == DaemonSpec => []DaemonTypeOK
<1>1. IInv => DaemonTypeOK
  BY DEF IInv
<1>2. QED
  BY <1>1, Inductive, PTL

\* A connection is in one place at a time, and an open one with the thread or
\* the job that will close it, for any number of clients and workers
\* (BaseConnectionHandler.cpp 44-77, RequestHandler.cpp 48-75).
THEOREM ConnectionsAreExclusive == DaemonSpec => []ConnectionsExclusive
<1>1. IInv => ConnectionsExclusive
  BY DEF IInv
<1>2. QED
  BY <1>1, Inductive, PTL

\* While the daemon serves exactly one accept is pending, posted or due
\* (RequestHandler.cpp 126-138).
THEOREM AcceptsAreChained == DaemonSpec => []OneAcceptChain
<1>1. IInv => OneAcceptChain
  BY DEF IInv
<1>2. QED
  BY <1>1, Inductive, PTL

\* When the daemon has ended every job was executed and every worker is gone
\* (OceanHandler.cpp, ActiveObject.cpp 78-86).
THEOREM EndIsDrained == DaemonSpec => []EndedDrained
<1>1. IInv => EndedDrained
  BY DEF IInv, Ending, StageOK, DoneLast, EndedDrained
<1>2. QED
  BY <1>1, Inductive, PTL

-----------------------------------------------------------------------------
(* The connections that nothing holds.                                     *)

\* What a step of a thread may do with its connection, when the daemon serves
\* before and after it.
ServesOn == IInv /\ Running /\ stage = "serving" /\ stage' = "serving" /\ fault' = "none"

\* The same connections are held, and no socket is made.
LEMMA SameLost ==
  ASSUME Len(peer') = Len(peer), \A conn \in Connections : Held(conn)' <=> Held(conn)
  PROVE  Lost' = Lost
  BY DEF Lost, Connections

LEMMA KeepsHeld ==
  ASSUME IInv, NEW t \in Threads, NEW a, NEW j, Goes(t, a, j), j.conn = thread[t].job.conn,
         UNCHANGED <<accepting, free, queue>>, Len(peer') = Len(peer)
  PROVE  Lost' = Lost
<1>1. \A u \in Threads : thread'[u].job.conn = thread[u].job.conn
  BY GoesFacts DEF IInv
<1>2. \A s : Queued(s)' = Queued(s)
  BY DEF Queued
<1>3. \A conn \in Connections : Held(conn)' <=> Held(conn)
  BY <1>1, <1>2 DEF Held
<1>4. QED
  BY <1>3, SameLost

LEMMA AcceptKeepsHeld ==
  ASSUME ServesOn, NEW c \in Clients, AcceptConnection(c)
  PROVE  Lost' = Lost
<1>t. DaemonTypeOK /\ OneAcceptChain /\ stage = "serving" /\ fault = "none"
  BY DEF ServesOn, IInv, Running
<1>1. PICK j : /\ j.conn = accepting /\ Goes(Io, "reading", j)
               /\ accepting # None /\ accepting' = None /\ UNCHANGED <<free, queue>>
  BY DEF AcceptConnection, NoJob
<1>2. thread[Io].job.conn = None
  BY <1>1, <1>t DEF OneAcceptChain
<1>3. Len(peer') = Len(peer)
  BY <1>t DEF AcceptConnection, DaemonTypeOK
<1>4. /\ thread'[Io].job.conn = accepting
      /\ \A u \in Threads : u # Io => thread'[u] = thread[u]
  BY <1>1, <1>t, IoApart, GoesFacts
<1>5. \A s : Queued(s)' = Queued(s)
  BY <1>1 DEF Queued
<1>6. ASSUME NEW conn \in Connections PROVE Held(conn)' <=> Held(conn)
  <2>1. conn # None
    BY DEF Connections, None
  <2>2. (\E u \in Threads : thread'[u].job.conn = conn)
          <=> accepting = conn \/ \E u \in Threads : thread[u].job.conn = conn
    BY <1>2, <1>4, <2>1, IoApart
  <2>3. QED
    BY <1>1, <1>5, <2>1, <2>2 DEF Held
<1>7. QED
  BY <1>3, <1>6, SameLost

LEMMA SubmitKeepsHeld ==
  ASSUME ServesOn, Submit
  PROVE  Lost' = Lost
<1> USE DEF IInv, ServesOn
<1> USE IoApart
<1>1. PICK job :
        /\ job = thread[Io].job /\ queue' = [queue EXCEPT ![job.target] = Append(queue[job.target], job)]
        /\ Goes(Io, "loop", NoJob) /\ job.target \in Spectrometers /\ job \in Job
        /\ UNCHANGED <<peer, free, accepting>>
  BY JobTypes DEF Submit, Control, HandsOK, HandOK
<1>2. PICK s \in Spectrometers : s = job.target
  BY <1>1
<1>3. /\ thread'[Io].job.conn = None
      /\ \A u \in Threads : u # Io => thread'[u] = thread[u]
  BY <1>1, NoJobType, GoesFacts
<1>4. /\ \A r \in Spectrometers : r # s => queue'[r] = queue[r] /\ Queued(r)' = Queued(r)
      /\ queue'[s] = Append(queue[s], job) /\ queue[s] \in Seq(Job)
  BY <1>1, <1>2 DEF DaemonTypeOK, Queued
<1>5. ASSUME NEW conn
      PROVE  (\E i \in Queued(s)' : queue'[s][i].conn = conn)
               <=> job.conn = conn \/ \E i \in Queued(s) : queue[s][i].conn = conn
  <2>1. /\ Len(queue[s]) \in Nat /\ Len(queue'[s]) = Len(queue[s]) + 1
        /\ \A i \in 1 .. Len(queue[s]) + 1 :
             queue'[s][i] = IF i <= Len(queue[s]) THEN queue[s][i] ELSE job
    <3>1. queue[s] \in Seq(Job) /\ job \in Job /\ queue'[s] = Append(queue[s], job)
      BY <1>1, <1>4
    <3>2. QED
      BY <3>1, AppendFacts
  <2>2. /\ \A i \in Queued(s) : i \in Queued(s)' /\ queue'[s][i] = queue[s][i]
        /\ \A i \in Queued(s)' : i \in Queued(s) \/ queue'[s][i] = job
        /\ Len(queue[s]) + 1 \in Queued(s)' /\ queue'[s][Len(queue[s]) + 1] = job
    BY <2>1 DEF Queued
  <2>3. QED
    BY <2>2
<1>6. ASSUME NEW conn \in Connections PROVE Held(conn)' <=> Held(conn)
  <2>1. conn # None
    BY DEF Connections, None
  <2>2. (\E u \in Threads : thread[u].job.conn = conn)
          <=> job.conn = conn \/ \E u \in Threads : thread'[u].job.conn = conn
    BY <1>1, <1>3, <2>1
  <2>3. (\E r \in Spectrometers : \E i \in Queued(r)' : queue'[r][i].conn = conn)
          <=> \/ job.conn = conn
              \/ \E r \in Spectrometers : \E i \in Queued(r) : queue[r][i].conn = conn
    <3>1. ASSUME NEW r \in Spectrometers, NEW i \in Queued(r)', queue'[r][i].conn = conn
          PROVE  job.conn = conn \/ \E q \in Spectrometers : \E k \in Queued(q) : queue[q][k].conn = conn
      <4>1. CASE r = s
        BY <1>5, <3>1, <4>1
      <4>2. CASE r # s
        BY <1>4, <3>1, <4>2
      <4>3. QED
        BY <4>1, <4>2
    <3>2. ASSUME NEW r \in Spectrometers, NEW i \in Queued(r), queue[r][i].conn = conn
          PROVE  \E q \in Spectrometers : \E k \in Queued(q)' : queue'[q][k].conn = conn
      <4>1. CASE r = s
        BY <1>5, <3>2, <4>1
      <4>2. CASE r # s
        BY <1>4, <3>2, <4>2
      <4>3. QED
        BY <4>1, <4>2
    <3>3. job.conn = conn => \E i \in Queued(s)' : queue'[s][i].conn = conn
      BY <1>5
    <3>4. QED
      BY <3>1, <3>2, <3>3
  <2>4. QED
    BY <1>1, <2>2, <2>3 DEF Held
<1>7. QED
  BY <1>1, <1>6, SameLost

LEMMA PushKeepsHeld ==
  ASSUME ServesOn, NEW t \in Threads, PushConnection(t)
  PROVE  Lost' = Lost
<1> USE DEF IInv, ServesOn
<1> USE IoApart
<1>1. PICK d : /\ d = thread[t].job.conn /\ free' = Append(free, d) /\ d \in Nat
               /\ Goes(t, "loop", NoJob) /\ UNCHANGED <<peer, accepting, queue>>
  BY JobTypes DEF PushConnection
<1>2. /\ thread'[t].job.conn = None
      /\ \A u \in Threads : u # t => thread'[u] = thread[u]
  BY <1>1, NoJobType, GoesFacts
<1>3. \A s : Queued(s)' = Queued(s)
  BY <1>1 DEF Queued
<1>4. free \in Seq(Nat)
  BY DEF DaemonTypeOK, Connections
<1>5. ASSUME NEW conn
      PROVE  (\E i \in 1 .. Len(free') : free'[i] = conn)
               <=> d = conn \/ \E i \in 1 .. Len(free) : free[i] = conn
  BY <1>1, <1>4, AppendFacts
<1>6. ASSUME NEW conn \in Connections PROVE Held(conn)' <=> Held(conn)
  <2>1. conn # None
    BY DEF Connections, None
  <2>2. (\E u \in Threads : thread[u].job.conn = conn)
          <=> d = conn \/ \E u \in Threads : thread'[u].job.conn = conn
    BY <1>1, <1>2, <2>1
  <2>3. QED
    BY <1>1, <1>3, <1>5, <2>2 DEF Held
<1>7. QED
  BY <1>1, <1>6, SameLost

LEMMA PopKeepsHeld ==
  ASSUME ServesOn, NEW s \in Spectrometers, Pop(s)
  PROVE  Lost' = Lost
<1> USE DEF IInv, ServesOn
<1> USE IoApart
<1>1. /\ queue[s] # << >> /\ queue' = [queue EXCEPT ![s] = Tail(queue[s])]
      /\ Goes(s, "execute", Head(queue[s])) /\ UNCHANGED <<peer, free, accepting>>
  BY DEF Pop
<1>2. thread[s].job.conn = None /\ s \in Threads
  BY DEF Pop, Control, HandsOK, HandOK
<1>3. /\ thread'[s].job = queue[s][1]
      /\ \A u \in Threads : u # s => thread'[u] = thread[u]
      /\ queue[s] \in Seq(Job)
  BY <1>1, <1>2, GoesFacts, TailFacts DEF DaemonTypeOK
<1>4. /\ \A r \in Spectrometers : r # s => queue'[r] = queue[r] /\ Queued(r)' = Queued(r)
      /\ queue'[s] = Tail(queue[s])
  BY <1>1 DEF DaemonTypeOK, Queued
<1>5. ASSUME NEW conn
      PROVE  (\E i \in Queued(s) : queue[s][i].conn = conn)
               <=> queue[s][1].conn = conn \/ \E i \in Queued(s)' : queue'[s][i].conn = conn
  <2>1. /\ Len(queue[s]) \in Nat /\ Len(queue[s]) > 0 /\ Len(queue'[s]) = Len(queue[s]) - 1
        /\ \A i \in 1 .. Len(queue'[s]) : queue'[s][i] = queue[s][i + 1]
    <3>1. /\ Len(queue[s]) > 0 /\ Len(Tail(queue[s])) = Len(queue[s]) - 1
          /\ \A i \in 1 .. Len(Tail(queue[s])) : Tail(queue[s])[i] = queue[s][i + 1]
      BY <1>1, <1>3, TailFacts
    <3>2. QED
      BY <1>3, <1>4, <3>1
  <2>2. \A i \in Queued(s) : i = 1 \/ (i - 1 \in Queued(s)' /\ queue'[s][i - 1] = queue[s][i])
    BY <2>1 DEF Queued
  <2>3. \A i \in Queued(s)' : i + 1 \in Queued(s) /\ queue'[s][i] = queue[s][i + 1]
    BY <2>1 DEF Queued
  <2>4. 1 \in Queued(s)
    BY <2>1 DEF Queued
  <2>5. QED
    BY <2>2, <2>3, <2>4
<1>6. ASSUME NEW conn \in Connections PROVE Held(conn)' <=> Held(conn)
  <2>1. conn # None
    BY DEF Connections, None
  <2>2. (\E u \in Threads : thread'[u].job.conn = conn)
          <=> queue[s][1].conn = conn \/ \E u \in Threads : thread[u].job.conn = conn
    BY <1>2, <1>3, <2>1
  <2>3. (\E r \in Spectrometers : \E i \in Queued(r) : queue[r][i].conn = conn)
          <=> \/ queue[s][1].conn = conn
              \/ \E r \in Spectrometers : \E i \in Queued(r)' : queue'[r][i].conn = conn
    <3>1. ASSUME NEW r \in Spectrometers, NEW i \in Queued(r), queue[r][i].conn = conn
          PROVE  \/ queue[s][1].conn = conn
                 \/ \E q \in Spectrometers : \E k \in Queued(q)' : queue'[q][k].conn = conn
      <4>1. CASE r = s
        BY <1>5, <3>1, <4>1
      <4>2. CASE r # s
        BY <1>4, <3>1, <4>2
      <4>3. QED
        BY <4>1, <4>2
    <3>2. ASSUME NEW r \in Spectrometers, NEW i \in Queued(r)', queue'[r][i].conn = conn
          PROVE  \E q \in Spectrometers : \E k \in Queued(q) : queue[q][k].conn = conn
      <4>1. CASE r = s
        BY <1>5, <3>2, <4>1
      <4>2. CASE r # s
        BY <1>4, <3>2, <4>2
      <4>3. QED
        BY <4>1, <4>2
    <3>3. queue[s][1].conn = conn => \E i \in Queued(s) : queue[s][i].conn = conn
      BY <1>5
    <3>4. QED
      BY <3>1, <3>2, <3>3
  <2>4. QED
    BY <1>1, <2>2, <2>3 DEF Held
<1>7. QED
  BY <1>1, <1>6, SameLost

\* A connection that is made, or taken from the list, is that of the accept.
LEMMA QueueAcceptKeepsHeld ==
  ASSUME ServesOn, QueueAcceptConnection
  PROVE  Lost' = Lost
<1> USE DEF IInv, ServesOn
<1>1. UNCHANGED <<thread, queue>> /\ accepting = None
  BY DEF QueueAcceptConnection, IoLoop, Running, OneAcceptChain
<1>2. \A s : Queued(s)' = Queued(s)
  BY <1>1 DEF Queued
<1>3. \A conn \in Connections : conn # None
  BY DEF Connections, None
<1>4. CASE free = << >> /\ peer' = Append(peer, NoClient) /\ accepting' = Len(peer) + 1 /\ UNCHANGED free
  <2>1. Len(peer) \in Nat /\ Len(peer') = Len(peer) + 1
    BY <1>4 DEF DaemonTypeOK
  <2>2. Connections' = Connections \cup {accepting'} /\ accepting' \notin Connections
    BY <1>4, <2>1 DEF Connections
  <2>3. \A conn \in Connections : Held(conn)' <=> Held(conn)
    BY <1>1, <1>2, <1>3, <1>4, <2>2 DEF Held
  <2>4. Held(accepting)'
    BY DEF Held
  <2>5. QED
    BY <2>2, <2>3, <2>4 DEF Lost
<1>5. CASE free # << >> /\ accepting' = Head(free) /\ free' = Tail(free) /\ UNCHANGED peer
  <2>1. /\ Len(free) \in Nat /\ Len(free) > 0 /\ Len(free') = Len(free) - 1 /\ Head(free) = free[1]
        /\ \A i \in 1 .. Len(free') : free'[i] = free[i + 1]
    BY <1>5, TailFacts DEF DaemonTypeOK
  <2>2. \A i \in 1 .. Len(free) : i = 1 \/ (i - 1 \in 1 .. Len(free') /\ free'[i - 1] = free[i])
    BY <2>1
  <2>3. \A i \in 1 .. Len(free') : i + 1 \in 1 .. Len(free) /\ free'[i] = free[i + 1]
    BY <2>1
  <2>4. 1 \in 1 .. Len(free)
    BY <2>1
  <2>5. ASSUME NEW conn \in Connections
        PROVE  (\E i \in 1 .. Len(free) : free[i] = conn)
                 <=> accepting' = conn \/ \E i \in 1 .. Len(free') : free'[i] = conn
    <3>1. accepting' = free[1]
      BY <1>5, <2>1
    <3>2. QED
      BY <2>2, <2>3, <2>4, <3>1
  <2>6. \A conn \in Connections : Held(conn)' <=> Held(conn)
    BY <1>1, <1>2, <1>3, <2>5 DEF Held
  <2>7. QED
    BY <1>5, <2>6, SameLost
<1>6. QED
  BY <1>4, <1>5, Zenon DEF QueueAcceptConnection

\* A failed accept drops the connection it had, which nothing else holds.
LEMMA AcceptErrorLoses ==
  ASSUME ServesOn, AcceptError
  PROVE  /\ accepting \in Connections \ Lost /\ Lost' = Lost \cup {accepting}
         /\ spent'.errors = spent.errors + 1
<1> USE DEF IInv, ServesOn
<1>1. /\ accepting # None /\ accepting' = None /\ UNCHANGED <<peer, free, thread, queue>>
      /\ spent' = [spent EXCEPT !.errors = spent.errors + 1]
  BY DEF AcceptError
<1>2. spent'.errors = spent.errors + 1
  BY <1>1, SpentType
<1>3. accepting \in Connections /\ Held(accepting)
  BY <1>1 DEF DaemonTypeOK, Held
<1>4. \A s : Queued(s)' = Queued(s)
  BY <1>1 DEF Queued
<1>5. \A conn \in Connections : conn # None
  BY DEF Connections, None
<1>6. \A conn \in Connections : conn # accepting => (Held(conn)' <=> Held(conn))
  BY <1>1, <1>4, <1>5 DEF Held
<1>7. ASSUME NEW conn \in Connections, conn = accepting PROVE ~Held(conn)'
  <2>1. accepting' # conn
    BY <1>1, <1>5
  <2>2. /\ \A u \in Threads : thread'[u].job.conn # conn
        /\ \A s \in Spectrometers : \A i \in Queued(s)' : queue'[s][i].conn # conn
        /\ \A i \in 1 .. Len(free') : free'[i] # conn
    BY <1>1, <1>4, <1>7 DEF ConnectionsExclusive, PlacesApart
  <2>3. QED
    BY <2>1, <2>2 DEF Held
<1>8. Connections' = Connections
  BY <1>1 DEF Connections
<1>9. QED
  BY <1>2, <1>3, <1>6, <1>7, <1>8 DEF Lost

\* Every other step keeps what is held, and what was lost.
LEMMA LosesOnlyByError ==
  ASSUME ServesOn, DaemonNext
  PROVE  \/ Lost' = Lost /\ spent'.errors = spent.errors
         \/ \E conn \in Connections \ Lost :
              Lost' = Lost \cup {conn} /\ spent'.errors = spent.errors + 1
<1> USE IoApart
<1>t. DaemonTypeOK /\ Control
  BY DEF ServesOn, IInv
<1>s. /\ spent \in [requests : Nat, errors : Nat, entries : Nat]
      /\ Len(peer) \in Nat
  BY <1>t, SpentType, JobTypes
<1>1. ASSUME Serve PROVE Lost' = Lost /\ spent' = spent
  <2>1. CASE QueueAcceptConnection
    BY <2>1, QueueAcceptKeepsHeld DEF QueueAcceptConnection
  <2>2. CASE GetRequest
    <3>1. PICK a, j : /\ Goes(Io, a, j) /\ j.conn = thread[Io].job.conn
                      /\ UNCHANGED <<accepting, free, queue, peer, spent>>
      <4>1. PICK c, r :
              /\ c = thread[Io].job.conn
              /\ Goes(Io, HandleRequest(r), [kind |-> r.kind, target |-> r.target, conn |-> c])
              /\ UNCHANGED <<accepting, free, queue, peer, spent>>
        BY <2>2 DEF GetRequest
      <4>2. QED
        BY <4>1
    <3>2. QED
      BY <1>s, <3>1, KeepsHeld DEF ServesOn
  <2>3. CASE ReadFails
    BY <2>3 DEF ReadFails, ServesOn
  <2>4. CASE Submit
    BY <2>4, SubmitKeepsHeld DEF Submit
  <2>5. ASSUME NEW c \in Clients, AcceptConnection(c) PROVE Lost' = Lost /\ spent' = spent
    BY <2>5, AcceptKeepsHeld DEF AcceptConnection
  <2>6. QED
    BY <1>1, <2>1, <2>2, <2>3, <2>4, <2>5 DEF Serve
<1>2. ASSUME NEW t \in Threads, Notify(t) PROVE Lost' = Lost /\ spent' = spent
  <2>1. ASSUME FillResponse(t) \/ WriteResponse(t) \/ CloseConnection(t)
        PROVE  Lost' = Lost /\ spent' = spent
    <3>1. PICK a : /\ Goes(t, a, thread[t].job)
                   /\ UNCHANGED <<accepting, free, queue, spent>>
                   /\ UNCHANGED peer \/ Disconnected(thread[t].job.conn)
      BY <2>1 DEF FillResponse, WriteResponse, CloseConnection
    <3>3. Len(peer') = Len(peer)
      BY <1>t, <3>1 DEF Disconnected, DaemonTypeOK
    <3>2. QED
      BY <3>1, <3>3, KeepsHeld DEF ServesOn
  <2>2. CASE WriteFails(t)
    BY <2>2 DEF WriteFails, ServesOn
  <2>3. CASE PushConnection(t)
    BY <2>3, PushKeepsHeld DEF PushConnection
  <2>4. QED
    BY <1>2, <2>1, <2>2, <2>3 DEF Notify
<1>3. ASSUME NEW s \in Spectrometers, TimerFires(s)
      PROVE  Lost' = Lost /\ spent'.errors = spent.errors
  <2>1. PICK j : /\ Goes(Io, "submit", j) /\ j.conn = None /\ thread[Io].at = "loop"
                 /\ UNCHANGED <<accepting, free, queue, peer>>
                 /\ spent' = [spent EXCEPT !.entries = spent.entries + 1]
    BY <1>3 DEF TimerFires, IoLoop
  <2>2. thread[Io].job.conn = None
    BY <1>t, <2>1 DEF Control, HandsOK, HandOK
  <2>3. spent'.errors = spent.errors
    BY <1>s, <2>1
  <2>4. QED
    BY <2>1, <2>2, <2>3, KeepsHeld DEF ServesOn
<1>4. ASSUME NEW s \in Spectrometers, Worker(s) PROVE Lost' = Lost /\ spent' = spent
  <2>1. CASE Pop(s)
    BY <2>1, PopKeepsHeld DEF Pop
  <2>2. CASE Execute(s)
    <3>1. PICK a, j : /\ Goes(s, a, j) /\ j = (IF thread[s].job.conn = None THEN NoJob ELSE thread[s].job)
                      /\ UNCHANGED <<accepting, free, queue, peer, spent>>
      BY <2>2 DEF Execute
    <3>2. j.conn = thread[s].job.conn
      BY <3>1, NoJobType
    <3>3. QED
      BY <3>1, <3>2, KeepsHeld DEF ServesOn
  <2>3. QED
    BY <1>2, <1>4, <2>1, <2>2 DEF Worker
<1>5. ASSUME NEW c \in Clients, Connect(c) \/ Talk(c)
      PROVE  Lost' = Lost /\ spent'.errors = spent.errors
  <2>1. UNCHANGED <<peer, free, accepting, thread, queue>>
    BY <1>5 DEF Connect, Talk, Leave, SendRequest
  <2>2. \A s : Queued(s)' = Queued(s)
    BY <2>1 DEF Queued
  <2>3. Lost' = Lost
    BY <2>1, <2>2, SameLost DEF Held
  <2>4. CASE Connect(c)
    <3>1. spent' = [spent EXCEPT !.requests = spent.requests + 1]
      BY <2>4, Zenon DEF Connect
    <3>2. QED
      BY <1>s, <2>3, <3>1
  <2>5. CASE Talk(c)
    BY <2>3, <2>5 DEF Talk, Leave, SendRequest
  <2>6. QED
    BY <1>5, <2>4, <2>5
<1>6. ~TakeDown /\ ~Stop
  <2>1. thread[Io].at # "join"
    BY DEF ServesOn, IInv, Ending, StageOK
  <2>2. QED
    BY <2>1 DEF ServesOn, TakeDown, Stop, DestroySequences, CloseDevices, SendDone, Join, End
<1>7. CASE AcceptError
  BY <1>7, AcceptErrorLoses
<1>8. QED
  BY <1>1, <1>2, <1>3, <1>4, <1>5, <1>6, <1>7 DEF DaemonNext, IoThread

\* While the daemon serves, the connections that nothing holds are finitely
\* many, and as many as accepts have failed.
LEMMA RecycledKept ==
  IInv /\ ConnectionsRecycled /\ [DaemonNext]_vars => ConnectionsRecycled'
<1> SUFFICES ASSUME IInv, ConnectionsRecycled, [DaemonNext]_vars,
                    fault' = "none", stage' = "serving"
             PROVE  Cardinality(Lost') = spent'.errors
  BY DEF ConnectionsRecycled
<1>1. CASE UNCHANGED vars
  <2>1. UNCHANGED <<peer, free, accepting, thread, queue, fault, stage, spent>>
    BY <1>1 DEF vars
  <2>2. \A s : Queued(s)' = Queued(s)
    BY <2>1 DEF Queued
  <2>3. Lost' = Lost
    BY <2>1, <2>2, SameLost DEF Held
  <2>4. QED
    BY <2>1, <2>3 DEF ConnectionsRecycled
<1>2. CASE DaemonNext
  <2>1. Running
    BY <1>2 DEF DaemonNext
  <2>2. stage = "serving"
    BY <1>2 DEF DaemonNext, IoThread, Serve, TakeDown, Worker, Talk, Notify, IoLoop,
               QueueAcceptConnection, GetRequest, ReadFails, Submit, AcceptConnection, FillResponse,
               WriteResponse, WriteFails, CloseConnection, PushConnection, DestroySequences,
               CloseDevices, SendDone, Join, End, Stop, AcceptError, TimerFires, Pop, Execute,
               Connect, Leave, SendRequest
  <2>3. ServesOn
    BY <2>1, <2>2 DEF ServesOn
  <2>4. Cardinality(Lost) = spent.errors /\ spent.errors \in Nat
    BY <2>1, <2>2, SpentType DEF Running, ConnectionsRecycled, IInv
  <2>5. IsFiniteSet(Lost)
    <3>1. Len(peer) \in Nat
      BY JobTypes DEF IInv
    <3>2. IsFiniteSet(Connections)
      BY <3>1, FS_Interval DEF Connections
    <3>3. QED
      BY <3>2, FS_Subset DEF Lost
  <2>6. ASSUME NEW conn \in Connections \ Lost, Lost' = Lost \cup {conn}
        PROVE  Cardinality(Lost') = Cardinality(Lost) + 1
    BY <2>5, <2>6, FS_AddElement
  <2>7. QED
    BY <1>2, <2>3, <2>4, <2>6, LosesOnlyByError
<1>3. QED
  BY <1>1, <1>2

\* "The connection is returned for recycling when we are finished with it."
\* (RequestHandler.cpp 46): while the daemon serves, and until two threads have
\* met in the list, it has lost as many connections as accepts have failed and
\* not one more, however many clients have come and gone.
THEOREM ConnectionsAreRecycled == DaemonSpec => []ConnectionsRecycled
<1>1. DaemonInit => ConnectionsRecycled
  <2> SUFFICES ASSUME DaemonInit PROVE ConnectionsRecycled
    OBVIOUS
  <2>1. peer = <<NoClient>> /\ accepting = 1 /\ spent.errors = 0
    BY DEF DaemonInit
  <2>2. Lost = {}
    BY <2>1 DEF Lost, Connections, Held
  <2>3. QED
    BY <2>1, <2>2, FS_EmptySet DEF ConnectionsRecycled
<1>2. QED
  BY <1>1, RecycledKept, Inductive, PTL DEF DaemonSpec
=============================================================================
