----------------------------- MODULE StsDaemon -----------------------------
(***************************************************************************)
(* The STS daemon between its sockets and its spectrometers                *)
(* (daemons/STS-Dev-Kit: BaseConnectionHandler, Connection, RequestHandler,*)
(* OceanHandler, Accept of Sequence and Spectrometer, main).               *)
(*                                                                         *)
(* The io thread accepts one connection at a time, reads its request and   *)
(* answers it, or submits a job to the worker of the spectrometer the      *)
(* request names.  Workers answer too.  Both answer through one            *)
(* m_responseBuffer and give the connection back to one m_connection list, *)
(* without a lock, so these are steps of their own here.  A signal, or an  *)
(* exception on the io thread, takes the daemon down.                      *)
(*                                                                         *)
(* The job queue is the abstract queue of JobQueue.  Once two threads are  *)
(* inside the list at a time, a job has used a sequence that was destroyed *)
(* or was using a device when it was freed, or two resizes of the buffer   *)
(* have met, the program has no further behaviour here (fault).            *)
(***************************************************************************)
EXTENDS Naturals, Sequences, FiniteSets

CONSTANTS Clients, NoClient,
          SpectrometerCount,  \* spectrometers opened, and so sequences made
          Asked,              \* the requests clients send
          QueueSize,          \* capacity of a worker's queue (128 in the code)
          MaxRequests,        \* bound: connections clients make
          MaxAcceptErrors,    \* bound: accepts that fail
          MaxEntries          \* bound: jobs the timers of sequences submit

ASSUME ClientsAssumption == NoClient \notin Clients /\ IsFiniteSet(Clients)
ASSUME CountsAssumption ==
  /\ SpectrometerCount \in Nat
  /\ QueueSize \in Nat \ {0}
ASSUME DaemonBoundsAssumption ==
  /\ MaxRequests \in Nat
  /\ MaxAcceptErrors \in Nat
  /\ MaxEntries \in Nat

VARIABLES
  client,     \* client -> where it is, what it asks, whose response it got
  peer,       \* connection -> the client its open socket leads to
  free,       \* m_connection
  accepting,  \* the connection of the pending async_accept
  posted,     \* a posted QueueAcceptConnection
  buffer,     \* the connection m_responseBuffer was filled for
  thread,     \* where a thread is, and with which job
  queue,      \* spectrometer -> jobs, the oldest first
  stage,      \* what main has come to
  joined,     \* spectrometers destroyed
  spent,      \* what is counted against the bounds
  fault       \* undefined behaviour

sockets == <<peer, free, accepting, posted>>
teardown == <<stage, joined>>
vars == <<client, sockets, buffer, thread, queue, teardown, spent, fault>>

Spectrometers == 0 .. SpectrometerCount - 1
Io         == SpectrometerCount
Threads    == Spectrometers \cup {Io}
None       == 0
Connections == 1 .. Len(peer)

\* What a request asks for.  Target Io stands for a number that no
\* spectrometer has.
Kinds     == {"version", "sequence", "save", "command", "other"}
Request   == [kind : Kinds, target : Threads]
NoRequest == [kind |-> "none", target |-> Io]
Idle      == [at |-> "idle", request |-> NoRequest, got |-> None]
ASSUME AskedAssumption == Asked \subseteq Request
Job       == [kind : Kinds \cup {"none", "entry", "done"}, target : Threads, conn : Nat]
NoJob     == [kind |-> "none", target |-> Io, conn |-> None]
At(a, j)  == [at |-> a, job |-> j]

DaemonTypeOK ==
  /\ client \in [Clients -> [at : {"idle", "connecting", "connected", "waiting", "answered", "gone"},
                             request : Request \cup {NoRequest}, got : Nat]]
  /\ peer \in Seq(Clients \cup {NoClient})
  /\ free \in Seq(Connections)
  /\ accepting \in Connections \cup {None}
  /\ posted \in BOOLEAN
  /\ buffer \in Nat
  /\ thread \in [Threads -> [at : {"loop", "reading", "submit", "execute", "fill", "write", "close",
                                   "pushing", "join", "ended"}, job : Job]]
  /\ queue \in [Spectrometers -> Seq(Job)]
  /\ \A s \in Spectrometers : Len(queue[s]) <= QueueSize
  /\ stage \in {"serving", "stopped", "sequencesDestroyed", "devicesClosed", "ended", "aborted"}
  /\ joined \subseteq Spectrometers
  /\ spent \in [requests : Nat, errors : Nat, entries : Nat]
  /\ fault \in {"none", "list", "sequence", "device", "buffer"}

DaemonInit ==
  /\ client = [c \in Clients |-> Idle]
  /\ peer = <<NoClient>>
  /\ free = << >>
  /\ accepting = 1
  /\ posted = FALSE
  /\ buffer = None
  /\ thread = [t \in Threads |-> At("loop", NoJob)]
  /\ queue = [s \in Spectrometers |-> << >>]
  /\ stage = "serving"
  /\ joined = {}
  /\ spent = [requests |-> 0, errors |-> 0, entries |-> 0]
  /\ fault = "none"

IsOpen(conn) == conn # None /\ peer[conn] # NoClient
IoLoop == thread[Io].at = "loop" /\ stage = "serving"
Goes(t, a, j) == thread' = [thread EXCEPT ![t] = At(a, j)]

-----------------------------------------------------------------------------
(* The clients.                                                            *)

Connect(c) ==
  /\ client[c].at = "idle"
  /\ stage = "serving"
  /\ spent.requests < MaxRequests
  /\ client' = [client EXCEPT ![c].at = "connecting"]
  /\ spent' = [spent EXCEPT !.requests = @ + 1]
  /\ UNCHANGED <<sockets, buffer, thread, queue, teardown, fault>>

SendRequest(c, r) ==
  /\ client[c].at = "connected"
  /\ client' = [client EXCEPT ![c].at = "waiting", ![c].request = r]
  /\ UNCHANGED <<sockets, buffer, thread, queue, teardown, spent, fault>>

\* The client closes its end before it has its response; the daemon's socket
\* stays open.
Leave(c) ==
  /\ client[c].at \in {"connected", "waiting"}
  /\ client' = [client EXCEPT ![c].at = "gone"]
  /\ UNCHANGED <<sockets, buffer, thread, queue, teardown, spent, fault>>

-----------------------------------------------------------------------------
(* The io thread: accepting and reading.                                   *)

\* A thread is in the middle of push_back.
ListBusy == \E t \in Threads : thread[t].at = "pushing"

QueueAcceptConnection ==
  /\ IoLoop /\ posted
  /\ posted' = FALSE
  /\ IF ListBusy
     THEN fault' = "list" /\ UNCHANGED <<peer, free, accepting>>
     ELSE /\ UNCHANGED fault
          /\ IF free = << >>
             THEN /\ peer' = Append(peer, NoClient)
                  /\ accepting' = Len(peer) + 1
                  /\ UNCHANGED free
             ELSE /\ accepting' = Head(free)
                  /\ free' = Tail(free)
                  /\ UNCHANGED peer
  /\ UNCHANGED <<client, buffer, thread, queue, teardown, spent>>

\* OnAcceptConnection with a connection: GetRequest blocks the io thread.
AcceptConnection(c) ==
  /\ IoLoop /\ accepting # None
  /\ client[c].at = "connecting"
  /\ client' = [client EXCEPT ![c].at = "connected"]
  /\ peer' = [peer EXCEPT ![accepting] = c]
  /\ accepting' = None
  /\ Goes(Io, "reading", [NoJob EXCEPT !.conn = accepting])
  /\ UNCHANGED <<free, posted, buffer, queue, teardown, spent, fault>>

\* Mutant: after an error no accept is queued.
AcceptError_NotQueued ==
  /\ IoLoop /\ accepting # None
  /\ spent.errors < MaxAcceptErrors
  /\ accepting' = None
  /\ spent' = [spent EXCEPT !.errors = @ + 1]
  /\ UNCHANGED <<client, peer, free, posted, buffer, thread, queue, teardown, fault>>

\* OnAcceptConnection with an error.  The socket is not open, so NotifyError
\* does nothing and the connection is dropped with its last reference.
AcceptError ==
  /\ IoLoop /\ accepting # None
  /\ spent.errors < MaxAcceptErrors
  /\ accepting' = None
  /\ posted' = TRUE
  /\ spent' = [spent EXCEPT !.errors = @ + 1]
  /\ UNCHANGED <<client, peer, free, buffer, thread, queue, teardown, fault>>

\* Every socket closes.
AllClosed ==
  /\ peer' = [conn \in Connections |-> NoClient]
  /\ client' = [c \in Clients |-> Idle]

Disconnected(conn) ==
  /\ peer' = [peer EXCEPT ![conn] = NoClient]
  /\ client' = [client EXCEPT ![peer[conn]] = Idle]

\* OceanHandler's HandleRequest: what becomes of a request.
Known(r)     == r.target \in Spectrometers
Answered(r)  == r.kind = "version" \/ (Known(r) /\ r.kind = "sequence")
Submitted(r) == Known(r) /\ r.kind \in {"save", "command"}

HandleRequest(r) ==
  IF Answered(r) THEN "fill" ELSE IF Submitted(r) THEN "submit" ELSE "close"

GetRequest ==
  LET conn == thread[Io].job.conn
      r    == client[peer[conn]].request
  IN /\ thread[Io].at = "reading"
     /\ r # NoRequest
     /\ Goes(Io, HandleRequest(r), [kind |-> r.kind, target |-> r.target, conn |-> conn])
     /\ UNCHANGED <<client, sockets, buffer, queue, teardown, spent, fault>>

\* The exception of a read leaves io_service::run and ends main's try block.
ReadFails ==
  LET conn == thread[Io].job.conn
  IN /\ thread[Io].at = "reading"
     /\ client[peer[conn]].at = "gone"
     /\ Disconnected(conn)
     /\ stage' = "stopped"
     /\ Goes(Io, "loop", NoJob)
     /\ UNCHANGED <<free, accepting, posted, buffer, queue, joined, spent, fault>>

\* The timer of a running sequence has the io thread submit an entry.
TimerFires(s) ==
  /\ IoLoop
  /\ spent.entries < MaxEntries
  /\ spent' = [spent EXCEPT !.entries = @ + 1]
  /\ Goes(Io, "submit", [kind |-> "entry", target |-> s, conn |-> None])
  /\ UNCHANGED <<client, sockets, buffer, queue, teardown, fault>>

\* Mutant: a job is dropped when the queue is full.
Submit_Dropped ==
  LET job == thread[Io].job
  IN /\ thread[Io].at = "submit"
     /\ queue' = IF Len(queue[job.target]) < QueueSize
                 THEN [queue EXCEPT ![job.target] = Append(@, job)] ELSE queue
     /\ posted' = (posted \/ job.conn # None)
     /\ Goes(Io, "loop", NoJob)
     /\ UNCHANGED <<client, peer, free, accepting, buffer, teardown, spent, fault>>

\* Submit blocks while the queue is full.  After a request OnAcceptConnection
\* posts the next accept.
Submit ==
  LET job == thread[Io].job
  IN /\ thread[Io].at = "submit"
     /\ Len(queue[job.target]) < QueueSize
     /\ queue' = [queue EXCEPT ![job.target] = Append(@, job)]
     /\ posted' = (posted \/ job.conn # None)
     /\ Goes(Io, "loop", NoJob)
     /\ UNCHANGED <<client, peer, free, accepting, buffer, teardown, spent, fault>>

-----------------------------------------------------------------------------
(* NotifyResponse and NotifyError, on the io thread and on the workers.    *)
(* They do nothing for a connection that is not open; it always is, which  *)
(* OpenInHand says.                                                        *)

\* Another thread fills or writes the buffer too.
BufferShared(t) == \E u \in Threads \ {t} : thread[u].at \in {"fill", "write"}

\* The resize may move the bytes under the other thread's copy or write.
FillResponse(t) ==
  LET job == thread[t].job
  IN /\ thread[t].at = "fill"
     /\ IsOpen(job.conn)
     /\ buffer' = job.conn
     /\ UNCHANGED fault \/ (BufferShared(t) /\ fault' = "buffer")
     /\ Goes(t, "write", job)
     /\ UNCHANGED <<client, sockets, queue, teardown, spent>>

\* What the buffer may hold: a mixture, which is the response of none, while
\* another thread is between filling and writing it too.
InBuffer(t) ==
  {buffer} \cup {None : u \in {v \in Threads \ {t} : thread[v].at = "write"}}

WriteResponse(t) ==
  LET job == thread[t].job
      c   == peer[job.conn]
  IN /\ thread[t].at = "write"
     /\ IF client[c].at = "gone"
        THEN UNCHANGED client
        ELSE \E b \in InBuffer(t) :
               client' = [client EXCEPT ![c].at = "answered", ![c].got = b]
     /\ Goes(t, "close", job)
     /\ UNCHANGED <<sockets, buffer, queue, teardown, spent, fault>>

\* A write to a client that has left may throw.  Nothing catches it on a
\* worker, which aborts the process.
WriteFails(t) ==
  LET conn == thread[t].job.conn
  IN /\ thread[t].at = "write"
     /\ client[peer[conn]].at = "gone"
     /\ IF t = Io THEN stage' = "stopped" /\ Disconnected(conn)
                  ELSE stage' = "aborted" /\ AllClosed
     /\ Goes(t, "loop", NoJob)
     /\ UNCHANGED <<free, accepting, posted, buffer, queue, joined, spent, fault>>

\* Mutant: the connection goes back to the list before it is closed.
CloseConnection_PushFirst(t) ==
  LET job == thread[t].job
  IN /\ thread[t].at = "close"
     /\ IsOpen(job.conn)
     /\ free' = Append(free, job.conn)
     /\ Disconnected(job.conn)
     /\ fault' = IF ListBusy THEN "list" ELSE fault
     /\ Goes(t, "pushing", job)
     /\ UNCHANGED <<accepting, posted, buffer, queue, teardown, spent>>

\* The socket is closed, and the thread is inside push_back.
CloseConnection(t) ==
  LET job == thread[t].job
  IN /\ thread[t].at = "close"
     /\ IsOpen(job.conn)
     /\ Disconnected(job.conn)
     /\ fault' = IF ListBusy THEN "list" ELSE fault
     /\ Goes(t, "pushing", job)
     /\ UNCHANGED <<free, accepting, posted, buffer, queue, teardown, spent>>

\* Mutant: the connection is not given back.
PushConnection_Dropped(t) ==
  /\ thread[t].at = "pushing"
  /\ posted' = (posted \/ t = Io)
  /\ Goes(t, "loop", NoJob)
  /\ UNCHANGED <<client, peer, free, accepting, buffer, queue, teardown, spent, fault>>

PushConnection(t) ==
  /\ thread[t].at = "pushing"
  /\ free' = Append(free, thread[t].job.conn)
  /\ posted' = (posted \/ t = Io)
  /\ Goes(t, "loop", NoJob)
  /\ UNCHANGED <<client, peer, accepting, buffer, queue, teardown, spent, fault>>

Notify(t) ==
  \/ FillResponse(t) \/ WriteResponse(t) \/ WriteFails(t)
  \/ CloseConnection(t) \/ PushConnection(t)

-----------------------------------------------------------------------------
(* The workers: Run of the active object, Execute of the three messages.   *)

Pop(s) ==
  /\ thread[s].at = "loop"
  /\ queue[s] # << >>
  /\ queue' = [queue EXCEPT ![s] = Tail(@)]
  /\ Goes(s, "execute", Head(queue[s]))
  /\ UNCHANGED <<client, sockets, buffer, teardown, spent, fault>>

\* Mutant: the worker does not end with m_done.
AfterExecute_GoesOn(kind) ==
  IF kind \in {"done", "entry"} THEN "loop" ELSE "fill"

AfterExecute(kind) ==
  CASE kind = "done" -> "ended" [] kind = "entry" -> "loop" [] OTHER -> "fill"

\* A save and an entry use the Sequence, a command only the Spectrometer.
Execute(s) ==
  LET job == thread[s].job
  IN /\ thread[s].at = "execute"
     /\ fault' = IF job.kind \in {"save", "entry"} /\ stage \notin {"serving", "stopped"}
                 THEN "sequence" ELSE fault
     /\ Goes(s, AfterExecute(job.kind), IF job.conn = None THEN NoJob ELSE job)
     /\ UNCHANGED <<client, sockets, buffer, queue, teardown, spent>>

-----------------------------------------------------------------------------
(* Taking the daemon down: main after io_service::run.                     *)

\* SIGINT or SIGTERM: io_service::stop, once the handler in progress is done.
Stop ==
  /\ IoLoop
  /\ stage' = "stopped"
  /\ UNCHANGED <<client, sockets, buffer, thread, queue, joined, spent, fault>>

DestroySequences ==
  /\ stage = "stopped"
  /\ stage' = "sequencesDestroyed"
  /\ UNCHANGED <<client, sockets, buffer, thread, queue, joined, spent, fault>>

\* A worker may be in an exchange with its device.  A job that starts later
\* finds no device and answers with an error.
DeviceInUse ==
  \E s \in Spectrometers :
    thread[s].at = "execute" /\ thread[s].job.kind \in {"save", "command", "entry"}

CloseDevices ==
  /\ stage = "sequencesDestroyed"
  /\ stage' = "devicesClosed"
  /\ UNCHANGED fault \/ (DeviceInUse /\ fault' = "device")
  /\ UNCHANGED <<client, sockets, buffer, thread, queue, joined, spent>>

\* The destructor of a Spectrometer is that of its active object: it sends
\* m_done behind the jobs in the queue and joins the worker.
SendDone(s) ==
  LET done == [kind |-> "done", target |-> s, conn |-> None]
  IN /\ stage = "devicesClosed"
     /\ thread[Io].at = "loop"
     /\ s \notin joined
     /\ Len(queue[s]) < QueueSize
     /\ queue' = [queue EXCEPT ![s] = Append(@, done)]
     /\ Goes(Io, "join", done)
     /\ UNCHANGED <<client, sockets, buffer, teardown, spent, fault>>

\* Mutant: the destructor does not wait for the worker.
Join_Detached ==
  /\ thread[Io].at = "join"
  /\ joined' = joined \cup {thread[Io].job.target}
  /\ Goes(Io, "loop", NoJob)
  /\ UNCHANGED <<client, sockets, buffer, queue, stage, spent, fault>>

Join ==
  /\ thread[Io].at = "join"
  /\ thread[thread[Io].job.target].at = "ended"
  /\ joined' = joined \cup {thread[Io].job.target}
  /\ Goes(Io, "loop", NoJob)
  /\ UNCHANGED <<client, sockets, buffer, queue, stage, spent, fault>>

\* The list of connections, the acceptor and the io_service are destroyed.
End ==
  /\ stage = "devicesClosed"
  /\ thread[Io].at = "loop"
  /\ joined = Spectrometers
  /\ stage' = "ended"
  /\ AllClosed
  /\ UNCHANGED <<free, accepting, posted, buffer, thread, queue, joined, spent, fault>>

-----------------------------------------------------------------------------
Serve == QueueAcceptConnection \/ GetRequest \/ ReadFails \/ Submit
         \/ \E c \in Clients : AcceptConnection(c)
TakeDown == DestroySequences \/ CloseDevices \/ Join \/ End
            \/ \E s \in Spectrometers : SendDone(s)
IoThread  == Serve \/ Notify(Io) \/ TakeDown
Worker(s) == Pop(s) \/ Execute(s) \/ Notify(s)
Talk(c)   == Leave(c) \/ \E r \in Asked : SendRequest(c, r)

Running == stage # "aborted" /\ fault = "none"

\* A process that has aborted or met undefined behaviour stays so.
DaemonNext ==
  Running /\ ( \/ IoThread \/ Stop \/ AcceptError
              \/ \E s \in Spectrometers : TimerFires(s) \/ Worker(s)
              \/ \E c \in Clients : Connect(c) \/ Talk(c) )

DaemonSpec == DaemonInit /\ [][DaemonNext]_vars

\* Threads go on while they can, and a client that is connected sends or
\* leaves: the daemon sets no limit to how long it waits for that.
FairDaemonSpec ==
  /\ DaemonSpec
  /\ WF_vars(Running /\ IoThread)
  /\ \A s \in Spectrometers : WF_vars(Running /\ Worker(s))
  /\ \A c \in Clients : WF_vars(Running /\ client[c].at = "connected" /\ Talk(c))

-----------------------------------------------------------------------------
(* Properties.                                                             *)

Queued(s) == 1 .. Len(queue[s])
FreeOnce == \A i, j \in 1 .. Len(free) : free[i] = free[j] => i = j
ThreadsApart ==
  \A t, u \in Threads : thread[t].job.conn = thread[u].job.conn /\ thread[t].job.conn # None => t = u
QueuedOnce ==
  \A s, r \in Spectrometers : \A i \in Queued(s), j \in Queued(r) :
    queue[s][i].conn = queue[r][j].conn /\ queue[s][i].conn # None => s = r /\ i = j
PlacesApart ==
  /\ \A i \in 1 .. Len(free) :
       /\ free[i] # accepting
       /\ \A t \in Threads : thread[t].job.conn # free[i]
       /\ \A s \in Spectrometers : \A j \in Queued(s) : queue[s][j].conn # free[i]
  /\ accepting # None =>
       /\ \A t \in Threads : thread[t].job.conn # accepting
       /\ \A s \in Spectrometers : \A j \in Queued(s) : queue[s][j].conn # accepting
  /\ \A s \in Spectrometers : \A j \in Queued(s) : queue[s][j].conn # None =>
       \A t \in Threads : thread[t].job.conn # queue[s][j].conn

\* The connections that are open are those with the thread or the job that
\* will close them, and no two lead to one client.
InHand(conn) ==
  \/ \E t \in Threads : thread[t].job.conn = conn /\ thread[t].at # "pushing"
  \/ \E s \in Spectrometers : \E i \in Queued(s) : queue[s][i].conn = conn
OpenInHand ==
  stage # "aborted" => \A conn \in Connections : peer[conn] # NoClient <=> InHand(conn)
PeersDiffer ==
  \A conn, d \in Connections : peer[conn] = peer[d] /\ peer[conn] # NoClient => conn = d

\* A connection is in one place at a time, and an open one is always with the
\* thread or the job that will close it: no response can go to a socket that
\* was given to another client, and no client is forgotten
\* (BaseConnectionHandler.cpp 44-77, RequestHandler.cpp 48-75).
ConnectionsExclusive ==
  /\ FreeOnce /\ ThreadsApart /\ QueuedOnce /\ PlacesApart
  /\ OpenInHand /\ PeersDiffer

\* While the daemon serves there is one accept pending, posted, or due from
\* the request in progress: never none, never two (RequestHandler.cpp 126-138).
OneAcceptChain ==
  fault = "none" /\ stage = "serving" =>
    LET pending == accepting # None
        due     == thread[Io].job.conn # None
    IN  /\ pending \/ posted \/ due
        /\ ~(pending /\ posted) /\ ~(pending /\ due) /\ ~(posted /\ due)

\* The connections that nothing holds: no accept, no thread, no queued job, and
\* not the list of free ones.
Held(conn) ==
  \/ accepting = conn
  \/ \E t \in Threads : thread[t].job.conn = conn
  \/ \E s \in Spectrometers : \E i \in Queued(s) : queue[s][i].conn = conn
  \/ \E i \in 1 .. Len(free) : free[i] = conn
Lost == {conn \in Connections : ~Held(conn)}

\* "The connection is returned for recycling when we are finished with it."
\* (RequestHandler.cpp 46): while the daemon serves, the only connections that
\* nothing holds are those dropped after a failed accept.
ConnectionsRecycled ==
  fault = "none" /\ stage = "serving" => Cardinality(Lost) = spent.errors

\* When the daemon has ended, every job that was accepted has been executed
\* and every worker is gone: nothing runs on what has been destroyed.
EndedDrained ==
  stage = "ended" => \A s \in Spectrometers : queue[s] = << >> /\ thread[s].at = "ended"

\* A client that has sent its request is answered or turned away, also when
\* the daemon is taken down meanwhile.
RequestsServed ==
  \A c \in Clients : client[c].at = "waiting" ~> client[c].at # "waiting" \/ ~Running

\* Once stopped the daemon ends: the destructors find room in every queue and
\* every worker comes to m_done.
StopEnds == stage = "stopped" ~> stage = "ended" \/ ~Running

\* No job uses a sequence that main has destroyed before it joined the workers.
\* The code does not keep this (OceanHandler's members go before those of
\* RequestHandler), so no run checks it.
NoDestroyedSequence == fault # "sequence"

\* A client gets the response to its own request: "Return the result of a
\* command/request on the same connection the request was received on."
\* (RequestHandler.cpp 43)
ResponseIsOwn ==
  \A c \in Clients : client[c].at = "answered" =>
    client[c].got \in Connections /\ peer[client[c].got] = c

=============================================================================
