------------------------------ MODULE Exporter ------------------------------
(***************************************************************************)
(* The embedded HTTP exporter, src/presentation/server.rs: one owner (the  *)
(* monitor loop holding the Exporter value), one acceptor thread and a     *)
(* fixed pool of workers that share a bounded connection queue, a count of *)
(* admitted connections per peer address, a registry of the streams being  *)
(* handled and the last published report.                                  *)
(*                                                                         *)
(* A connection is an element of Conns; its address is Peer[c].  Requests  *)
(* and responses are abstracted to the paths they make a worker take.  An  *)
(* identity is used again once its connection is gone, so the behaviours   *)
(* are unbounded although Conns is finite.                                 *)
(***************************************************************************)
EXTENDS Naturals, Sequences, FiniteSets

CONSTANTS Conns,          \* identities of client connections
          IPs,            \* peer addresses
          Peer,           \* the peer address of each connection
          Workers,        \* the WORKER_COUNT worker threads
          QueueCapacity,  \* CONNECTION_QUEUE_CAPACITY
          MaxPerIP,       \* MAX_CONNECTIONS_PER_IP
          MaxReport,      \* bound on the reports published (model bound)
          NoConn          \* "no connection"

ASSUME ConnsAssumption == IsFiniteSet(Conns) /\ NoConn \notin Conns
ASSUME PeerAssumption == Peer \in [Conns -> IPs]
ASSUME WorkersAssumption == IsFiniteSet(Workers) /\ Workers # {}
ASSUME BoundsAssumption == /\ QueueCapacity \in Nat \ {0}
                           /\ MaxPerIP \in Nat \ {0}
                           /\ MaxReport \in Nat

VARIABLES
  backlog,       \* connections the kernel holds for accept(), oldest first
  sock,          \* per connection: the state of its TCP stream
  queue, closed, \* QueueState
  qlock,         \* who holds the queue mutex across several steps (close)
  counts,        \* Admission.counts; an absent entry is 0
  permits,       \* connections whose AdmissionPermit is alive
  streams,       \* ActiveState.streams, by connection
  activeClosed,  \* ActiveState.closed
  stop,          \* Exporter.stop
  lastSuccess, report,  \* State, as the number of the report published
  apc, ac,       \* the acceptor: where it is and the connection it holds
  wpc, wc,       \* the workers: where each is and the connection it holds
  seen,          \* per worker: the snapshot its response is built from
  opc            \* the owner: start_server, the monitor loop, Drop

queueVars == <<queue, closed, qlock>>
admissionVars == <<counts, permits>>
activeVars == <<streams, activeClosed>>
stateVars == <<lastSuccess, report>>
acceptorVars == <<apc, ac>>
workerVars == <<wpc, wc, seen>>
vars == <<backlog, sock, queueVars, admissionVars, activeVars, stop,
          stateVars, acceptorVars, workerVars, opc>>

-----------------------------------------------------------------------------
(* Places.                                                                 *)

SockStates == {"free", "backlog", "open", "shut", "closed"}

AcceptorPlaces == {"unborn", "check", "accept", "acquire", "refuse", "push",
                   "full", "late", "release", "lateRelease", "close", "drain",
                   "done"}

\* Places where the acceptor's connection carries a permit.
AcceptorPermit == {"push", "full", "late", "release", "lateRelease"}

WorkerPlaces == {"unborn", "pop", "wait", "register", "read", "route",
                 "respond", "shut", "unregister", "close", "release", "done"}

\* Places inside handle_connection, with the stream registered as active.
Handling == {"read", "route", "respond", "shut", "unregister"}

\* Places where a worker holds a connection, and so its permit.
WorkerPermit == Handling \cup {"register", "close", "release"}

OwnerPlaces == {"spawn", "running", "publish", "close", "drain",
                "shutdownActive", "joinAcceptor", "joinWorkers", "gone",
                "joinFailed", "failed"}

Acceptor == "acceptor"
Owner == "owner"
Free == "free"

Waiting == {w \in Workers : wpc[w] = "wait"}
OfPeer(S, ip) == {c \in S : Peer[c] = ip}

\* The listener is bound before the first worker is spawned and dropped with
\* the acceptor's closure, or with start_server when that fails.
Listening == apc # "done" /\ opc # "failed"

Init ==
  /\ backlog = <<>>
  /\ sock = [c \in Conns |-> "free"]
  /\ queue = <<>> /\ closed = FALSE /\ qlock = Free
  /\ counts = [ip \in IPs |-> 0] /\ permits = {}
  /\ streams = {} /\ activeClosed = FALSE
  /\ stop = FALSE
  /\ lastSuccess = 0 /\ report = 0
  /\ apc = "unborn" /\ ac = NoConn
  /\ wpc = [w \in Workers |-> "unborn"]
  /\ wc = [w \in Workers |-> NoConn]
  /\ seen = [w \in Workers |-> <<0, 0>>]
  /\ opc = "spawn"

-----------------------------------------------------------------------------
(* Operations on the shared state.                                         *)

\* Seeded fault: one connection more per peer.
TryAcquireOffByOne(c) ==
  /\ counts[Peer[c]] <= MaxPerIP
  /\ counts' = [counts EXCEPT ![Peer[c]] = @ + 1]
  /\ permits' = permits \cup {c}

\* Admission::try_acquire: refused at the limit, counted otherwise.
TryAcquire(c) ==
  /\ counts[Peer[c]] < MaxPerIP
  /\ counts' = [counts EXCEPT ![Peer[c]] = @ + 1]
  /\ permits' = permits \cup {c}

\* Seeded fault: the peer's entry is removed.
ReleaseWholeEntry(c) ==
  /\ counts' = [counts EXCEPT ![Peer[c]] = 0]
  /\ permits' = permits \ {c}
  /\ sock' = [sock EXCEPT ![c] = "free"]

\* AdmissionPermit::drop -> Admission::release, with saturating_sub.  The
\* identity becomes free for a new connection.
Release(c) ==
  /\ counts' = [counts EXCEPT ![Peer[c]] = IF @ = 0 THEN 0 ELSE @ - 1]
  /\ permits' = permits \ {c}
  /\ sock' = [sock EXCEPT ![c] = "free"]

SetSock(c, s) == sock' = [sock EXCEPT ![c] = s]

\* queue_is_full
QueueIsFull(n) == n >= QueueCapacity

\* Condvar::notify_one and Condvar::notify_all.
NotifyOne ==
  IF Waiting = {} THEN UNCHANGED wpc
  ELSE \E w \in Waiting : wpc' = [wpc EXCEPT ![w] = "pop"]

NotifyAll ==
  wpc' = [w \in Workers |-> IF wpc[w] = "wait" THEN "pop" ELSE wpc[w]]

(* ConnectionQueue::close runs under the queue mutex from the moment it    *)
(* sets the flag to the moment it has notified: the queued connections are *)
(* dropped one by one, each taking the admission mutex, so the acceptor    *)
(* can still see the counts go down one at a time.                         *)
CloseBegin(t) ==
  /\ qlock = Free
  /\ qlock' = t
  /\ closed' = TRUE
  /\ UNCHANGED <<backlog, sock, queue, admissionVars, activeVars, stop,
                 stateVars, workerVars>>

CloseDropHead(t) ==
  /\ qlock = t
  /\ queue # <<>>
  /\ queue' = Tail(queue)
  /\ Release(Head(queue))
  /\ UNCHANGED <<backlog, closed, qlock, activeVars, stop, stateVars,
                 acceptorVars, workerVars, opc>>

\* Seeded fault: close wakes nobody.
CloseWithoutNotify(t) ==
  /\ qlock = t
  /\ queue = <<>>
  /\ qlock' = Free
  /\ UNCHANGED <<queue, closed, admissionVars, activeVars, stop,
                 stateVars, workerVars>>

CloseNotify(t) ==
  /\ qlock = t
  /\ queue = <<>>
  /\ qlock' = Free
  /\ NotifyAll
  /\ UNCHANGED <<queue, closed, admissionVars, activeVars, stop,
                 stateVars, wc, seen>>

-----------------------------------------------------------------------------
(* Clients and the kernel (outside the program): a connection completes    *)
(* its handshake and waits in the listener's backlog.                      *)

Connect(c) ==
  /\ Listening
  /\ sock[c] = "free" /\ c \notin permits
  /\ backlog' = Append(backlog, c)
  /\ SetSock(c, "backlog")
  /\ UNCHANGED <<queueVars, admissionVars, activeVars, stop, stateVars,
                 acceptorVars, workerVars, opc>>

-----------------------------------------------------------------------------
(* accept_loop.                                                            *)

AcceptorFrame == UNCHANGED <<activeVars, stop, stateVars, wc, seen, opc>>
AcceptorGoto(p) == apc' = p

\* while !stop.load(Acquire)
ACheckStop ==
  /\ apc = "check"
  /\ AcceptorGoto(IF stop THEN "close" ELSE "accept")
  /\ UNCHANGED <<backlog, sock, queueVars, admissionVars, wpc, ac>>
  /\ AcceptorFrame

\* listener.accept() returns the oldest connection and configure_stream
\* succeeds on it.
AAccept ==
  /\ apc = "accept" /\ backlog # <<>>
  /\ ac' = Head(backlog)
  /\ backlog' = Tail(backlog)
  /\ SetSock(Head(backlog), "open")
  /\ AcceptorGoto("acquire")
  /\ UNCHANGED <<queueVars, admissionVars, wpc>>
  /\ AcceptorFrame

\* configure_stream fails: the stream is dropped and the loop continues.
AConfigureFails ==
  /\ apc = "accept" /\ backlog # <<>>
  /\ backlog' = Tail(backlog)
  /\ SetSock(Head(backlog), "free")
  /\ AcceptorGoto("check")
  /\ UNCHANGED <<queueVars, admissionVars, wpc, ac>>
  /\ AcceptorFrame

\* WouldBlock (nothing to accept; park for the poll interval) and
\* Interrupted (at any time).
AAcceptNothing ==
  /\ apc = "accept"
  /\ AcceptorGoto("check")
  /\ UNCHANGED <<backlog, sock, queueVars, admissionVars, wpc, ac>>
  /\ AcceptorFrame

\* Every other error of accept() ends the loop.
AAcceptError ==
  /\ apc = "accept"
  /\ AcceptorGoto("close")
  /\ UNCHANGED <<backlog, sock, queueVars, admissionVars, wpc, ac>>
  /\ AcceptorFrame

AAcquire ==
  /\ apc = "acquire"
  /\ TryAcquire(ac)
  /\ AcceptorGoto("push")
  /\ UNCHANGED <<backlog, sock, queueVars, wpc, ac>>
  /\ AcceptorFrame

AAcquireRefused ==
  /\ apc = "acquire"
  /\ counts[Peer[ac]] >= MaxPerIP
  /\ AcceptorGoto("refuse")
  /\ UNCHANGED <<backlog, sock, queueVars, admissionVars, wpc, ac>>
  /\ AcceptorFrame

\* reject_overload without a permit; the stream is dropped by `continue`.
ARefuse ==
  /\ apc = "refuse"
  /\ SetSock(ac, "free")
  /\ ac' = NoConn
  /\ AcceptorGoto("check")
  /\ UNCHANGED <<backlog, queueVars, admissionVars, wpc>>
  /\ AcceptorFrame

\* try_push: closed is tested before the capacity, under the queue mutex.
APush ==
  /\ apc = "push" /\ qlock = Free
  /\ ~closed /\ ~QueueIsFull(Len(queue))
  /\ queue' = Append(queue, ac)
  /\ NotifyOne
  /\ ac' = NoConn
  /\ AcceptorGoto("check")
  /\ UNCHANGED <<backlog, sock, closed, qlock, admissionVars>>
  /\ AcceptorFrame

APushRefused ==
  /\ apc = "push" /\ qlock = Free
  /\ closed \/ QueueIsFull(Len(queue))
  /\ AcceptorGoto(IF closed THEN "late" ELSE "full")
  /\ UNCHANGED <<backlog, sock, queueVars, admissionVars, wpc, ac>>
  /\ AcceptorFrame

\* EnqueueError::Full: answer 503 and shut the stream down, then drop the
\* Connection: stream first, permit second.
ARejectFull ==
  /\ apc = "full"
  /\ SetSock(ac, "closed")
  /\ AcceptorGoto("release")
  /\ UNCHANGED <<backlog, queueVars, admissionVars, wpc, ac>>
  /\ AcceptorFrame

\* EnqueueError::Closed: drop the Connection without an answer.
ADropLate ==
  /\ apc = "late"
  /\ SetSock(ac, "closed")
  /\ AcceptorGoto("lateRelease")
  /\ UNCHANGED <<backlog, queueVars, admissionVars, wpc, ac>>
  /\ AcceptorFrame

ARelease ==
  /\ apc \in {"release", "lateRelease"}
  /\ Release(ac)
  /\ ac' = NoConn
  /\ AcceptorGoto(IF apc = "release" THEN "check" ELSE "close")
  /\ UNCHANGED <<backlog, queueVars, wpc>>
  /\ AcceptorFrame

\* queue.close() at the end of the loop.
ACloseBegin ==
  /\ apc = "close"
  /\ CloseBegin(Acceptor)
  /\ AcceptorGoto("drain")
  /\ UNCHANGED <<ac, opc>>

\* Seeded fault: the listener outlives the acceptor.
ACloseKeepsListener ==
  /\ apc = "drain"
  /\ CloseNotify(Acceptor)
  /\ AcceptorGoto("done")
  /\ UNCHANGED <<backlog, sock, ac, opc>>

\* The closure ends: the listener is dropped, the kernel resets its backlog.
ACloseEnd ==
  /\ apc = "drain"
  /\ CloseNotify(Acceptor)
  /\ AcceptorGoto("done")
  /\ backlog' = <<>>
  /\ sock' = [c \in Conns |-> IF sock[c] = "backlog" THEN "free" ELSE sock[c]]
  /\ UNCHANGED <<ac, opc>>

AcceptorStep ==
  \/ ACheckStop \/ AAccept \/ AConfigureFails \/ AAcceptNothing
  \/ AAcceptError \/ AAcquire \/ AAcquireRefused \/ ARefuse
  \/ APush \/ APushRefused \/ ARejectFull \/ ADropLate \/ ARelease
  \/ ACloseBegin \/ CloseDropHead(Acceptor) \/ ACloseEnd

-----------------------------------------------------------------------------
(* worker_loop and handle_connection.                                      *)

WorkerFrame == UNCHANGED <<backlog, stop, stateVars, acceptorVars, opc>>
WorkerGoto(w, p) == wpc' = [wpc EXCEPT ![w] = p]

\* pop: a queued connection before the closed flag before waiting.
WPop(w) ==
  /\ wpc[w] = "pop" /\ qlock = Free
  /\ queue # <<>>
  /\ wc' = [wc EXCEPT ![w] = Head(queue)]
  /\ queue' = Tail(queue)
  /\ WorkerGoto(w, "register")
  /\ UNCHANGED <<sock, closed, qlock, admissionVars, activeVars, seen>>
  /\ WorkerFrame

WPopEmpty(w) ==
  /\ wpc[w] = "pop" /\ qlock = Free
  /\ queue = <<>>
  /\ WorkerGoto(w, IF closed THEN "done" ELSE "wait")
  /\ UNCHANGED <<sock, queueVars, admissionVars, activeVars, wc, seen>>
  /\ WorkerFrame

\* A condition variable may wake without a notification.
SpuriousWakeup(w) ==
  /\ wpc[w] = "wait"
  /\ WorkerGoto(w, "pop")
  /\ UNCHANGED <<sock, queueVars, admissionVars, activeVars, wc, seen>>
  /\ WorkerFrame

\* Seeded fault: a closed registry takes streams.
WRegisterAlways(w) ==
  /\ wpc[w] = "register"
  /\ streams' = streams \cup {wc[w]}
  /\ WorkerGoto(w, "read")
  /\ UNCHANGED <<sock, queueVars, admissionVars, activeClosed, wc, seen>>
  /\ WorkerFrame

\* ActiveConnections::register
WRegister(w) ==
  /\ wpc[w] = "register"
  /\ ~activeClosed
  /\ streams' = streams \cup {wc[w]}
  /\ WorkerGoto(w, "read")
  /\ UNCHANGED <<sock, queueVars, admissionVars, activeClosed, wc, seen>>
  /\ WorkerFrame

\* try_clone failed, or the registry is closed: shut down and drop.
WRegisterFails(w) ==
  /\ wpc[w] = "register"
  /\ SetSock(wc[w], "shut")
  /\ WorkerGoto(w, "close")
  /\ UNCHANGED <<queueVars, admissionVars, activeVars, wc, seen>>
  /\ WorkerFrame

\* read_request returns before its absolute deadline: a request, an error
\* that is answered, or RequestError::Connection, which is not.
WRead(w) ==
  /\ wpc[w] = "read"
  /\ \E p \in {"route", "respond", "shut"} : WorkerGoto(w, p)
  /\ UNCHANGED <<sock, queueVars, admissionVars, activeVars, wc, seen>>
  /\ WorkerFrame

\* Seeded fault: report and last_success are read without the lock.
WRouteUnlocked(w) ==
  /\ wpc[w] = "route"
  /\ seen' = [seen EXCEPT ![w] = <<lastSuccess, report>>]
  /\ WorkerGoto(w, "respond")
  /\ UNCHANGED <<sock, queueVars, admissionVars, activeVars, wc>>
  /\ WorkerFrame

\* route_request: both fields under one read lock, which excludes a writer.
WRoute(w) ==
  /\ wpc[w] = "route"
  /\ opc # "publish"
  /\ seen' = [seen EXCEPT ![w] = <<lastSuccess, report>>]
  /\ WorkerGoto(w, "respond")
  /\ UNCHANGED <<sock, queueVars, admissionVars, activeVars, wc>>
  /\ WorkerFrame

\* write_response within its deadline; on a stream that is shut it fails.
WRespond(w) ==
  /\ wpc[w] = "respond"
  /\ seen' = [seen EXCEPT ![w] = <<0, 0>>]
  /\ WorkerGoto(w, "shut")
  /\ UNCHANGED <<sock, queueVars, admissionVars, activeVars, wc>>
  /\ WorkerFrame

WShut(w) ==
  /\ wpc[w] = "shut"
  /\ SetSock(wc[w], "shut")
  /\ WorkerGoto(w, "unregister")
  /\ UNCHANGED <<queueVars, admissionVars, activeVars, wc, seen>>
  /\ WorkerFrame

\* End of the loop body: the registration is dropped, then the stream, then
\* the permit.
WUnregister(w) ==
  /\ wpc[w] = "unregister"
  /\ streams' = streams \ {wc[w]}
  /\ WorkerGoto(w, "close")
  /\ UNCHANGED <<sock, queueVars, admissionVars, activeClosed, wc, seen>>
  /\ WorkerFrame

WClose(w) ==
  /\ wpc[w] = "close"
  /\ SetSock(wc[w], "closed")
  /\ WorkerGoto(w, "release")
  /\ UNCHANGED <<queueVars, admissionVars, activeVars, wc, seen>>
  /\ WorkerFrame

WRelease(w) ==
  /\ wpc[w] = "release"
  /\ Release(wc[w])
  /\ wc' = [wc EXCEPT ![w] = NoConn]
  /\ WorkerGoto(w, "pop")
  /\ UNCHANGED <<queueVars, activeVars, seen>>
  /\ WorkerFrame

WorkerStep(w) ==
  \/ WPop(w) \/ WPopEmpty(w) \/ WRegister(w) \/ WRegisterFails(w)
  \/ WRead(w) \/ WRoute(w) \/ WRespond(w) \/ WShut(w) \/ WUnregister(w)
  \/ WClose(w) \/ WRelease(w)

-----------------------------------------------------------------------------
(* The owner: start_server, set_report from the monitor loop, and Drop.    *)

OwnerGoto(p) == opc' = p
OwnerFrame == UNCHANGED <<seen, wc, ac>>

\* spawn_workers starts the pool one thread at a time.
OSpawnWorker(w) ==
  /\ opc = "spawn" /\ wpc[w] = "unborn"
  /\ wpc' = [wpc EXCEPT ![w] = "pop"]
  /\ UNCHANGED <<backlog, sock, queueVars, admissionVars, activeVars, stop,
                 stateVars, apc, opc>>
  /\ OwnerFrame

OSpawnAcceptor ==
  /\ opc = "spawn" /\ \A w \in Workers : wpc[w] # "unborn"
  /\ apc' = "check"
  /\ OwnerGoto("running")
  /\ UNCHANGED <<backlog, sock, queueVars, admissionVars, activeVars, stop,
                 stateVars, wpc>>
  /\ OwnerFrame

\* A thread cannot be spawned, a worker or the acceptor: close and join.
OSpawnFails ==
  /\ opc = "spawn"
  /\ OwnerGoto("close")
  /\ UNCHANGED <<backlog, sock, queueVars, admissionVars, activeVars, stop,
                 stateVars, apc, wpc>>
  /\ OwnerFrame

\* set_report holds the write lock over its two assignments.
OSetReportBegin ==
  /\ opc = "running" /\ lastSuccess < MaxReport
  /\ lastSuccess' = lastSuccess + 1
  /\ OwnerGoto("publish")
  /\ UNCHANGED <<backlog, sock, queueVars, admissionVars, activeVars, stop,
                 report, apc, wpc>>
  /\ OwnerFrame

OSetReportEnd ==
  /\ opc = "publish"
  /\ report' = lastSuccess
  /\ OwnerGoto("running")
  /\ UNCHANGED <<backlog, sock, queueVars, admissionVars, activeVars, stop,
                 lastSuccess, apc, wpc>>
  /\ OwnerFrame

\* Drop, from any place where the monitor loop may return.
OStop ==
  /\ opc = "running"
  /\ stop' = TRUE
  /\ OwnerGoto("close")
  /\ UNCHANGED <<backlog, sock, queueVars, admissionVars, activeVars,
                 stateVars, apc, wpc>>
  /\ OwnerFrame

OCloseBegin ==
  /\ opc = "close"
  /\ CloseBegin(Owner)
  /\ OwnerGoto("drain")
  /\ UNCHANGED acceptorVars

OCloseEnd ==
  /\ opc = "drain"
  /\ CloseNotify(Owner)
  /\ OwnerGoto(IF stop THEN "shutdownActive" ELSE "joinFailed")
  /\ UNCHANGED <<backlog, sock, acceptorVars>>

\* ActiveConnections::shutdown_all
OShutdownActive ==
  /\ opc = "shutdownActive"
  /\ activeClosed' = TRUE
  /\ sock' = [c \in Conns |-> IF c \in streams THEN "shut" ELSE sock[c]]
  /\ streams' = {}
  /\ OwnerGoto("joinAcceptor")
  /\ UNCHANGED <<backlog, queueVars, admissionVars, stop, stateVars, apc, wpc>>
  /\ OwnerFrame

\* Seeded fault: Drop does not join the acceptor.
OSkipAcceptor ==
  /\ opc = "joinAcceptor"
  /\ OwnerGoto("joinWorkers")
  /\ UNCHANGED <<backlog, sock, queueVars, admissionVars, activeVars, stop,
                 stateVars, apc, wpc>>
  /\ OwnerFrame

OJoinAcceptor ==
  /\ opc = "joinAcceptor" /\ apc = "done"
  /\ OwnerGoto("joinWorkers")
  /\ UNCHANGED <<backlog, sock, queueVars, admissionVars, activeVars, stop,
                 stateVars, apc, wpc>>
  /\ OwnerFrame

\* Seeded fault: Drop does not join the workers.
OSkipWorkers ==
  /\ opc \in {"joinWorkers", "joinFailed"}
  /\ OwnerGoto(IF opc = "joinWorkers" THEN "gone" ELSE "failed")
  /\ backlog' = <<>>
  /\ sock' = [c \in Conns |-> IF sock[c] = "backlog" THEN "free" ELSE sock[c]]
  /\ UNCHANGED <<queueVars, admissionVars, activeVars, stop, stateVars,
                 apc, wpc>>
  /\ OwnerFrame

\* join_all over the workers that were spawned; on the start failure path
\* the listener is dropped when start_server returns.
OJoinWorkers ==
  /\ opc \in {"joinWorkers", "joinFailed"}
  /\ \A w \in Workers : wpc[w] \in {"done", "unborn"}
  /\ OwnerGoto(IF opc = "joinWorkers" THEN "gone" ELSE "failed")
  /\ backlog' = <<>>
  /\ sock' = [c \in Conns |-> IF sock[c] = "backlog" THEN "free" ELSE sock[c]]
  /\ UNCHANGED <<queueVars, admissionVars, activeVars, stop, stateVars,
                 apc, wpc>>
  /\ OwnerFrame

\* What the owner does without waiting for a caller.
OwnerStep ==
  \/ \E w \in Workers : OSpawnWorker(w)
  \/ OSpawnAcceptor \/ OSetReportEnd
  \/ OCloseBegin \/ CloseDropHead(Owner) \/ OCloseEnd
  \/ OShutdownActive \/ OJoinAcceptor \/ OJoinWorkers

\* Nothing is left to run: the only place where the system may stop.
Finished == opc \in {"gone", "failed"} /\ UNCHANGED vars

Next ==
  \/ \E c \in Conns : Connect(c)
  \/ AcceptorStep
  \/ \E w \in Workers : WorkerStep(w) \/ SpuriousWakeup(w)
  \/ OwnerStep \/ OSpawnFails \/ OSetReportBegin \/ OStop
  \/ Finished

(* Fairness: every thread is scheduled; sockets have absolute deadlines so *)
(* a client cannot hold a read or a write back.  accept() is not           *)
(* interrupted for ever while a connection is waiting.  Nothing is assumed *)
(* of clients, of the monitor loop or of failures.                         *)
Fairness ==
  /\ WF_vars(AcceptorStep)
  /\ SF_vars(AAccept \/ AConfigureFails \/ AAcceptError)
  /\ \A w \in Workers : WF_vars(WorkerStep(w))
  /\ WF_vars(OwnerStep)

Spec == Init /\ [][Next]_vars
FairSpec == Spec /\ Fairness

-----------------------------------------------------------------------------
(* Properties.                                                             *)

\* Every variable has its type.
TypeOK ==
  /\ backlog \in Seq(Conns)
  /\ sock \in [Conns -> SockStates]
  /\ queue \in Seq(Conns) /\ closed \in BOOLEAN
  /\ qlock \in {Free, Acceptor, Owner}
  /\ counts \in [IPs -> Nat] /\ permits \subseteq Conns
  /\ streams \subseteq Conns /\ activeClosed \in BOOLEAN
  /\ stop \in BOOLEAN
  /\ lastSuccess \in 0..MaxReport /\ report \in 0..MaxReport
  /\ apc \in AcceptorPlaces /\ ac \in Conns \cup {NoConn}
  /\ wpc \in [Workers -> WorkerPlaces]
  /\ wc \in [Workers -> Conns \cup {NoConn}]
  /\ seen \in [Workers -> (0..MaxReport) \X (0..MaxReport)]
  /\ opc \in OwnerPlaces

\* The admission table always agrees with the permits that are alive, so a
\* refusal, a full queue, a shutdown and every error path give back exactly
\* what they took (Admission, AdmissionPermit::drop).
CountsMatchPermits ==
  \A ip \in IPs : counts[ip] = Cardinality(OfPeer(permits, ip))

\* "No more than two active-or-queued connections per peer IP": counted over
\* the open streams themselves, the one the acceptor is about to refuse or
\* has not yet admitted aside.  It needs the stream to be closed before its
\* permit is released.
Undecided(c) == apc \in {"acquire", "refuse"} /\ ac = c
PeerLimit ==
  \A ip \in IPs :
    Cardinality({c \in OfPeer(Conns, ip) :
                   sock[c] \in {"open", "shut"} /\ ~Undecided(c)}) <= MaxPerIP

\* Once shutdown_all has run, no handler is left on a live stream: neither
\* one registered before it nor one that popped its connection before the
\* queue was closed and registers afterwards.
ShutdownReachesHandlers ==
  activeClosed =>
    \A w \in Workers : wpc[w] \in Handling => sock[wc[w]] = "shut"

\* When Drop (or a failed start) has returned there is no stream, permit,
\* registration or queued connection left and every thread has ended.
NothingOutlivesOwner ==
  opc \in {"gone", "failed"} =>
    /\ queue = <<>> /\ permits = {} /\ streams = {}
    /\ \A c \in Conns : sock[c] = "free"
    /\ \A ip \in IPs : counts[ip] = 0
    /\ apc \in {"done", "unborn"}
    /\ \A w \in Workers : wpc[w] \in {"done", "unborn"}

\* A response never mixes the timestamp of one report with the body of
\* another.
SnapshotsAtomic ==
  \A w \in Workers : wpc[w] = "respond" => seen[w][1] = seen[w][2]

\* Drop returns: no thread waits for another for ever.
DropReturns == opc = "close" ~> opc \in {"gone", "failed"}

\* Every connection in the backlog is accepted or reset.
BacklogDrains ==
  \A c \in Conns : sock[c] = "backlog" ~> sock[c] # "backlog"

\* The exporter implements the bounded server: connections carrying a permit
\* are the admitted ones, start and service are "up", and the owner's return
\* from Drop (or from a failed start) is "down".
Server == INSTANCE BoundedServer WITH
  admitted <- permits,
  phase <- IF opc \in {"spawn", "running", "publish"} THEN "up"
           ELSE IF opc \in {"gone", "failed"} THEN "down" ELSE "stopping",
  Capacity <- Cardinality(Workers) + QueueCapacity + 1

ImplementsBoundedServer == Server!SSpec
=============================================================================
