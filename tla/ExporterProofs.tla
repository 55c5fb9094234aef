--------------------------- MODULE ExporterProofs ---------------------------
(***************************************************************************)
(* Proofs about Exporter, for every set of connections, peers and workers  *)
(* and every limit: type correctness, the agreement of the admission table *)
(* with the permits that are alive, the limit on the open connections of a *)
(* peer, what a shutdown reaches and leaves behind, the atomicity of the   *)
(* published report, and that every step is one of BoundedServer or leaves *)
(* its variables alone.  And about HttpRequest, for every request, however *)
(* it is cut, and every limit: it is answered for what it is.              *)
(***************************************************************************)
EXTENDS Exporter, Integers, FiniteSetTheorems, SequenceTheorems, TLAPS

Deciding == {"acquire", "refuse"}

\* The acceptor and each worker hold a connection exactly where the code has
\* one in a local variable.
HeldTyped ==
  /\ apc \in Deciding \cup AcceptorPermit => ac \in Conns
  /\ \A w \in Workers : wpc[w] \in WorkerPermit => wc[w] \in Conns
  /\ opc = "spawn" => apc = "unborn"

-----------------------------------------------------------------------------
(* Sequences.                                                              *)

\* Append adds one element at the end and keeps the others in place.
LEMMA AppendFacts ==
  ASSUME NEW S, NEW s \in Seq(S), NEW e \in S
  PROVE  /\ Append(s, e) \in Seq(S)
         /\ Len(Append(s, e)) = Len(s) + 1
         /\ \A i \in 1..Len(s) : Append(s, e)[i] = s[i]
         /\ Append(s, e)[Len(s) + 1] = e
  OBVIOUS

\* The head of a non-empty sequence is its first element, the tail the rest.
LEMMA TailFacts ==
  ASSUME NEW S, NEW s \in Seq(S), s # <<>>
  PROVE  /\ Head(s) \in S /\ Head(s) = s[1] /\ 1 \in 1..Len(s)
         /\ Tail(s) \in Seq(S)
         /\ Len(Tail(s)) = Len(s) - 1
         /\ \A i \in 1..Len(Tail(s)) : i + 1 \in 1..Len(s) /\ Tail(s)[i] = s[i + 1]
  OBVIOUS

-----------------------------------------------------------------------------
(* Type correctness.                                                       *)

TypeInv == TypeOK /\ HeldTyped

\* Releasing a permit keeps the types of what it changes.
LEMMA ReleaseType ==
  ASSUME counts \in [IPs -> Nat], permits \subseteq Conns,
         sock \in [Conns -> SockStates], NEW c \in Conns, Release(c)
  PROVE  /\ counts' \in [IPs -> Nat]
         /\ permits' \subseteq Conns
         /\ sock' \in [Conns -> SockStates]
<1>1. counts' = [counts EXCEPT ![Peer[c]] =
                   IF counts[Peer[c]] = 0 THEN 0 ELSE counts[Peer[c]] - 1]
  BY DEF Release
<1>2. Peer[c] \in IPs BY PeerAssumption
<1>3. counts[Peer[c]] \in Nat BY <1>2
<1>4. (IF counts[Peer[c]] = 0 THEN 0 ELSE counts[Peer[c]] - 1) \in Nat BY <1>3
<1> QED BY <1>1, <1>2, <1>4 DEF Release, SockStates

\* A notification only moves workers out of the wait set.
LEMMA NotifyType ==
  ASSUME wpc \in [Workers -> WorkerPlaces], NotifyOne \/ NotifyAll
  PROVE  /\ wpc' \in [Workers -> WorkerPlaces]
         /\ \A w \in Workers : \/ wpc'[w] = wpc[w]
                               \/ wpc[w] = "wait" /\ wpc'[w] = "pop"
<1>1. CASE NotifyOne
  BY <1>1 DEF NotifyOne, Waiting, WorkerPlaces, Handling
<1>2. CASE NotifyAll
  BY <1>2 DEF NotifyAll, WorkerPlaces, Handling
<1> QED BY <1>1, <1>2

\* The initial state is well typed.
LEMMA InitTypeInv == Init => TypeInv
<1> SUFFICES ASSUME Init PROVE TypeInv OBVIOUS
<1>1. 0 \in Nat /\ 0 \in 0..MaxReport BY BoundsAssumption
<1>2. <<>> \in Seq(Conns) OBVIOUS
<1>3. counts \in [IPs -> Nat] BY <1>1 DEF Init
<1>4. seen \in [Workers -> (0..MaxReport) \X (0..MaxReport)]
  BY <1>1 DEF Init
<1> QED BY <1>1, <1>2, <1>3, <1>4
  DEF Init, TypeInv, TypeOK, HeldTyped, SockStates, AcceptorPlaces,
      WorkerPlaces, OwnerPlaces, Deciding, AcceptorPermit, WorkerPermit,
      Handling, Free, Acceptor, Owner

\* So is the state after a step of the acceptor, action by action.
LEMMA AcceptorTypeInv ==
  ASSUME TypeInv, AcceptorStep PROVE TypeInv'
<1> USE DEF TypeInv, TypeOK, HeldTyped, SockStates, AcceptorPlaces, Deciding,
            AcceptorPermit, Free, Acceptor, Owner
<1> USE DEF AcceptorFrame, AcceptorGoto, SetSock, queueVars, admissionVars,
            activeVars, stateVars, acceptorVars, workerVars
<1>1. CASE ACheckStop BY <1>1 DEF ACheckStop
<1>2. CASE AAccept BY <1>2, TailFacts DEF AAccept
<1>3. CASE AConfigureFails BY <1>3, TailFacts DEF AConfigureFails
<1>4. CASE AAcceptNothing BY <1>4 DEF AAcceptNothing
<1>5. CASE AAcceptError BY <1>5 DEF AAcceptError
<1>6. CASE AAcquire BY <1>6, PeerAssumption DEF AAcquire, TryAcquire
<1>7. CASE AAcquireRefused BY <1>7 DEF AAcquireRefused
<1>8. CASE ARefuse BY <1>8 DEF ARefuse
<1>9. CASE APush
  <2>1. NotifyOne /\ APush BY <1>9 DEF APush
  <2>2. queue' \in Seq(Conns) BY <2>1, AppendFacts DEF APush
  <2> QED BY <2>1, <2>2, NotifyType DEF APush, WorkerPermit, Handling
<1>10. CASE APushRefused BY <1>10 DEF APushRefused
<1>11. CASE ARejectFull BY <1>11 DEF ARejectFull
<1>12. CASE ADropLate BY <1>12 DEF ADropLate
<1>13. CASE ARelease BY <1>13, ReleaseType DEF ARelease
<1>14. CASE ACloseBegin BY <1>14 DEF ACloseBegin, CloseBegin
<1>15. CASE CloseDropHead(Acceptor)
  BY <1>15, TailFacts, ReleaseType DEF CloseDropHead
<1>16. CASE ACloseEnd
  BY <1>16
  DEF ACloseEnd, CloseNotify, NotifyAll, WorkerPlaces, WorkerPermit, Handling
<1> QED BY <1>1, <1>2, <1>3, <1>4, <1>5, <1>6, <1>7, <1>8, <1>9, <1>10,
           <1>11, <1>12, <1>13, <1>14, <1>15, <1>16 DEF AcceptorStep

\* After a step of a worker.
LEMMA WorkerTypeInv ==
  ASSUME TypeInv, NEW w \in Workers, WorkerStep(w) \/ SpuriousWakeup(w)
  PROVE  TypeInv'
<1> USE DEF TypeInv, TypeOK, HeldTyped, SockStates, WorkerPlaces,
            WorkerPermit, Handling
<1> USE DEF WorkerFrame, WorkerGoto, SetSock, queueVars, admissionVars,
            activeVars, stateVars, acceptorVars
<1>1. CASE WPop(w) BY <1>1, TailFacts DEF WPop
<1>2. CASE WPopEmpty(w) BY <1>2 DEF WPopEmpty
<1>3. CASE SpuriousWakeup(w) BY <1>3 DEF SpuriousWakeup
<1>4. CASE WRegister(w) BY <1>4 DEF WRegister
<1>5. CASE WRegisterFails(w) BY <1>5 DEF WRegisterFails
<1>6. CASE WRead(w) BY <1>6 DEF WRead
<1>7. CASE WRoute(w) BY <1>7 DEF WRoute
<1>8. CASE WRespond(w) BY <1>8, BoundsAssumption DEF WRespond
<1>9. CASE WShut(w) BY <1>9 DEF WShut
<1>10. CASE WUnregister(w) BY <1>10 DEF WUnregister
<1>11. CASE WClose(w) BY <1>11 DEF WClose
<1>12. CASE WRelease(w) BY <1>12, ReleaseType DEF WRelease
<1> QED BY <1>1, <1>2, <1>3, <1>4, <1>5, <1>6, <1>7, <1>8, <1>9, <1>10,
           <1>11, <1>12 DEF WorkerStep

\* After a step of the owner within start and Drop.
LEMMA OwnerTypeInv ==
  ASSUME TypeInv, OwnerStep \/ OSpawnFails \/ OSetReportBegin \/ OStop
  PROVE  TypeInv'
<1> USE DEF TypeInv, TypeOK, HeldTyped, SockStates, OwnerPlaces,
            AcceptorPlaces, Deciding, AcceptorPermit, WorkerPlaces,
            WorkerPermit, Handling, Free, Acceptor, Owner
<1> USE DEF OwnerFrame, OwnerGoto, queueVars, admissionVars, activeVars,
            stateVars, acceptorVars, workerVars
<1>1. CASE \E w \in Workers : OSpawnWorker(w) BY <1>1 DEF OSpawnWorker
<1>2. CASE OSpawnAcceptor BY <1>2 DEF OSpawnAcceptor
<1>3. CASE OSpawnFails BY <1>3 DEF OSpawnFails
<1>4. CASE OSetReportBegin BY <1>4, BoundsAssumption DEF OSetReportBegin
<1>5. CASE OSetReportEnd BY <1>5 DEF OSetReportEnd
<1>6. CASE OStop BY <1>6 DEF OStop
<1>7. CASE OCloseBegin BY <1>7 DEF OCloseBegin, CloseBegin
<1>8. CASE CloseDropHead(Owner) 
  BY <1>8, TailFacts, ReleaseType DEF CloseDropHead
<1>9. CASE OCloseEnd BY <1>9 DEF OCloseEnd, CloseNotify, NotifyAll
<1>10. CASE OShutdownActive BY <1>10 DEF OShutdownActive
<1>11. CASE OJoinAcceptor BY <1>11 DEF OJoinAcceptor
<1>12. CASE OJoinWorkers BY <1>12 DEF OJoinWorkers
<1> QED BY <1>1, <1>2, <1>3, <1>4, <1>5, <1>6, <1>7, <1>8, <1>9, <1>10,
           <1>11, <1>12 DEF OwnerStep

\* After any step: types and held connections are inductive.
LEMMA NextTypeInv == TypeInv /\ [Next]_vars => TypeInv'
<1> SUFFICES ASSUME TypeInv, [Next]_vars PROVE TypeInv'
  OBVIOUS
<1>1. CASE \E c \in Conns : Connect(c)
  <2> PICK c \in Conns : Connect(c) BY <1>1
  <2> QED BY AppendFacts
          DEF Connect, SetSock, TypeInv, TypeOK, HeldTyped, SockStates,
              queueVars, admissionVars, activeVars, stateVars, acceptorVars,
              workerVars
<1>2. CASE AcceptorStep BY <1>2, AcceptorTypeInv
<1>3. CASE \E w \in Workers : WorkerStep(w) \/ SpuriousWakeup(w)
  BY <1>3, WorkerTypeInv
<1>4. CASE OwnerStep \/ OSpawnFails \/ OSetReportBegin \/ OStop
  BY <1>4, OwnerTypeInv
<1>5. CASE Finished \/ UNCHANGED vars
  BY <1>5 DEF Finished, vars, TypeInv, TypeOK, HeldTyped, queueVars,
     admissionVars, activeVars, stateVars, acceptorVars, workerVars
<1> QED BY <1>1, <1>2, <1>3, <1>4, <1>5 DEF Next

\* Every reachable state is well typed, with nothing held where the code has
\* no connection.
THEOREM TypeCorrect == Spec => []TypeOK
<1>1. Init => TypeInv BY InitTypeInv
<1>2. TypeInv /\ [Next]_vars => TypeInv' BY NextTypeInv
<1>3. TypeInv => TypeOK BY DEF TypeInv
<1> QED BY <1>1, <1>2, <1>3, PTL DEF Spec

-----------------------------------------------------------------------------
(* Ownership: every admitted connection has one holder.                    *)

\* Elements of the queue are admitted and pairwise distinct.
QueueOwns ==
  /\ \A i \in 1..Len(queue) : queue[i] \in permits
  /\ \A i, j \in 1..Len(queue) : i # j => queue[i] # queue[j]

\* So are the connections the workers hold, none of them queued.
WorkersOwn ==
  /\ \A w \in Workers : wpc[w] \in WorkerPermit => wc[w] \in permits
  /\ \A v, w \in Workers :
       v # w /\ wpc[v] \in WorkerPermit /\ wpc[w] \in WorkerPermit
         => wc[v] # wc[w]
  /\ \A w \in Workers, i \in 1..Len(queue) :
       wpc[w] \in WorkerPermit => queue[i] # wc[w]

\* And the acceptor's connection once it is admitted.
AcceptorOwns ==
  apc \in AcceptorPermit =>
    /\ ac \in permits
    /\ \A i \in 1..Len(queue) : queue[i] # ac
    /\ \A w \in Workers : wpc[w] \in WorkerPermit => wc[w] # ac

\* A connection the acceptor is still deciding about has no permit yet.
DecidingInv == apc \in Deciding => ac \notin permits /\ sock[ac] = "open"

\* The backlog lists the connections in that state, once each, unadmitted.
BacklogInv ==
  /\ \A i \in 1..Len(backlog) : sock[backlog[i]] = "backlog"
  /\ \A i, j \in 1..Len(backlog) : i # j => backlog[i] # backlog[j]
  /\ \A c \in Conns : sock[c] = "backlog" => c \notin permits

\* Registered streams belong to connections being handled.
StreamsInv ==
  \A c \in streams : \E w \in Workers : wpc[w] \in Handling /\ wc[w] = c

\* An accepted stream is admitted or being decided about.
SockInv ==
  \A c \in Conns : sock[c] \in {"open", "shut", "closed"}
                     => c \in permits \/ Undecided(c)

Ownership == /\ QueueOwns /\ WorkersOwn /\ AcceptorOwns /\ DecidingInv
             /\ BacklogInv /\ StreamsInv /\ SockInv

\* The admission table counts the permits and respects the limit.
CountsInv ==
  \A ip \in IPs : /\ counts[ip] = Cardinality(OfPeer(permits, ip))
                   /\ counts[ip] <= MaxPerIP

IInv == TypeInv /\ Ownership /\ CountsInv

\* Nobody owns a connection at the start.
LEMMA InitOwnership == Init => Ownership
  BY DEF Init, Ownership, QueueOwns, WorkersOwn, AcceptorOwns, DecidingInv,
         BacklogInv, StreamsInv, SockInv, Undecided, WorkerPermit, Handling,
         AcceptorPermit, Deciding

\* Steps that leave the connections where they are keep the ownership: the
\* shared state is the same and no thread enters or leaves the places where
\* it holds a connection.
LEMMA OwnershipFrame ==
  ASSUME Ownership,
         UNCHANGED <<backlog, sock, queue, permits, streams, wc, ac>>,
         \A w \in Workers : /\ wpc'[w] \in WorkerPermit <=> wpc[w] \in WorkerPermit
                            /\ wpc'[w] \in Handling <=> wpc[w] \in Handling,
         apc' \in AcceptorPermit <=> apc \in AcceptorPermit,
         apc' \in Deciding <=> apc \in Deciding
  PROVE  Ownership'
<1>1. QueueOwns' BY DEF Ownership, QueueOwns
<1>2. WorkersOwn' BY DEF Ownership, WorkersOwn
<1>3. AcceptorOwns' BY DEF Ownership, AcceptorOwns
<1>4. DecidingInv' BY DEF Ownership, DecidingInv
<1>5. BacklogInv' BY DEF Ownership, BacklogInv
<1>6. StreamsInv' BY DEF Ownership, StreamsInv
<1>7. SockInv' BY DEF Ownership, SockInv, Undecided, Deciding
<1> QED BY <1>1, <1>2, <1>3, <1>4, <1>5, <1>6, <1>7 DEF Ownership

\* Appending an admitted connection that is not queued.
LEMMA AppendOwns ==
  ASSUME QueueOwns, queue \in Seq(Conns), NEW c \in Conns, c \in permits,
         \A i \in 1..Len(queue) : queue[i] # c,
         queue' = Append(queue, c), permits' = permits
  PROVE  QueueOwns'
<1>1. /\ Len(queue') = Len(queue) + 1 /\ Len(queue) \in Nat
      /\ \A i \in 1..Len(queue) : queue'[i] = queue[i]
      /\ queue'[Len(queue) + 1] = c
  BY AppendFacts
<1>2. \A i \in 1..Len(queue') : i \in 1..Len(queue) \/ i = Len(queue) + 1
  BY <1>1
<1> QED BY <1>1, <1>2 DEF QueueOwns

\* Taking the head leaves the rest distinct from it.
LEMMA TailOwns ==
  ASSUME QueueOwns, queue \in Seq(Conns), queue # <<>>, queue' = Tail(queue)
  PROVE  /\ \A i \in 1..Len(queue') : queue'[i] # Head(queue)
         /\ \A i \in 1..Len(queue') :
              i + 1 \in 1..Len(queue) /\ queue'[i] = queue[i + 1]
         /\ permits' = permits => QueueOwns'
<1>1. /\ Head(queue) = queue[1] /\ 1 \in 1..Len(queue)
      /\ \A i \in 1..Len(queue') :
           i + 1 \in 1..Len(queue) /\ queue'[i] = queue[i + 1]
  BY TailFacts
<1>2. \A i \in 1..Len(queue') : i \in Int /\ i + 1 # 1 BY <1>1, TailFacts
<1>3. \A i, j \in 1..Len(queue') : i # j => i + 1 # j + 1 BY <1>2
<1> QED BY <1>1, <1>2, <1>3 DEF QueueOwns

\* The acceptor takes a connection from the backlog, and hands it to the queue
\* or gives it up.
LEMMA AcceptorOwnership ==
  ASSUME TypeInv, Ownership, AcceptorStep PROVE Ownership'
<1> USE DEF TypeInv, TypeOK, HeldTyped, Ownership, QueueOwns, WorkersOwn,
            AcceptorOwns, DecidingInv, BacklogInv, StreamsInv, SockInv,
            Undecided, Deciding, AcceptorPermit, SockStates
<1> USE DEF AcceptorFrame, AcceptorGoto, SetSock, queueVars, admissionVars,
            activeVars, stateVars, acceptorVars, workerVars
<1>1. CASE ACheckStop BY <1>1 DEF ACheckStop
<1>2. CASE AAccept BY <1>2, TailFacts DEF AAccept
<1>3. CASE AConfigureFails BY <1>3, TailFacts DEF AConfigureFails
<1>4. CASE AAcceptNothing BY <1>4 DEF AAcceptNothing
<1>5. CASE AAcceptError BY <1>5 DEF AAcceptError
<1>6. CASE AAcquire BY <1>6 DEF AAcquire, TryAcquire
<1>7. CASE AAcquireRefused BY <1>7 DEF AAcquireRefused
<1>8. CASE ARefuse BY <1>8 DEF ARefuse
<1>9. CASE APush
  <2>1. /\ Len(queue') = Len(queue) + 1
        /\ \A i \in 1..Len(queue) : queue'[i] = queue[i]
        /\ queue'[Len(queue) + 1] = ac
    BY <1>9, AppendFacts DEF APush
  <2>2. \A w \in Workers :
          wpc'[w] = wpc[w] \/ (wpc[w] = "wait" /\ wpc'[w] = "pop")
    <3>1. NotifyOne BY <1>9 DEF APush
    <3> HIDE DEF Ownership
    <3> QED BY <3>1, NotifyType
  <2>3. /\ UNCHANGED <<backlog, sock, permits, streams, wc>>
        /\ apc = "push" /\ apc' = "check"
    BY <1>9 DEF APush
  <2>4. Len(queue) \in Nat /\ ac \in permits BY <2>3
  <2>5. QueueOwns'
    <3>1. queue' = Append(queue, ac) BY <1>9 DEF APush
    <3>2. \A i \in 1..Len(queue) : queue[i] # ac BY <2>3
    <3> HIDE DEF Ownership, QueueOwns
    <3> QED BY <3>1, <3>2, <2>3, <2>4, AppendOwns DEF Ownership
  <2>6. WorkersOwn'
    <3>1. \A w \in Workers : wpc'[w] \in WorkerPermit <=> wpc[w] \in WorkerPermit
      BY <2>2 DEF WorkerPermit, Handling
    <3>2. \A i \in 1..Len(queue') : i \in 1..Len(queue) \/ queue'[i] = ac
      BY <2>1, <2>4
    <3>3. \A w \in Workers, i \in 1..Len(queue') :
            wpc[w] \in WorkerPermit => queue'[i] # wc[w]
      BY <2>1, <2>3, <3>2
    <3> QED BY <2>3, <3>1, <3>3
  <2>7. AcceptorOwns' /\ DecidingInv' /\ BacklogInv' BY <2>3
  <2>8. StreamsInv' BY <2>2, <2>3 DEF Handling
  <2>9. SockInv' BY <2>3
  <2> QED BY <2>5, <2>6, <2>7, <2>8, <2>9
<1>10. CASE APushRefused BY <1>10 DEF APushRefused
<1>11. CASE ARejectFull
  <2>1. QueueOwns' /\ WorkersOwn' /\ StreamsInv' BY <1>11 DEF ARejectFull
  <2>2. AcceptorOwns' /\ DecidingInv' BY <1>11 DEF ARejectFull
  <2>3. BacklogInv' BY <1>11 DEF ARejectFull
  <2>4. SockInv' BY <1>11 DEF ARejectFull
  <2> QED BY <2>1, <2>2, <2>3, <2>4
<1>12. CASE ADropLate BY <1>12 DEF ADropLate
<1>13. CASE ARelease BY <1>13 DEF ARelease, Release
<1>14. CASE ACloseBegin BY <1>14 DEF ACloseBegin, CloseBegin
<1>15. CASE CloseDropHead(Acceptor)
  BY <1>15, TailFacts DEF CloseDropHead, Release
<1>16. CASE ACloseEnd
  <2>1. \A w \in Workers :
          wpc'[w] = wpc[w] \/ (wpc[w] = "wait" /\ wpc'[w] = "pop")
    <3>1. NotifyAll BY <1>16 DEF ACloseEnd, CloseNotify
    <3> HIDE DEF Ownership
    <3> QED BY <3>1, NotifyType
  <2>2. UNCHANGED <<queue, permits, streams, wc, ac>>
    BY <1>16 DEF ACloseEnd, CloseNotify
  <2>3. QueueOwns' /\ AcceptorOwns' /\ DecidingInv' BY <1>16, <2>2 DEF ACloseEnd
  <2>4. WorkersOwn'
    <3>1. \A w \in Workers : wpc'[w] \in WorkerPermit => wpc[w] \in WorkerPermit
      BY <2>1 DEF WorkerPermit, Handling
    <3>2. queue' = queue /\ permits' = permits /\ wc' = wc BY <2>2
    <3>3. WorkersOwn BY DEF Ownership
    <3> HIDE DEF Ownership
    <3> QED BY <3>1, <3>2, <3>3
  <2>5. BacklogInv' BY <1>16, <2>2 DEF ACloseEnd
  <2>6. StreamsInv' BY <2>1, <2>2 DEF Handling
  <2>7. SockInv' BY <1>16, <2>2 DEF ACloseEnd
  <2> QED BY <2>3, <2>4, <2>5, <2>6, <2>7
<1> QED BY <1>1, <1>2, <1>3, <1>4, <1>5, <1>6, <1>7, <1>8, <1>9, <1>10,
           <1>11, <1>12, <1>13, <1>14, <1>15, <1>16 DEF AcceptorStep

\* A worker takes the head of the queue and keeps it until it is released.
LEMMA WorkerOwnership ==
  ASSUME TypeInv, Ownership,
         NEW w \in Workers, WorkerStep(w) \/ SpuriousWakeup(w)
  PROVE  Ownership'
<1> USE DEF TypeInv, TypeOK, HeldTyped, Ownership, QueueOwns, WorkersOwn,
            AcceptorOwns, DecidingInv, BacklogInv, StreamsInv, SockInv,
            Undecided, Deciding, AcceptorPermit, SockStates, WorkerPermit,
            Handling
<1> USE DEF WorkerFrame, WorkerGoto, SetSock, queueVars, admissionVars,
            activeVars, stateVars, acceptorVars
<1>1. CASE WPop(w)
  <2>1. /\ 1 \in 1..Len(queue) /\ wc' = [wc EXCEPT ![w] = queue[1]]
        /\ Len(queue') = Len(queue) - 1
        /\ \A i \in 1..Len(queue') : i + 1 \in 1..Len(queue) /\ queue'[i] = queue[i + 1]
    BY <1>1, TailFacts DEF WPop
  <2>2. wpc[w] = "pop" /\ wpc' = [wpc EXCEPT ![w] = "register"] BY <1>1 DEF WPop
  <2>3. UNCHANGED <<backlog, sock, permits, streams, apc, ac>> BY <1>1 DEF WPop
  <2>4. \A i \in 1..Len(queue') : queue'[i] # queue[1]
    <3>1. queue # <<>> /\ queue' = Tail(queue) BY <1>1 DEF WPop
    <3> HIDE DEF QueueOwns
    <3> QED BY <3>1, TailOwns, TailFacts
  <2>5. QueueOwns'
    <3>1. queue # <<>> /\ queue' = Tail(queue) BY <1>1 DEF WPop
    <3> HIDE DEF QueueOwns
    <3> QED BY <3>1, <2>3, TailOwns
  <2>6. WorkersOwn' BY <2>1, <2>2, <2>3, <2>4
  <2>7. AcceptorOwns' /\ DecidingInv' BY <2>1, <2>2, <2>3
  <2>8. BacklogInv' /\ SockInv' BY <2>3
  <2>9. StreamsInv' BY <2>1, <2>2, <2>3
  <2> QED BY <2>5, <2>6, <2>7, <2>8, <2>9
<1>2. CASE WPopEmpty(w) BY <1>2, OwnershipFrame DEF WPopEmpty
<1>3. CASE SpuriousWakeup(w) BY <1>3, OwnershipFrame DEF SpuriousWakeup
<1>4. CASE WRegister(w) BY <1>4 DEF WRegister
<1>5. CASE WRegisterFails(w)
  <2>1. QueueOwns'
    <3>1. UNCHANGED <<queue, permits>> BY <1>5 DEF WRegisterFails
    <3> QED BY <3>1
  <2>6. WorkersOwn' BY <1>5 DEF WRegisterFails
  <2>2. AcceptorOwns' /\ DecidingInv' BY <1>5 DEF WRegisterFails
  <2>3. BacklogInv' BY <1>5 DEF WRegisterFails
  <2>4. StreamsInv' BY <1>5 DEF WRegisterFails
  <2>5. SockInv' BY <1>5 DEF WRegisterFails
  <2> QED BY <2>1, <2>6, <2>2, <2>3, <2>4, <2>5
<1>6. CASE WRead(w) BY <1>6 DEF WRead
<1>7. CASE WRoute(w) BY <1>7 DEF WRoute
<1>8. CASE WRespond(w) BY <1>8 DEF WRespond
<1>9. CASE WShut(w) BY <1>9 DEF WShut
<1>10. CASE WUnregister(w) BY <1>10 DEF WUnregister
<1>11. CASE WClose(w)
  <2>1. QueueOwns' /\ WorkersOwn' BY <1>11 DEF WClose
  <2>2. AcceptorOwns' /\ DecidingInv' BY <1>11 DEF WClose
  <2>3. BacklogInv' BY <1>11 DEF WClose
  <2>4. StreamsInv' BY <1>11 DEF WClose
  <2>5. SockInv' BY <1>11 DEF WClose
  <2> QED BY <2>1, <2>2, <2>3, <2>4, <2>5
<1>12. CASE WRelease(w)
  <2>1. wc[w] \in permits /\ permits' = permits \ {wc[w]}
    BY <1>12 DEF WRelease, Release
  <2>2. wc[w] \notin streams BY <1>12 DEF WRelease
  <2>3. QueueOwns' BY <1>12, <2>1 DEF WRelease
  <2>4. WorkersOwn' BY <1>12, <2>1 DEF WRelease
  <2>5. AcceptorOwns' /\ DecidingInv' BY <1>12, <2>1 DEF WRelease, Release
  <2>6. BacklogInv' BY <1>12, <2>1 DEF WRelease, Release
  <2>7. StreamsInv' BY <1>12, <2>2 DEF WRelease
  <2>8. SockInv' BY <1>12, <2>1 DEF WRelease, Release
  <2> QED BY <2>3, <2>4, <2>5, <2>6, <2>7, <2>8
<1> QED BY <1>1, <1>2, <1>3, <1>4, <1>5, <1>6, <1>7, <1>8, <1>9, <1>10,
           <1>11, <1>12 DEF WorkerStep

\* The owner drops queued connections and registered streams.
LEMMA OwnerOwnership ==
  ASSUME TypeInv, Ownership,
         OwnerStep \/ OSpawnFails \/ OSetReportBegin \/ OStop
  PROVE  Ownership'
<1> USE DEF TypeInv, TypeOK, HeldTyped, Ownership, QueueOwns, WorkersOwn,
            AcceptorOwns, DecidingInv, BacklogInv, StreamsInv, SockInv,
            Undecided, Deciding, AcceptorPermit, SockStates, WorkerPermit,
            Handling
<1> USE DEF OwnerFrame, OwnerGoto, queueVars, admissionVars, activeVars,
            stateVars, acceptorVars, workerVars
<1>1. CASE \E w \in Workers : OSpawnWorker(w) BY <1>1 DEF OSpawnWorker
<1>2. CASE OSpawnAcceptor BY <1>2, OwnershipFrame DEF OSpawnAcceptor
<1>3. CASE OSpawnFails BY <1>3 DEF OSpawnFails
<1>4. CASE OSetReportBegin BY <1>4 DEF OSetReportBegin
<1>5. CASE OSetReportEnd BY <1>5, OwnershipFrame DEF OSetReportEnd
<1>6. CASE OStop BY <1>6, OwnershipFrame DEF OStop
<1>7. CASE OCloseBegin BY <1>7, OwnershipFrame DEF OCloseBegin, CloseBegin
<1>8. CASE CloseDropHead(Owner)
  BY <1>8, TailFacts DEF CloseDropHead, Release
<1>9. CASE OCloseEnd
  <2>1. \A w \in Workers :
          wpc'[w] = wpc[w] \/ (wpc[w] = "wait" /\ wpc'[w] = "pop")
    <3>1. NotifyAll BY <1>9 DEF OCloseEnd, CloseNotify
    <3> HIDE DEF Ownership
    <3> QED BY <3>1, NotifyType
  <2> QED BY <1>9, <2>1, OwnershipFrame DEF OCloseEnd, CloseNotify
<1>10. CASE OShutdownActive BY <1>10 DEF OShutdownActive
<1>11. CASE OJoinAcceptor BY <1>11 DEF OJoinAcceptor
<1>12. CASE OJoinWorkers BY <1>12 DEF OJoinWorkers
<1> QED BY <1>1, <1>2, <1>3, <1>4, <1>5, <1>6, <1>7, <1>8, <1>9, <1>10,
           <1>11, <1>12 DEF OwnerStep

-----------------------------------------------------------------------------
(* Counting: the admission table.                                          *)

\* One permit more counts one more for its peer and no other.
LEMMA AddPermit ==
  ASSUME NEW P, P \subseteq Conns, NEW c \in Conns, c \notin P, NEW ip \in IPs
  PROVE  /\ Cardinality(OfPeer(P, ip)) \in Nat
         /\ Cardinality(OfPeer(P \cup {c}, ip)) =
              IF Peer[c] = ip THEN Cardinality(OfPeer(P, ip)) + 1
              ELSE Cardinality(OfPeer(P, ip))
<1>1. IsFiniteSet(OfPeer(P, ip))
  BY ConnsAssumption, FS_Subset DEF OfPeer
<1>2. CASE Peer[c] = ip
  <2>1. OfPeer(P \cup {c}, ip) = OfPeer(P, ip) \cup {c} BY <1>2 DEF OfPeer
  <2>2. c \notin OfPeer(P, ip) BY DEF OfPeer
  <2> QED BY <1>1, <1>2, <2>1, <2>2, FS_AddElement, FS_CardinalityType
<1>3. CASE Peer[c] # ip
  <2>1. OfPeer(P \cup {c}, ip) = OfPeer(P, ip) BY <1>3 DEF OfPeer
  <2> QED BY <1>1, <1>3, <2>1, FS_CardinalityType
<1> QED BY <1>2, <1>3

\* Admission keeps the table exact and within the limit.
LEMMA TryAcquireCounts ==
  ASSUME TypeOK, CountsInv, NEW c \in Conns, c \notin permits, TryAcquire(c)
  PROVE  CountsInv'
<1> SUFFICES ASSUME NEW ip \in IPs
             PROVE  /\ counts'[ip] = Cardinality(OfPeer(permits', ip))
                    /\ counts'[ip] <= MaxPerIP
  BY DEF CountsInv, OfPeer
<1>1. permits \subseteq Conns /\ counts \in [IPs -> Nat] BY DEF TypeOK
<1>2. permits' = permits \cup {c} BY DEF TryAcquire
<1>3. counts'[ip] = IF Peer[c] = ip THEN counts[ip] + 1 ELSE counts[ip]
  BY <1>1 DEF TryAcquire
<1>4. Peer[c] = ip => counts[ip] < MaxPerIP BY DEF TryAcquire
<1>5. counts[ip] = Cardinality(OfPeer(permits, ip)) /\ counts[ip] <= MaxPerIP
  BY DEF CountsInv
<1> QED BY <1>1, <1>2, <1>3, <1>4, <1>5, AddPermit, BoundsAssumption

\* Release keeps the table exact: the entry it decrements is positive, so the
\* saturating subtraction never saturates.
LEMMA ReleaseCounts ==
  ASSUME TypeOK, CountsInv, NEW c \in Conns, c \in permits, Release(c)
  PROVE  CountsInv'
<1> SUFFICES ASSUME NEW ip \in IPs
             PROVE  /\ counts'[ip] = Cardinality(OfPeer(permits', ip))
                    /\ counts'[ip] <= MaxPerIP
  BY DEF CountsInv, OfPeer
<1> DEFINE P == permits \ {c}
<1>1. P \subseteq Conns /\ c \notin P /\ permits = P \cup {c}
      /\ counts \in [IPs -> Nat]
  BY DEF TypeOK
<1>2. permits' = P BY DEF Release
<1>3. counts[ip] = Cardinality(OfPeer(permits, ip)) /\ counts[ip] <= MaxPerIP
  BY DEF CountsInv
<1>4. /\ Cardinality(OfPeer(P, ip)) \in Nat
      /\ counts[ip] = IF Peer[c] = ip THEN Cardinality(OfPeer(P, ip)) + 1
                      ELSE Cardinality(OfPeer(P, ip))
  <2> HIDE DEF P
  <2> QED BY <1>1, <1>3, AddPermit
<1>5. counts'[ip] = IF Peer[c] = ip
                    THEN IF counts[ip] = 0 THEN 0 ELSE counts[ip] - 1
                    ELSE counts[ip]
  BY <1>1 DEF Release
<1> HIDE DEF P
<1> QED BY <1>2, <1>3, <1>4, <1>5, BoundsAssumption

\* The table is empty at the start.
LEMMA InitCounts == Init => CountsInv
<1> SUFFICES ASSUME Init, NEW ip \in IPs
             PROVE  counts[ip] = Cardinality(OfPeer(permits, ip))
                    /\ counts[ip] <= MaxPerIP
  BY DEF CountsInv
<1>1. OfPeer(permits, ip) = {} BY DEF Init, OfPeer
<1>2. counts[ip] = 0 BY DEF Init
<1> QED BY <1>1, <1>2, FS_EmptySet, BoundsAssumption

\* Only four kinds of step touch the table, each on a connection whose
\* permit the ownership invariant settles.
LEMMA NextCounts ==
  ASSUME TypeInv, Ownership, CountsInv, [Next]_vars PROVE CountsInv'
<1>1. CASE AAcquire
  BY <1>1, TryAcquireCounts
  DEF AAcquire, TypeInv, HeldTyped, Ownership, DecidingInv, Deciding
<1>2. CASE ARelease
  BY <1>2, ReleaseCounts
  DEF ARelease, TypeInv, HeldTyped, Ownership, AcceptorOwns, AcceptorPermit
<1>3. CASE \E w \in Workers : WRelease(w)
  BY <1>3, ReleaseCounts
  DEF WRelease, TypeInv, HeldTyped, Ownership, WorkersOwn, WorkerPermit
<1>4. CASE \E t \in {Acceptor, Owner} : CloseDropHead(t)
  BY <1>4, ReleaseCounts, TailFacts
  DEF CloseDropHead, TypeInv, TypeOK, Ownership, QueueOwns
<1>5. CASE UNCHANGED admissionVars
  BY <1>5 DEF admissionVars, CountsInv, OfPeer
<1>6. AcceptorStep => AAcquire \/ ARelease \/ CloseDropHead(Acceptor)
                        \/ UNCHANGED admissionVars
  BY DEF AcceptorStep, ACheckStop, AAccept, AConfigureFails, AAcceptNothing,
     AAcceptError, AAcquireRefused, ARefuse, APush, APushRefused, ARejectFull,
     ADropLate, ACloseBegin, CloseBegin, ACloseEnd, CloseNotify
<1>7. ASSUME NEW w \in Workers, WorkerStep(w) \/ SpuriousWakeup(w)
      PROVE  WRelease(w) \/ UNCHANGED admissionVars
  BY <1>7
  DEF WorkerStep, SpuriousWakeup, WPop, WPopEmpty, WRegister, WRegisterFails,
      WRead, WRoute, WRespond, WShut, WUnregister, WClose
<1>8. OwnerStep \/ OSpawnFails \/ OSetReportBegin \/ OStop
        => CloseDropHead(Owner) \/ UNCHANGED admissionVars
  BY DEF OwnerStep, OSpawnFails, OSetReportBegin, OStop, OSpawnWorker,
     OSpawnAcceptor, OSetReportEnd, OCloseBegin, CloseBegin, OCloseEnd,
     CloseNotify, OShutdownActive, OJoinAcceptor, OJoinWorkers
<1>9. (\E c \in Conns : Connect(c)) \/ Finished \/ UNCHANGED vars
        => UNCHANGED admissionVars
  BY DEF Connect, Finished, vars, admissionVars
<1> QED BY <1>1, <1>2, <1>3, <1>4, <1>5, <1>6, <1>7, <1>8, <1>9 DEF Next

-----------------------------------------------------------------------------
(* The theorems.                                                           *)

\* Every step moves connections between owners only.
LEMMA NextOwnership == TypeInv /\ Ownership /\ [Next]_vars => Ownership'
<1> SUFFICES ASSUME TypeInv, Ownership, [Next]_vars PROVE Ownership'
  OBVIOUS
<1>1. CASE \E c \in Conns : Connect(c)
  <2> PICK c \in Conns : Connect(c) BY <1>1
  <2>1. /\ UNCHANGED <<queue, permits, streams, apc, ac, wpc, wc>>
        /\ sock[c] = "free" /\ c \notin permits
        /\ sock' = [sock EXCEPT ![c] = "backlog"]
    BY DEF Connect, SetSock, queueVars, admissionVars, activeVars,
           acceptorVars, workerVars
  <2>2. /\ Len(backlog') = Len(backlog) + 1 /\ Len(backlog) \in Nat
        /\ \A i \in 1..Len(backlog) : backlog'[i] = backlog[i]
        /\ backlog'[Len(backlog) + 1] = c
    BY AppendFacts DEF Connect, TypeInv, TypeOK
  <2>3. \A i \in 1..Len(backlog') : i \in 1..Len(backlog) \/ i = Len(backlog) + 1
    BY <2>2
  <2>4. sock \in [Conns -> SockStates] BY DEF TypeInv, TypeOK
  <2>5. QueueOwns' /\ WorkersOwn' /\ AcceptorOwns' /\ StreamsInv'
    BY <2>1 DEF Ownership, QueueOwns, WorkersOwn, AcceptorOwns, StreamsInv
  <2>6. BacklogInv' BY <2>1, <2>2, <2>3, <2>4 DEF Ownership, BacklogInv
  <2>7. DecidingInv'
    BY <2>1, <2>4 DEF Ownership, DecidingInv, TypeInv, HeldTyped
  <2>8. SockInv' BY <2>1, <2>4 DEF Ownership, SockInv, Undecided
  <2> QED BY <2>5, <2>6, <2>7, <2>8 DEF Ownership
<1>2. CASE AcceptorStep BY <1>2, AcceptorOwnership
<1>3. CASE \E w \in Workers : WorkerStep(w) \/ SpuriousWakeup(w)
  BY <1>3, WorkerOwnership
<1>4. CASE OwnerStep \/ OSpawnFails \/ OSetReportBegin \/ OStop
  BY <1>4, OwnerOwnership
<1>5. CASE Finished \/ UNCHANGED vars
  BY <1>5, OwnershipFrame
  DEF Finished, vars, queueVars, admissionVars, activeVars, acceptorVars,
      workerVars
<1> QED BY <1>1, <1>2, <1>3, <1>4, <1>5 DEF Next

\* The invariant that the theorems rest on holds in every reachable state.
THEOREM Invariance == Spec => []IInv
<1>1. Init => IInv
  BY InitTypeInv, InitOwnership, InitCounts DEF IInv
<1>2. IInv /\ [Next]_vars => IInv'
  BY NextTypeInv, NextOwnership, NextCounts DEF IInv
<1> QED BY <1>1, <1>2, PTL DEF Spec

\* The admission table is exact in every reachable state.
THEOREM CountsExact == Spec => []CountsMatchPermits
<1>1. IInv => CountsMatchPermits BY DEF IInv, CountsInv, CountsMatchPermits
<1> QED BY <1>1, Invariance, PTL

\* No peer ever has more than MaxPerIP open connections past admission.
THEOREM PeerLimitHolds == Spec => []PeerLimit
<1>1. ASSUME IInv PROVE PeerLimit
  <2> SUFFICES ASSUME NEW ip \in IPs
      PROVE Cardinality({c \in OfPeer(Conns, ip) :
              sock[c] \in {"open", "shut"} /\ ~Undecided(c)}) <= MaxPerIP
    BY DEF PeerLimit
  <2> DEFINE live == {c \in OfPeer(Conns, ip) :
                        sock[c] \in {"open", "shut"} /\ ~Undecided(c)}
  <2>1. live \subseteq OfPeer(permits, ip)
    BY <1>1 DEF IInv, Ownership, SockInv, OfPeer
  <2>2. IsFiniteSet(OfPeer(permits, ip))
    BY <1>1, ConnsAssumption, FS_Subset DEF IInv, TypeInv, TypeOK, OfPeer
  <2>3. Cardinality(live) <= Cardinality(OfPeer(permits, ip))
        /\ Cardinality(live) \in Nat /\ Cardinality(OfPeer(permits, ip)) \in Nat
    BY <2>1, <2>2, FS_Subset, FS_CardinalityType
  <2>4. Cardinality(OfPeer(permits, ip)) <= MaxPerIP
    BY <1>1 DEF IInv, CountsInv
  <2> QED BY <2>3, <2>4, BoundsAssumption
<1> QED BY <1>1, Invariance, PTL

-----------------------------------------------------------------------------
(* Shutdown: how far the owner, the acceptor and the queue have come.      *)

Started == {"running", "publish"}
Dropping == {"shutdownActive", "joinAcceptor", "joinWorkers", "gone"}
Returned == {"gone", "failed"}

\* The acceptor exists once the start has succeeded, and Drop joins it.
StartInv ==
  /\ opc \in Started \cup Dropping => apc # "unborn"
  /\ opc \in {"joinFailed", "failed"} => apc = "unborn"
  /\ stop <=> opc \notin {"spawn"} \cup Started /\ apc # "unborn"
  /\ opc \in {"joinWorkers", "gone"} => apc = "done"

\* The queue mutex is held across steps by the thread that closes the queue;
\* once a close has notified, nothing is queued any more.
QueueInv ==
  /\ qlock = Owner <=> opc = "drain"
  /\ qlock = Acceptor <=> apc = "drain"
  /\ opc \in {"drain", "joinFailed", "failed"} \cup Dropping => closed
  /\ apc \in {"drain", "done"} => closed
  /\ closed /\ qlock = Free => queue = <<>>
  /\ Len(queue) <= QueueCapacity

\* Every permit is alive in exactly one place: the queue, a worker, the acceptor.
PermitsHeld ==
  \A c \in permits :
    \/ \E i \in 1..Len(queue) : queue[i] = c
    \/ \E w \in Workers : wpc[w] \in WorkerPermit /\ wc[w] = c
    \/ apc \in AcceptorPermit /\ ac = c

\* What shutdown_all leaves: no registration and no live stream being handled.
ActiveInv ==
  /\ activeClosed <=> opc \in {"joinAcceptor", "joinWorkers", "gone"}
  /\ activeClosed => streams = {}
  /\ \A w \in Workers : wpc[w] \in Handling =>
       IF activeClosed THEN sock[wc[w]] = "shut" ELSE wc[w] \in streams

\* What the joins leave.
JoinedInv ==
  opc \in Returned => /\ \A w \in Workers : wpc[w] \in {"done", "unborn"}
                      /\ \A c \in Conns : sock[c] # "backlog"

\* The published report and the responses built from it.
SnapshotInv ==
  /\ opc # "publish" => lastSuccess = report
  /\ \A w \in Workers : seen[w][1] = seen[w][2]

\* What a step of each thread leaves alone.
LEMMA WorkerFrameFacts ==
  ASSUME NEW w \in Workers, WorkerStep(w) \/ SpuriousWakeup(w)
  PROVE  /\ UNCHANGED <<backlog, closed, qlock, activeClosed, stop, lastSuccess, report, apc, ac, opc>>
         /\ wpc[w] \notin {"unborn", "done"} /\ wpc' = [wpc EXCEPT ![w] = wpc'[w]]
BY DEF WorkerStep, SpuriousWakeup, WPop, WPopEmpty, WRegister, WRegisterFails, WRead, WRoute,
       WRespond, WShut, WUnregister, WClose, WRelease, WorkerFrame, WorkerGoto, queueVars,
       activeVars, stateVars, acceptorVars

\* What a step of the acceptor leaves alone: it serves nobody and never begins again.
LEMMA AcceptorFrameFacts ==
  ASSUME AcceptorStep
  PROVE  /\ UNCHANGED <<streams, activeClosed, stop, lastSuccess, report, wc, seen, opc>>
         /\ \/ apc \notin {"unborn", "done"} /\ apc' # "unborn"
            \/ CloseDropHead(Acceptor) /\ apc' = apc
BY DEF AcceptorStep, ACheckStop, AAccept, AConfigureFails, AAcceptNothing, AAcceptError, AAcquire,
       AAcquireRefused, ARefuse, APush, APushRefused, ARejectFull, ADropLate, ARelease,
       ACloseBegin, CloseBegin, CloseDropHead, ACloseEnd, CloseNotify, AcceptorFrame,
       AcceptorGoto, activeVars, stateVars, acceptorVars, workerVars

\* The acceptor exists once the start has succeeded, and the drop joins it.
LEMMA NextStart ==
  ASSUME TypeInv, StartInv, [Next]_vars
  PROVE  StartInv'
<1>. USE DEF StartInv, Started, Dropping
<1>1. CASE AcceptorStep BY <1>1, AcceptorFrameFacts
<1>2. ASSUME NEW w \in Workers, WorkerStep(w) \/ SpuriousWakeup(w) PROVE StartInv'
  BY <1>2, WorkerFrameFacts
<1>3. CASE OwnerStep \/ OSpawnFails \/ OSetReportBegin \/ OStop
  BY <1>3 DEF OwnerStep, OSpawnFails, OSetReportBegin, OStop, OSpawnWorker, OSpawnAcceptor,
     OSetReportEnd, OCloseBegin, CloseBegin, OCloseEnd, CloseNotify, CloseDropHead,
     OShutdownActive, OJoinAcceptor, OJoinWorkers, OwnerGoto, OwnerFrame, acceptorVars, TypeInv,
     HeldTyped
<1>4. ASSUME (\E c \in Conns : Connect(c)) \/ Finished \/ UNCHANGED vars PROVE StartInv'
  BY <1>4 DEF Connect, Finished, vars, acceptorVars
<1> QED BY <1>1, <1>2, <1>3, <1>4 DEF Next

\* The queue stays within its capacity, and nothing is left in one that was closed.
LEMMA NextQueue ==
  ASSUME TypeInv, StartInv, QueueInv, [Next]_vars
  PROVE  QueueInv'
<1>. USE DEF QueueInv, Dropping
<1>1. CASE AcceptorStep
  <2>. USE DEF AcceptorFrame, AcceptorGoto, Free, Acceptor, Owner
  <2>1. CASE APush
    <3>1. queue \in Seq(Conns) /\ ac \in Conns /\ apc = "push"
      BY <2>1 DEF APush, TypeInv, TypeOK, HeldTyped, AcceptorPermit
    <3>2. /\ queue' = Append(queue, ac) /\ ~closed /\ Len(queue) < QueueCapacity
          /\ UNCHANGED <<closed, qlock, opc>> /\ apc' = "check" /\ qlock = Free
      BY <2>1, <3>1, BoundsAssumption DEF APush, QueueIsFull
    <3>3. Len(queue') = Len(queue) + 1 /\ Len(queue) \in Nat BY <3>1, <3>2, AppendFacts
    <3> QED BY <3>1, <3>2, <3>3, BoundsAssumption
  <2>2. CASE ACloseBegin BY <2>2 DEF ACloseBegin, CloseBegin
  <2>3. CASE CloseDropHead(Acceptor)
    <3>1. Len(queue') = Len(queue) - 1 /\ Len(queue) \in Nat
      BY <2>3, TailFacts DEF CloseDropHead, TypeInv, TypeOK
    <3> QED BY <2>3, <3>1, BoundsAssumption DEF CloseDropHead, acceptorVars
  <2>4. CASE ACloseEnd BY <2>4 DEF ACloseEnd, CloseNotify
  <2>5. ASSUME \/ ACheckStop \/ AAccept \/ AConfigureFails \/ AAcceptNothing \/ AAcceptError
               \/ AAcquire \/ AAcquireRefused \/ ARefuse \/ APushRefused \/ ARejectFull
               \/ ADropLate \/ ARelease
        PROVE  QueueInv'
    <3>1. UNCHANGED <<queue, closed, qlock, opc>> /\ {apc, apc'} \cap {"drain", "done"} = {}
      BY <2>5 DEF ACheckStop, AAccept, AConfigureFails, AAcceptNothing, AAcceptError, AAcquire,
         AAcquireRefused, ARefuse, APushRefused, ARejectFull, ADropLate, ARelease, queueVars
    <3> QED BY <3>1
  <2> QED BY <1>1, <2>1, <2>2, <2>3, <2>4, <2>5 DEF AcceptorStep
<1>2. ASSUME NEW w \in Workers, WorkerStep(w) \/ SpuriousWakeup(w) PROVE QueueInv'
  <2>1. UNCHANGED <<closed, qlock, apc, opc>> BY <1>2, WorkerFrameFacts
  <2>2. CASE WPop(w)
    <3>1. Len(queue') = Len(queue) - 1 /\ Len(queue) \in Nat /\ queue # <<>> /\ qlock = Free
      BY <2>2, TailFacts DEF WPop, TypeInv, TypeOK
    <3> QED BY <2>1, <3>1, BoundsAssumption
  <2>3. CASE ~WPop(w)
    <3>1. queue' = queue
      BY <1>2, <2>3 DEF WorkerStep, SpuriousWakeup, WPopEmpty, WRegister, WRegisterFails, WRead,
         WRoute, WRespond, WShut, WUnregister, WClose, WRelease, queueVars
    <3> QED BY <2>1, <3>1
  <2> QED BY <2>2, <2>3
<1>3. CASE OwnerStep \/ OSpawnFails \/ OSetReportBegin \/ OStop
  <2>. USE DEF OwnerGoto, OwnerFrame, Free, Acceptor, Owner
  <2>1. CASE OCloseBegin BY <2>1 DEF OCloseBegin, CloseBegin, acceptorVars
  <2>2. CASE CloseDropHead(Owner)
    <3>1. Len(queue') = Len(queue) - 1 /\ Len(queue) \in Nat
      BY <2>2, TailFacts DEF CloseDropHead, TypeInv, TypeOK
    <3> QED BY <2>2, <3>1, BoundsAssumption DEF CloseDropHead, acceptorVars
  <2>3. CASE OCloseEnd BY <2>3 DEF OCloseEnd, CloseNotify, acceptorVars
  <2>4. CASE OSpawnAcceptor
    <3>1. apc = "unborn" /\ apc' = "check" /\ opc = "spawn" /\ opc' = "running"
          /\ UNCHANGED <<queue, closed, qlock>>
      BY <2>4 DEF OSpawnAcceptor, TypeInv, HeldTyped, queueVars
    <3> QED BY <3>1
  <2>5. ASSUME \/ \E w \in Workers : OSpawnWorker(w)
               \/ OSetReportEnd \/ OShutdownActive \/ OJoinAcceptor \/ OJoinWorkers
               \/ OSpawnFails \/ OSetReportBegin \/ OStop
        PROVE  QueueInv'
    <3>1. UNCHANGED <<queue, closed, qlock, apc>>
      BY <2>5 DEF OSpawnWorker, OSetReportEnd, OShutdownActive, OJoinAcceptor, OJoinWorkers,
         OSpawnFails, OSetReportBegin, OStop, queueVars
    <3>2. opc # "drain" /\ opc' # "drain"
      BY <2>5 DEF OSpawnWorker, OSetReportEnd, OShutdownActive, OJoinAcceptor, OJoinWorkers,
         OSpawnFails, OSetReportBegin, OStop
    <3>3. opc' \in {"drain", "joinFailed", "failed"} \cup Dropping =>
            opc \in {"drain", "joinFailed", "failed"} \cup Dropping
      BY <2>5 DEF OSpawnWorker, OSetReportEnd, OShutdownActive, OJoinAcceptor, OJoinWorkers,
         OSpawnFails, OSetReportBegin, OStop
    <3> QED BY <3>1, <3>2, <3>3
  <2> QED BY <1>3, <2>1, <2>2, <2>3, <2>4, <2>5 DEF OwnerStep
<1>4. ASSUME (\E c \in Conns : Connect(c)) \/ Finished \/ UNCHANGED vars PROVE QueueInv'
  BY <1>4 DEF Connect, Finished, vars, acceptorVars, queueVars
<1> QED BY <1>1, <1>2, <1>3, <1>4 DEF Next

\* A step that leaves the queue and the permits alone, and lets nobody go who
\* holds a connection.
LEMMA HeldFrame ==
  ASSUME PermitsHeld, permits' \subseteq permits, queue' = queue,
         \A w \in Workers : wpc[w] \in WorkerPermit => wpc'[w] \in WorkerPermit /\ wc'[w] = wc[w],
         apc \in AcceptorPermit => apc' \in AcceptorPermit /\ ac' = ac
  PROVE  PermitsHeld'
BY DEF PermitsHeld

\* Permits pass from hand to hand and are neither lost nor held twice.
LEMMA NextHeld ==
  ASSUME TypeInv, Ownership, PermitsHeld, [Next]_vars
  PROVE  PermitsHeld'
<1>0. /\ queue \in Seq(Conns) /\ wpc \in [Workers -> WorkerPlaces]
      /\ wc \in [Workers -> Conns \cup {NoConn}]
  BY DEF TypeInv, TypeOK
\* Dropping the head of the queue, whichever thread closes it.
<1>1. ASSUME NEW t, CloseDropHead(t) PROVE PermitsHeld'
  <2>1. /\ queue # <<>> /\ queue' = Tail(queue) /\ permits' = permits \ {Head(queue)}
        /\ UNCHANGED <<wpc, wc, apc, ac>>
    BY <1>1 DEF CloseDropHead, Release, acceptorVars, workerVars
  <2>2. /\ Head(queue) = queue[1] /\ Len(queue') = Len(queue) - 1 /\ Len(queue) \in Nat
        /\ \A i \in 1..Len(queue') : queue'[i] = queue[i + 1]
    BY <1>0, <2>1, TailFacts
  <2>3. ASSUME NEW c \in permits', NEW i \in 1..Len(queue), queue[i] = c
        PROVE  \E j \in 1..Len(queue') : queue'[j] = c
    <3>1. i # 1 BY <2>1, <2>2, <2>3
    <3>2. i - 1 \in 1..Len(queue') /\ queue'[i - 1] = queue[(i - 1) + 1] BY <2>2, <3>1
    <3>3. (i - 1) + 1 = i BY <3>1
    <3> QED BY <2>3, <3>2, <3>3
  <2> QED BY <2>1, <2>3 DEF PermitsHeld
<1>2. CASE AcceptorStep
  <2>1. CASE AAcquire
    <3>1. /\ permits' = permits \cup {ac} /\ apc' = "push" /\ apc = "acquire"
          /\ UNCHANGED <<queue, wpc, wc, ac>>
      BY <2>1 DEF AAcquire, TryAcquire, AcceptorFrame, AcceptorGoto, queueVars
    <3> QED BY <3>1 DEF PermitsHeld, AcceptorPermit
  <2>2. CASE APush
    <3>1. /\ queue' = Append(queue, ac) /\ UNCHANGED <<permits, wc>> /\ NotifyOne
          /\ apc = "push" /\ ac \in Conns
      BY <2>2 DEF APush, AcceptorFrame, admissionVars, TypeInv, HeldTyped, AcceptorPermit
    <3>2. /\ Len(queue') = Len(queue) + 1 /\ Len(queue) \in Nat /\ queue'[Len(queue) + 1] = ac
          /\ \A i \in 1..Len(queue) : queue'[i] = queue[i]
      BY <1>0, <3>1, AppendFacts
    <3>3. \A w \in Workers : wpc[w] \in WorkerPermit => wpc'[w] \in WorkerPermit
      BY <1>0, <3>1, NotifyType DEF WorkerPermit, Handling
    <3>4. Len(queue) + 1 \in 1..Len(queue') /\ \A i \in 1..Len(queue) : i \in 1..Len(queue')
      BY <3>2
    <3>5. ASSUME NEW c \in permits, NEW i \in 1..Len(queue), queue[i] = c
          PROVE  \E j \in 1..Len(queue') : queue'[j] = c
      BY <3>2, <3>4, <3>5
    <3> QED BY <3>1, <3>2, <3>3, <3>4, <3>5 DEF PermitsHeld
  <2>3. CASE ARelease
    <3>1. /\ permits' = permits \ {ac} /\ UNCHANGED <<queue, wpc, wc>>
      BY <2>3 DEF ARelease, Release, AcceptorFrame, queueVars
    <3> QED BY <3>1 DEF PermitsHeld
  <2>4. CASE ACloseEnd
    <3>1. NotifyAll /\ UNCHANGED <<queue, permits, wc, ac>> /\ apc = "drain"
      BY <2>4 DEF ACloseEnd, CloseNotify, admissionVars
    <3>2. \A w \in Workers : wpc[w] \in WorkerPermit => wpc'[w] \in WorkerPermit
      BY <1>0, <3>1, NotifyType DEF WorkerPermit, Handling
    <3> QED BY <3>1, <3>2, HeldFrame DEF AcceptorPermit
  <2>5. ASSUME \/ ACheckStop \/ AAccept \/ AConfigureFails \/ AAcceptNothing \/ AAcceptError
               \/ AAcquireRefused \/ ARefuse \/ APushRefused \/ ARejectFull
               \/ ADropLate \/ ACloseBegin
        PROVE  PermitsHeld'
    <3>1. UNCHANGED <<queue, permits, wpc, wc>>
      BY <2>5 DEF ACheckStop, AAccept, AConfigureFails, AAcceptNothing, AAcceptError,
         AAcquireRefused, ARefuse, APushRefused, ARejectFull, ADropLate, ACloseBegin, CloseBegin,
         AcceptorFrame, queueVars, admissionVars, workerVars
    <3>2. apc \in AcceptorPermit => apc' \in AcceptorPermit /\ ac' = ac
      BY <2>5 DEF ACheckStop, AAccept, AConfigureFails, AAcceptNothing, AAcceptError,
         AAcquireRefused, ARefuse, APushRefused, ARejectFull, ADropLate, ACloseBegin, CloseBegin,
         AcceptorGoto, AcceptorPermit
    <3> QED BY <3>1, <3>2, HeldFrame
  <2> QED BY <1>1, <1>2, <2>1, <2>2, <2>3, <2>4, <2>5 DEF AcceptorStep
<1>3. ASSUME NEW w \in Workers, WorkerStep(w) \/ SpuriousWakeup(w) PROVE PermitsHeld'
  <2>0. UNCHANGED <<apc, ac>> /\ wpc' = [wpc EXCEPT ![w] = wpc'[w]] BY <1>3, WorkerFrameFacts
  <2>1. CASE WPop(w)
    <3>1. /\ queue # <<>> /\ queue' = Tail(queue) /\ permits' = permits /\ wpc[w] = "pop"
          /\ wpc' = [wpc EXCEPT ![w] = "register"] /\ wc' = [wc EXCEPT ![w] = Head(queue)]
      BY <2>1 DEF WPop, WorkerGoto, admissionVars
    <3>2. /\ Head(queue) = queue[1] /\ Len(queue') = Len(queue) - 1 /\ Len(queue) \in Nat
          /\ \A i \in 1..Len(queue') : queue'[i] = queue[i + 1]
      BY <1>0, <3>1, TailFacts
    <3>3. /\ wpc'[w] \in WorkerPermit /\ wc'[w] = Head(queue) /\ wpc[w] \notin WorkerPermit
          /\ \A v \in Workers : v # w => wpc'[v] = wpc[v] /\ wc'[v] = wc[v]
      BY <1>0, <3>1 DEF WorkerPermit, Handling
    <3>4. ASSUME NEW c \in permits, NEW i \in 1..Len(queue), queue[i] = c, c # Head(queue)
          PROVE  \E j \in 1..Len(queue') : queue'[j] = c
      <4>1. i # 1 BY <3>2, <3>4
      <4>2. i - 1 \in 1..Len(queue') /\ queue'[i - 1] = queue[(i - 1) + 1] BY <3>2, <4>1
      <4>3. (i - 1) + 1 = i BY <4>1
      <4> QED BY <3>4, <4>2, <4>3
    <3> QED BY <2>0, <3>1, <3>3, <3>4 DEF PermitsHeld
  <2>2. CASE WRelease(w)
    <3>1. /\ permits' = permits \ {wc[w]} /\ queue' = queue
          /\ wpc' = [wpc EXCEPT ![w] = "pop"] /\ wc' = [wc EXCEPT ![w] = NoConn]
      BY <2>2 DEF WRelease, Release, WorkerGoto, queueVars
    <3> QED BY <1>0, <2>0, <3>1 DEF PermitsHeld
  <2>3. CASE ~WPop(w) /\ ~WRelease(w)
    <3>1. UNCHANGED <<queue, permits, wc>>
      BY <1>3, <2>3 DEF WorkerStep, SpuriousWakeup, WPopEmpty, WRegister, WRegisterFails, WRead,
         WRoute, WRespond, WShut, WUnregister, WClose, queueVars, admissionVars
    <3>2. wpc[w] \in WorkerPermit => wpc'[w] \in WorkerPermit
      BY <1>0, <1>3, <2>3 DEF WorkerStep, SpuriousWakeup, WPopEmpty, WRegister, WRegisterFails,
         WRead, WRoute, WRespond, WShut, WUnregister, WClose, WorkerGoto, WorkerPermit, Handling
    <3> QED BY <1>0, <2>0, <3>1, <3>2, HeldFrame
  <2> QED BY <2>1, <2>2, <2>3
<1>4. CASE OwnerStep \/ OSpawnFails \/ OSetReportBegin \/ OStop
  <2>1. CASE OCloseEnd
    <3>1. NotifyAll /\ UNCHANGED <<queue, permits, wc, apc, ac>>
      BY <2>1 DEF OCloseEnd, CloseNotify, admissionVars, acceptorVars
    <3>2. \A w \in Workers : wpc[w] \in WorkerPermit => wpc'[w] \in WorkerPermit
      BY <1>0, <3>1, NotifyType DEF WorkerPermit, Handling
    <3> QED BY <3>1, <3>2, HeldFrame
  <2>2. CASE \E w \in Workers : OSpawnWorker(w)
    <3>1. PICK w \in Workers : OSpawnWorker(w) BY <2>2
    <3>2. /\ UNCHANGED <<queue, permits, wc, apc, ac>> /\ wpc[w] = "unborn"
          /\ wpc' = [wpc EXCEPT ![w] = "pop"]
      BY <3>1 DEF OSpawnWorker, OwnerFrame, queueVars, admissionVars
    <3>3. \A v \in Workers : wpc[v] \in WorkerPermit => wpc'[v] \in WorkerPermit
      BY <1>0, <3>2 DEF WorkerPermit, Handling
    <3> QED BY <3>2, <3>3, HeldFrame
  <2>3. CASE OSpawnAcceptor
    <3>1. UNCHANGED <<queue, permits, wpc, wc, ac>> /\ apc = "unborn"
      BY <2>3 DEF OSpawnAcceptor, OwnerFrame, queueVars, admissionVars, TypeInv, HeldTyped
    <3> QED BY <3>1, HeldFrame DEF AcceptorPermit
  <2>4. ASSUME \/ OSetReportEnd \/ OCloseBegin \/ OShutdownActive \/ OJoinAcceptor
               \/ OJoinWorkers \/ OSpawnFails \/ OSetReportBegin \/ OStop
        PROVE  PermitsHeld'
    <3>1. UNCHANGED <<queue, permits, wpc, wc, apc, ac>>
      BY <2>4 DEF OSetReportEnd, OCloseBegin, CloseBegin, OShutdownActive, OJoinAcceptor,
         OJoinWorkers, OSpawnFails, OSetReportBegin, OStop, OwnerFrame, queueVars, admissionVars,
         acceptorVars, workerVars
    <3> QED BY <3>1, HeldFrame
  <2> QED BY <1>1, <1>4, <2>1, <2>2, <2>3, <2>4 DEF OwnerStep
<1>5. ASSUME (\E c \in Conns : Connect(c)) \/ Finished \/ UNCHANGED vars PROVE PermitsHeld'
  <2>1. UNCHANGED <<queue, permits, wpc, wc, apc, ac>>
    BY <1>5 DEF Connect, Finished, vars, acceptorVars, queueVars, admissionVars, workerVars
  <2> QED BY <2>1, HeldFrame
<1> QED BY <1>2, <1>3, <1>4, <1>5 DEF Next

\* A step that neither registers nor unregisters, starts no handler and leaves
\* the streams being handled as they are.
LEMMA ActiveFrame ==
  ASSUME ActiveInv, UNCHANGED <<streams, activeClosed>>,
         opc' \in {"joinAcceptor", "joinWorkers", "gone"}
           <=> opc \in {"joinAcceptor", "joinWorkers", "gone"},
         \A w \in Workers : wpc'[w] \in Handling =>
           /\ wpc[w] \in Handling /\ wc'[w] = wc[w]
           /\ sock[wc[w]] = "shut" => sock'[wc[w]] = "shut"
  PROVE  ActiveInv'
BY DEF ActiveInv

\* Changing the stream of a connection that no worker is handling.
LEMMA OtherStream ==
  ASSUME TypeInv, NEW c \in Conns, NEW s, sock' = [sock EXCEPT ![c] = s],
         \A w \in Workers : wpc[w] \in Handling => wc[w] # c
  PROVE  \A w \in Workers : wpc[w] \in Handling => sock'[wc[w]] = sock[wc[w]]
BY DEF TypeInv, TypeOK

\* The kernel resets its backlog: no admitted connection is affected.
LEMMA ResetStreams ==
  ASSUME TypeInv, Ownership,
         sock' = [c \in Conns |-> IF sock[c] = "backlog" THEN "free" ELSE sock[c]]
  PROVE  /\ \A w \in Workers : wpc[w] \in Handling => sock'[wc[w]] = sock[wc[w]]
         /\ \A c \in Conns : sock'[c] # "backlog"
<1>1. \A w \in Workers : wpc[w] \in Handling => wc[w] \in Conns /\ wc[w] \in permits
  BY DEF TypeInv, HeldTyped, WorkerPermit, Ownership, WorkersOwn
<1>2. \A c \in Conns : sock[c] = "backlog" => c \notin permits
  BY DEF Ownership, BacklogInv
<1> QED BY <1>1, <1>2

\* The connections being handled are admitted and held by one worker only.
LEMMA HandlerFacts ==
  ASSUME TypeInv, Ownership, NEW w \in Workers, wpc[w] \in Handling
  PROVE  /\ wc[w] \in Conns /\ wc[w] \in permits /\ sock[wc[w]] # "backlog"
         /\ apc \in AcceptorPermit \cup Deciding => ac # wc[w]
         /\ \A v \in Workers : v # w /\ wpc[v] \in WorkerPermit => wc[v] # wc[w]
         /\ queue # <<>> => Head(queue) # wc[w]
<1>1. wpc[w] \in WorkerPermit BY DEF WorkerPermit
<1>2. wc[w] \in Conns /\ wc[w] \in permits
  BY <1>1 DEF TypeInv, HeldTyped, Ownership, WorkersOwn
<1>3. sock[wc[w]] # "backlog" BY <1>2 DEF Ownership, BacklogInv
<1>4. apc \in AcceptorPermit \cup Deciding => ac # wc[w]
  BY <1>1, <1>2 DEF Ownership, AcceptorOwns, DecidingInv
<1>5. \A v \in Workers : v # w /\ wpc[v] \in WorkerPermit => wc[v] # wc[w]
  BY <1>1 DEF Ownership, WorkersOwn
<1>6. queue # <<>> => Head(queue) # wc[w]
  BY <1>1, TailFacts DEF Ownership, WorkersOwn, TypeInv, TypeOK
<1> QED BY <1>2, <1>3, <1>4, <1>5, <1>6

\* The acceptor registers no stream.
LEMMA AcceptorActive ==
  ASSUME TypeInv, Ownership, ActiveInv, AcceptorStep
  PROVE  ActiveInv'
<1>1. UNCHANGED <<streams, activeClosed, wc, opc>> BY AcceptorFrameFacts
<1>2. \A w \in Workers : wpc'[w] \in Handling => wpc[w] \in Handling
  <2>1. CASE NotifyOne \/ NotifyAll
    BY <2>1, NotifyType DEF TypeInv, TypeOK, Handling
  <2>2. CASE wpc' = wpc BY <2>2
  <2>3. NotifyOne \/ NotifyAll \/ wpc' = wpc
    BY DEF AcceptorStep, ACheckStop, AAccept, AConfigureFails, AAcceptNothing, AAcceptError,
       AAcquire, AAcquireRefused, ARefuse, APush, APushRefused, ARejectFull, ADropLate, ARelease,
       ACloseBegin, CloseBegin, CloseDropHead, ACloseEnd, CloseNotify, workerVars
  <2> QED BY <2>1, <2>2, <2>3
<1>3. \A w \in Workers : wpc[w] \in Handling => sock'[wc[w]] = sock[wc[w]]
  <2>1. CASE AAccept \/ AConfigureFails
    <3>1. backlog # <<>> /\ \E s : sock' = [sock EXCEPT ![Head(backlog)] = s]
      BY <2>1 DEF AAccept, AConfigureFails, SetSock
    <3>2. Head(backlog) \in Conns /\ sock[Head(backlog)] = "backlog"
      BY <3>1, TailFacts DEF TypeInv, TypeOK, Ownership, BacklogInv
    <3> QED BY <3>1, <3>2, OtherStream, HandlerFacts
  <2>2. CASE ARefuse \/ ARejectFull \/ ADropLate \/ ARelease
    <3>1. /\ apc \in AcceptorPermit \cup Deciding
          /\ \E s : sock' = [sock EXCEPT ![ac] = s]
      BY <2>2 DEF ARefuse, ARejectFull, ADropLate, ARelease, Release, SetSock, AcceptorPermit,
         Deciding
    <3>2. ac \in Conns BY <3>1 DEF TypeInv, HeldTyped
    <3> QED BY <3>1, <3>2, OtherStream, HandlerFacts
  <2>3. CASE CloseDropHead(Acceptor)
    <3>1. queue # <<>> /\ sock' = [sock EXCEPT ![Head(queue)] = "free"]
      BY <2>3 DEF CloseDropHead, Release
    <3>2. Head(queue) \in Conns BY <3>1, TailFacts DEF TypeInv, TypeOK
    <3> QED BY <3>1, <3>2, OtherStream, HandlerFacts
  <2>4. CASE ACloseEnd BY <2>4, ResetStreams DEF ACloseEnd
  <2>5. \/ AAccept \/ AConfigureFails \/ ARefuse \/ ARejectFull \/ ADropLate \/ ARelease
        \/ CloseDropHead(Acceptor) \/ ACloseEnd \/ sock' = sock
    BY DEF AcceptorStep, ACheckStop, AAcceptNothing, AAcceptError,
       AAcquire, AAcquireRefused, APush, APushRefused, ACloseBegin, CloseBegin
  <2> QED BY <2>1, <2>2, <2>3, <2>4, <2>5
<1> QED BY <1>1, <1>2, <1>3, ActiveFrame

\* The stream a worker handles is registered, or shut once the owner has been through.
LEMMA WorkerActive ==
  ASSUME TypeInv, Ownership, ActiveInv, NEW w \in Workers, WorkerStep(w) \/ SpuriousWakeup(w)
  PROVE  ActiveInv'
<1>1. /\ UNCHANGED <<activeClosed, opc>> /\ wpc' = [wpc EXCEPT ![w] = wpc'[w]]
  BY WorkerFrameFacts
<1>2. /\ wpc \in [Workers -> WorkerPlaces] /\ wc \in [Workers -> Conns \cup {NoConn}]
      /\ sock \in [Conns -> SockStates]
  BY DEF TypeInv, TypeOK
<1>3. \A v \in Workers : v # w => wpc'[v] = wpc[v] BY <1>1, <1>2
<1>4. CASE WRegister(w)
  <2>1. /\ ~activeClosed /\ streams' = streams \cup {wc[w]} /\ UNCHANGED wc
    BY <1>4 DEF WRegister
  <2> QED BY <1>1, <1>3, <2>1 DEF ActiveInv
<1>5. CASE WUnregister(w)
  <2>1. /\ streams' = streams \ {wc[w]} /\ UNCHANGED <<wc, sock>> /\ wpc[w] = "unregister"
        /\ wpc'[w] = "close"
    BY <1>2, <1>5 DEF WUnregister, WorkerGoto
  <2>2. \A v \in Workers : wpc'[v] \in Handling =>
          v # w /\ wpc[v] \in Handling /\ wc[v] # wc[w]
    BY <1>3, <2>1, HandlerFacts DEF Handling, WorkerPermit
  <2> QED BY <1>1, <2>1, <2>2 DEF ActiveInv
<1>6. CASE WPop(w)
  <2>1. /\ UNCHANGED <<streams, sock>> /\ wpc'[w] = "register"
        /\ \A v \in Workers : v # w => wc'[v] = wc[v]
    BY <1>2, <1>6 DEF WPop, WorkerGoto, activeVars
  <2> QED BY <1>1, <1>3, <2>1, ActiveFrame DEF Handling
<1>7. CASE WRelease(w) \/ WClose(w) \/ WRegisterFails(w)
  <2>1. /\ UNCHANGED streams /\ wpc[w] \in {"release", "close", "register"}
        /\ wpc'[w] \notin Handling
        /\ \A v \in Workers : v # w => wc'[v] = wc[v]
        /\ \E s : sock' = [sock EXCEPT ![wc[w]] = s]
    BY <1>2, <1>7 DEF WRelease, Release, WClose, WRegisterFails, SetSock, WorkerGoto, activeVars,
       Handling
  <2>2. wc[w] \in Conns BY <2>1 DEF TypeInv, HeldTyped, WorkerPermit
  <2>3. \A v \in Workers : wpc[v] \in Handling => wc[v] # wc[w]
    BY <2>1, HandlerFacts DEF Handling, WorkerPermit
  <2>4. \A v \in Workers : wpc[v] \in Handling => sock'[wc[v]] = sock[wc[v]]
    BY <2>1, <2>2, <2>3, OtherStream
  <2> QED BY <1>1, <1>3, <2>1, <2>4, ActiveFrame
<1>8. CASE WShut(w)
  <2>1. /\ UNCHANGED <<streams, wc>> /\ wpc[w] = "shut"
        /\ sock' = [sock EXCEPT ![wc[w]] = "shut"]
    BY <1>8 DEF WShut, SetSock, activeVars
  <2>2. wc[w] \in Conns BY <2>1, HandlerFacts DEF Handling
  <2>3. \A v \in Workers : wpc'[v] \in Handling => wpc[v] \in Handling
    BY <1>3, <2>1 DEF Handling
  <2>4. \A v \in Workers : wpc[v] \in Handling /\ sock[wc[v]] = "shut" => sock'[wc[v]] = "shut"
    BY <1>2, <2>1, <2>2, HandlerFacts
  <2> QED BY <1>1, <2>1, <2>3, <2>4, ActiveFrame
<1>9. CASE WPopEmpty(w) \/ SpuriousWakeup(w) \/ WRead(w) \/ WRoute(w) \/ WRespond(w)
  <2>1. UNCHANGED <<streams, wc, sock>>
    BY <1>9 DEF WPopEmpty, SpuriousWakeup, WRead, WRoute, WRespond, activeVars
  <2>2. wpc'[w] \in Handling => wpc[w] \in Handling
    BY <1>2, <1>9 DEF WPopEmpty, SpuriousWakeup, WRead, WRoute, WRespond, WorkerGoto, Handling
  <2> QED BY <1>1, <1>3, <2>1, <2>2, ActiveFrame
<1> QED BY <1>4, <1>5, <1>6, <1>7, <1>8, <1>9 DEF WorkerStep

\* The owner shuts down every registered stream and refuses the later ones.
LEMMA OwnerActive ==
  ASSUME TypeInv, Ownership, ActiveInv, OwnerStep \/ OSpawnFails \/ OSetReportBegin \/ OStop
  PROVE  ActiveInv'
<1>0. /\ wpc \in [Workers -> WorkerPlaces] /\ sock \in [Conns -> SockStates]
  BY DEF TypeInv, TypeOK
<1>1. CASE OShutdownActive
  <2>1. /\ activeClosed' /\ streams' = {} /\ opc = "shutdownActive" /\ opc' = "joinAcceptor"
        /\ UNCHANGED <<wpc, wc>>
        /\ sock' = [c \in Conns |-> IF c \in streams THEN "shut" ELSE sock[c]]
    BY <1>1 DEF OShutdownActive, OwnerGoto, OwnerFrame
  <2>2. \A w \in Workers : wpc[w] \in Handling => wc[w] \in streams /\ wc[w] \in Conns
    BY <2>1, HandlerFacts DEF ActiveInv
  <2> QED BY <2>1, <2>2 DEF ActiveInv
<1>2. CASE OCloseEnd
  <2>1. /\ UNCHANGED <<streams, activeClosed, sock, wc>> /\ NotifyAll
        /\ opc = "drain" /\ opc' \in {"shutdownActive", "joinFailed"}
    BY <1>2 DEF OCloseEnd, CloseNotify, OwnerGoto, activeVars
  <2>2. \A w \in Workers : wpc'[w] \in Handling => wpc[w] \in Handling
    BY <1>0, <2>1, NotifyType DEF Handling
  <2> QED BY <2>1, <2>2, ActiveFrame
<1>3. CASE CloseDropHead(Owner)
  <2>1. /\ queue # <<>> /\ sock' = [sock EXCEPT ![Head(queue)] = "free"]
        /\ UNCHANGED <<streams, activeClosed, wpc, wc, opc>>
    BY <1>3 DEF CloseDropHead, Release, activeVars, workerVars
  <2>2. Head(queue) \in Conns BY <2>1, TailFacts DEF TypeInv, TypeOK
  <2>3. \A w \in Workers : wpc[w] \in Handling => sock'[wc[w]] = sock[wc[w]]
    BY <2>1, <2>2, OtherStream, HandlerFacts
  <2> QED BY <2>1, <2>3, ActiveFrame
<1>4. CASE OJoinWorkers
  <2>1. /\ UNCHANGED <<streams, activeClosed, wpc, wc>>
        /\ opc \in {"joinWorkers", "joinFailed"}
        /\ opc' = (IF opc = "joinWorkers" THEN "gone" ELSE "failed")
        /\ sock' = [c \in Conns |-> IF sock[c] = "backlog" THEN "free" ELSE sock[c]]
    BY <1>4 DEF OJoinWorkers, OwnerGoto, OwnerFrame, activeVars
  <2>2. \A w \in Workers : wpc[w] \in Handling => sock'[wc[w]] = sock[wc[w]]
    BY <2>1, ResetStreams
  <2> QED BY <2>1, <2>2, ActiveFrame
<1>5. CASE \E w \in Workers : OSpawnWorker(w)
  <2>1. /\ UNCHANGED <<streams, activeClosed, sock, wc, opc>>
        /\ \E w \in Workers : wpc' = [wpc EXCEPT ![w] = "pop"]
    BY <1>5 DEF OSpawnWorker, OwnerFrame, activeVars
  <2>2. \A w \in Workers : wpc'[w] \in Handling => wpc[w] \in Handling
    BY <1>0, <2>1 DEF Handling
  <2> QED BY <2>1, <2>2, ActiveFrame
<1>6. ASSUME \/ OSpawnAcceptor \/ OSetReportEnd \/ OCloseBegin \/ OJoinAcceptor
             \/ OSpawnFails \/ OSetReportBegin \/ OStop
      PROVE  ActiveInv'
  <2>1. UNCHANGED <<streams, activeClosed, sock, wc, wpc>>
    BY <1>6 DEF OSpawnAcceptor, OSetReportEnd, OCloseBegin, CloseBegin, OJoinAcceptor,
       OSpawnFails, OSetReportBegin, OStop, OwnerFrame, activeVars, workerVars
  <2>2. opc' \in {"joinAcceptor", "joinWorkers", "gone"}
          <=> opc \in {"joinAcceptor", "joinWorkers", "gone"}
    BY <1>6 DEF OSpawnAcceptor, OSetReportEnd, OCloseBegin, CloseBegin, OJoinAcceptor,
       OSpawnFails, OSetReportBegin, OStop, OwnerGoto
  <2> QED BY <2>1, <2>2, ActiveFrame
<1> QED BY <1>1, <1>2, <1>3, <1>4, <1>5, <1>6 DEF OwnerStep

\* After the owner went through the streams every handler meets a closed one.
LEMMA NextActive ==
  ASSUME TypeInv, Ownership, ActiveInv, [Next]_vars
  PROVE  ActiveInv'
<1>1. ASSUME NEW c \in Conns, Connect(c) PROVE ActiveInv'
  <2>1. /\ UNCHANGED <<streams, activeClosed, wpc, wc, opc>> /\ c \notin permits
        /\ sock' = [sock EXCEPT ![c] = "backlog"]
    BY <1>1 DEF Connect, SetSock, activeVars, workerVars
  <2>2. \A w \in Workers : wpc[w] \in Handling => sock'[wc[w]] = sock[wc[w]]
    BY <2>1, OtherStream, HandlerFacts
  <2> QED BY <2>1, <2>2, ActiveFrame
<1>2. ASSUME Finished \/ UNCHANGED vars PROVE ActiveInv'
  BY <1>2 DEF Finished, vars, activeVars, workerVars, ActiveInv
<1> QED BY <1>1, <1>2, AcceptorActive, WorkerActive, OwnerActive DEF Next

\* Nothing moves once the owner has its threads back.
LEMMA NextJoined ==
  ASSUME TypeInv, Ownership, StartInv, QueueInv, JoinedInv, [Next]_vars
  PROVE  JoinedInv'
<1>1. CASE opc \in Returned
  <2>1. apc \in {"unborn", "done"} /\ qlock = Free
    BY <1>1 DEF StartInv, QueueInv, Returned, TypeInv, TypeOK
  <2>2. ~AcceptorStep
    BY <2>1, AcceptorFrameFacts DEF CloseDropHead, Acceptor, Free
  <2>3. \A w \in Workers : ~(WorkerStep(w) \/ SpuriousWakeup(w))
    BY <1>1, WorkerFrameFacts DEF JoinedInv
  <2>4. \A c \in Conns : ~Connect(c)
    BY <1>1 DEF Connect, Listening, StartInv, Returned
  <2>5. ~(OwnerStep \/ OSpawnFails \/ OSetReportBegin \/ OStop)
    BY <1>1, <2>1 DEF OwnerStep, OSpawnFails, OSetReportBegin, OStop, OSpawnWorker,
       OSpawnAcceptor, OSetReportEnd, OCloseBegin, OCloseEnd, CloseDropHead, OShutdownActive,
       OJoinAcceptor, OJoinWorkers, Returned, Owner, Free
  <2>6. UNCHANGED <<opc, wpc, sock>>
    BY <2>2, <2>3, <2>4, <2>5 DEF Next, Finished, vars, workerVars
  <2> QED BY <2>6 DEF JoinedInv
<1>2. CASE opc \notin Returned /\ OJoinWorkers
  BY <1>2, ResetStreams DEF OJoinWorkers, JoinedInv
<1>3. CASE opc \notin Returned /\ ~OJoinWorkers
  <2>1. AcceptorStep => opc' = opc BY AcceptorFrameFacts
  <2>2. (\E w \in Workers : WorkerStep(w) \/ SpuriousWakeup(w)) => opc' = opc
    BY WorkerFrameFacts
  <2>3. (\E c \in Conns : Connect(c)) \/ UNCHANGED vars \/ Finished => opc' = opc
    BY DEF Connect, Finished, vars
  <2>4. OwnerStep \/ OSpawnFails \/ OSetReportBegin \/ OStop => opc' \notin Returned
    BY <1>3 DEF OwnerStep, OSpawnFails, OSetReportBegin, OStop, OSpawnWorker,
       OSpawnAcceptor, OSetReportEnd, OCloseBegin, OCloseEnd, CloseDropHead, OShutdownActive,
       OJoinAcceptor, Returned, OwnerGoto
  <2>5. opc' \notin Returned BY <1>3, <2>1, <2>2, <2>3, <2>4 DEF Next
  <2> QED BY <2>5 DEF JoinedInv
<1> QED BY <1>1, <1>2, <1>3

\* A handler reads the pair of fields while no writer is between its two
\* assignments.
LEMMA NextSnapshot ==
  ASSUME TypeInv, SnapshotInv, [Next]_vars
  PROVE  SnapshotInv'
<1>0. seen \in [Workers -> (0..MaxReport) \X (0..MaxReport)] BY DEF TypeInv, TypeOK
<1>1. CASE AcceptorStep BY <1>1, AcceptorFrameFacts DEF SnapshotInv
<1>2. ASSUME NEW w \in Workers, WorkerStep(w) \/ SpuriousWakeup(w) PROVE SnapshotInv'
  <2>1. UNCHANGED <<lastSuccess, report, opc>> BY <1>2, WorkerFrameFacts
  <2>2. CASE WRoute(w)
    <3>1. seen' = [seen EXCEPT ![w] = <<lastSuccess, report>>] /\ lastSuccess = report
      BY <2>2 DEF WRoute, SnapshotInv
    <3>2. \A v \in Workers : seen'[v] = seen[v] \/ seen'[v] = <<lastSuccess, report>>
      BY <1>0, <3>1
    <3> QED BY <2>1, <3>1, <3>2 DEF SnapshotInv
  <2>3. CASE WRespond(w)
    <3>1. seen' = [seen EXCEPT ![w] = <<0, 0>>] BY <2>3 DEF WRespond
    <3>2. \A v \in Workers : seen'[v] = seen[v] \/ seen'[v] = <<0, 0>> BY <1>0, <3>1
    <3> QED BY <2>1, <3>2 DEF SnapshotInv
  <2>4. CASE ~WRoute(w) /\ ~WRespond(w)
    <3>1. seen' = seen
      BY <1>2, <2>4 DEF WorkerStep, SpuriousWakeup, WPop, WPopEmpty, WRegister, WRegisterFails,
         WRead, WShut, WUnregister, WClose, WRelease
    <3> QED BY <2>1, <3>1 DEF SnapshotInv
  <2> QED BY <2>2, <2>3, <2>4
<1>3. CASE OSetReportBegin BY <1>3 DEF OSetReportBegin, OwnerGoto, OwnerFrame, SnapshotInv
<1>4. CASE OSetReportEnd BY <1>4 DEF OSetReportEnd, OwnerGoto, OwnerFrame, SnapshotInv
<1>5. ASSUME \/ OwnerStep /\ ~OSetReportEnd
             \/ OSpawnFails \/ OStop \/ (\E c \in Conns : Connect(c)) \/ Finished
             \/ UNCHANGED vars
      PROVE  SnapshotInv'
  <2>1. UNCHANGED <<lastSuccess, report, seen>>
    BY <1>5 DEF OwnerStep, OSpawnWorker, OSpawnAcceptor, OCloseBegin, CloseBegin, CloseDropHead,
       OCloseEnd, CloseNotify, OShutdownActive, OJoinAcceptor, OJoinWorkers, OSpawnFails, OStop,
       Connect, Finished, vars, stateVars, workerVars, OwnerFrame
  <2>2. opc = "publish" => opc' = "publish"
    BY <1>5 DEF OwnerStep, OSpawnWorker, OSpawnAcceptor, OCloseBegin, CloseDropHead,
       OCloseEnd, OShutdownActive, OJoinAcceptor, OJoinWorkers, OSpawnFails, OStop,
       Connect, Finished, vars
  <2> QED BY <2>1, <2>2 DEF SnapshotInv
<1> QED BY <1>1, <1>2, <1>3, <1>4, <1>5 DEF Next

ShutdownInv == /\ StartInv /\ QueueInv /\ PermitsHeld
               /\ ActiveInv /\ JoinedInv /\ SnapshotInv

\* Nothing is held, registered, closed or published at the start.
LEMMA InitShutdown == Init => ShutdownInv
<1> SUFFICES ASSUME Init PROVE ShutdownInv OBVIOUS
<1>1. Len(queue) = 0 /\ \A w \in Workers : seen[w][1] = seen[w][2] BY DEF Init
<1> QED BY <1>1, BoundsAssumption
  DEF Init, ShutdownInv, StartInv, QueueInv, PermitsHeld, ActiveInv, JoinedInv, SnapshotInv,
      Started, Dropping, Returned, Handling, Free, Acceptor, Owner

\* The invariant behind the properties of the shutdown.
THEOREM ShutdownInvariance == Spec => [](IInv /\ ShutdownInv)
<1>1. Init => ShutdownInv BY InitShutdown
<1>2. IInv /\ ShutdownInv /\ [Next]_vars => ShutdownInv'
  BY NextStart, NextQueue, NextHeld, NextActive, NextJoined, NextSnapshot DEF IInv, ShutdownInv
<1>3. Spec => []IInv BY Invariance
<1> QED BY <1>1, <1>2, <1>3, PTL DEF Spec

\* Once shutdown_all has run, every stream still being handled is shut.
THEOREM ShutdownReaches == Spec => []ShutdownReachesHandlers
<1>1. ShutdownInv => ShutdownReachesHandlers
  BY DEF ShutdownInv, ActiveInv, ShutdownReachesHandlers
<1> QED BY <1>1, ShutdownInvariance, PTL

\* Timestamp and body of a response come from one report.
THEOREM SnapshotsAreAtomic == Spec => []SnapshotsAtomic
<1>1. ShutdownInv => SnapshotsAtomic
  BY DEF ShutdownInv, SnapshotInv, SnapshotsAtomic
<1> QED BY <1>1, ShutdownInvariance, PTL

\* With the queue drained and every thread joined no permit can be alive.
LEMMA NoPermitLeft ==
  ASSUME TypeInv, QueueInv, PermitsHeld, closed, qlock = Free, apc \in {"unborn", "done"},
         \A w \in Workers : wpc[w] \in {"done", "unborn"}
  PROVE  queue = <<>> /\ permits = {}
<1>1. queue = <<>> BY DEF QueueInv
<1>2. ~(\E i \in 1..Len(queue) : TRUE) BY <1>1
<1>3. \A c \in permits : FALSE
  BY <1>2 DEF PermitsHeld, WorkerPermit, Handling, AcceptorPermit
<1> QED BY <1>1, <1>3

\* Drop and a failed start return with nothing left behind.
THEOREM NothingIsLeft == Spec => []NothingOutlivesOwner
<1>1. ASSUME IInv, ShutdownInv PROVE NothingOutlivesOwner
  <2> SUFFICES ASSUME opc \in Returned PROVE NothingOutlivesOwner
    BY DEF NothingOutlivesOwner, Returned
  <2>1. /\ apc \in {"unborn", "done"} /\ qlock = Free /\ closed
        /\ \A w \in Workers : wpc[w] \in {"done", "unborn"}
        /\ \A c \in Conns : sock[c] # "backlog"
    BY <1>1 DEF IInv, ShutdownInv, StartInv, QueueInv, JoinedInv, Returned, Dropping,
       TypeInv, TypeOK
  <2>2. queue = <<>> /\ permits = {}
    BY <1>1, <2>1, NoPermitLeft DEF IInv, ShutdownInv
  <2>3. streams = {}
    <3>1. \A c \in streams : FALSE
      BY <1>1, <2>1 DEF IInv, Ownership, StreamsInv, Handling
    <3> QED BY <3>1
  <2>4. \A c \in Conns : sock[c] = "free"
    BY <1>1, <2>1, <2>2 DEF IInv, Ownership, SockInv, Undecided, TypeInv, TypeOK, SockStates
  <2>5. \A ip \in IPs : counts[ip] = 0
    <3>1. \A ip \in IPs : OfPeer(permits, ip) = {} BY <2>2 DEF OfPeer
    <3> QED BY <1>1, <3>1, FS_EmptySet DEF IInv, CountsInv
  <2> QED BY <2>1, <2>2, <2>3, <2>4, <2>5 DEF NothingOutlivesOwner
<1> QED BY <1>1, ShutdownInvariance, PTL

-----------------------------------------------------------------------------
(* The exporter implements the bounded server (safety part).               *)

\* The permits are carried by the queue, the workers and the acceptor, one by
\* each at most, which bounds them all.
LEMMA PermitBound ==
  ASSUME TypeInv, QueueInv, PermitsHeld, apc \notin AcceptorPermit
  PROVE  Cardinality(permits) < Cardinality(Workers) + QueueCapacity + 1
<1> DEFINE slots == 1..Len(queue)
           queued == {queue[i] : i \in slots}
           held == {wc[w] : w \in Workers}
<1>1. queue \in Seq(Conns) /\ Len(queue) \in Nat /\ Len(queue) <= QueueCapacity
  BY DEF TypeInv, TypeOK, QueueInv
<1>2. IsFiniteSet(slots) /\ Cardinality(slots) = Len(queue)
  <2>1. /\ IsFiniteSet(slots)
        /\ Cardinality(slots) = IF 1 > Len(queue) THEN 0 ELSE Len(queue) - 1 + 1
    BY <1>1, FS_Interval
  <2> QED BY <1>1, <2>1
<1>3. IsFiniteSet(queued) /\ Cardinality(queued) <= Cardinality(slots)
  <2>1. [i \in slots |-> queue[i]] \in Surjection(slots, queued)
    BY DEF Surjection
  <2> QED BY <1>2, <2>1, FS_Surjection
<1>4. IsFiniteSet(held) /\ Cardinality(held) <= Cardinality(Workers)
  <2>1. [w \in Workers |-> wc[w]] \in Surjection(Workers, held)
    BY DEF Surjection
  <2> QED BY <2>1, FS_Surjection, WorkersAssumption
<1>5. permits \subseteq queued \cup held
  BY DEF PermitsHeld
<1>6. IsFiniteSet(queued \cup held)
      /\ Cardinality(queued \cup held)
           = Cardinality(queued) + Cardinality(held) - Cardinality(queued \cap held)
  BY <1>3, <1>4, FS_Union
<1>7. IsFiniteSet(queued \cap held)
  <2>1. queued \cap held \in SUBSET queued OBVIOUS
  <2> QED BY <1>3, <2>1, FS_Subset
<1>8. Cardinality(permits) <= Cardinality(queued \cup held) /\ IsFiniteSet(permits)
  <2>1. permits \in SUBSET (queued \cup held) BY <1>5
  <2> QED BY <1>6, <2>1, FS_Subset
<1>9. /\ Cardinality(permits) \in Nat /\ Cardinality(queued) \in Nat
      /\ Cardinality(held) \in Nat /\ Cardinality(queued \cap held) \in Nat
      /\ Cardinality(Workers) \in Nat /\ Cardinality(queued \cup held) \in Nat
  BY <1>3, <1>4, <1>6, <1>7, <1>8, FS_CardinalityType, WorkersAssumption
<1> HIDE DEF slots, queued, held
<1> QED BY <1>1, <1>2, <1>3, <1>4, <1>6, <1>8, <1>9, BoundsAssumption

\* A released permit is a connection finished.
LEMMA ReleaseFinishes ==
  ASSUME NEW c \in Conns, c \in permits, Release(c), opc' = opc
  PROVE  Server!SNext
BY DEF Release, Server!SNext, Server!Finish

\* A step that leaves the permits and the phase alone.
LEMMA ServerStutter ==
  ASSUME permits' = permits, opc' = opc
  PROVE  UNCHANGED Server!svars
BY DEF Server!svars

\* A step of the acceptor admits one connection, drops one, or stutters.
LEMMA AcceptorServes ==
  ASSUME IInv, ShutdownInv, AcceptorStep
  PROVE  [Server!SNext]_(Server!svars)
<1>1. opc' = opc BY AcceptorFrameFacts
<1>2. CASE AAcquire
  <2>1. /\ apc = "acquire" /\ counts[Peer[ac]] < MaxPerIP /\ permits' = permits \cup {ac}
    BY <1>2 DEF AAcquire, TryAcquire
  <2>2. ac \in Conns /\ ac \notin permits /\ Peer[ac] \in IPs
    BY <2>1, PeerAssumption DEF IInv, TypeInv, HeldTyped, Ownership, DecidingInv, Deciding
  <2>3. opc \notin Returned
    BY <2>1 DEF ShutdownInv, StartInv, Returned
  <2>4. Cardinality({d \in permits : Peer[d] = Peer[ac]}) < MaxPerIP
    BY <2>1, <2>2 DEF IInv, CountsInv, OfPeer
  <2>5. Cardinality(permits) < Cardinality(Workers) + QueueCapacity + 1
    BY <2>1, PermitBound DEF IInv, ShutdownInv, AcceptorPermit
  <2>6. Server!Admit(ac)
    <3>1. (IF opc \in {"spawn", "running", "publish"} THEN "up"
           ELSE IF opc \in {"gone", "failed"} THEN "down" ELSE "stopping") # "down"
      BY <2>3 DEF Returned
    <3>2. UNCHANGED (IF opc \in {"spawn", "running", "publish"} THEN "up"
                     ELSE IF opc \in {"gone", "failed"} THEN "down" ELSE "stopping")
      BY <1>1
    <3>3. \A S : Server!Cardinality(S) = Cardinality(S)
      BY DEF Server!Cardinality, Cardinality, Server!IsFiniteSet, IsFiniteSet
    <3> QED BY <2>1, <2>2, <2>4, <2>5, <3>1, <3>2, <3>3 DEF Server!Admit
  <2> QED BY <2>2, <2>6 DEF Server!SNext
<1>3. CASE ARelease
  <2>1. ac \in Conns /\ ac \in permits
    BY <1>3 DEF ARelease, IInv, TypeInv, HeldTyped, Ownership, AcceptorOwns, AcceptorPermit
  <2> QED BY <1>1, <1>3, <2>1, ReleaseFinishes DEF ARelease
<1>4. CASE CloseDropHead(Acceptor)
  <2>1. Head(queue) \in Conns /\ Head(queue) \in permits
    BY <1>4, TailFacts DEF CloseDropHead, IInv, TypeInv, TypeOK, Ownership, QueueOwns
  <2> QED BY <1>1, <1>4, <2>1, ReleaseFinishes DEF CloseDropHead
<1>5. AAcquire \/ ARelease \/ CloseDropHead(Acceptor) \/ permits' = permits
  BY DEF AcceptorStep, ACheckStop, AAccept, AConfigureFails, AAcceptNothing,
     AAcceptError, AAcquireRefused, ARefuse, APush, APushRefused, ARejectFull,
     ADropLate, ACloseBegin, CloseBegin, ACloseEnd, CloseNotify, admissionVars
<1> QED BY <1>1, <1>2, <1>3, <1>4, <1>5, ServerStutter

\* A step of a worker finishes one connection or stutters.
LEMMA WorkerServes ==
  ASSUME IInv, NEW w \in Workers, WorkerStep(w) \/ SpuriousWakeup(w)
  PROVE  [Server!SNext]_(Server!svars)
<1>1. opc' = opc BY WorkerFrameFacts
<1>2. CASE WRelease(w)
  <2>1. wc[w] \in Conns /\ wc[w] \in permits
    BY <1>2 DEF WRelease, IInv, TypeInv, HeldTyped, Ownership, WorkersOwn, WorkerPermit
  <2> QED BY <1>1, <1>2, <2>1, ReleaseFinishes DEF WRelease
<1>3. WRelease(w) \/ permits' = permits
  BY DEF WorkerStep, SpuriousWakeup, WPop, WPopEmpty, WRegister, WRegisterFails,
     WRead, WRoute, WRespond, WShut, WUnregister, WClose, admissionVars
<1> QED BY <1>1, <1>2, <1>3, ServerStutter

\* A step of the owner begins or ends the stop, drops a connection, or stutters.
LEMMA OwnerServes ==
  ASSUME IInv, ShutdownInv, OwnerStep \/ OSpawnFails \/ OSetReportBegin \/ OStop
  PROVE  [Server!SNext]_(Server!svars)
<1>1. CASE OSpawnFails \/ OStop
  <2>1. opc \in {"spawn", "running"} /\ opc' = "close" /\ permits' = permits
    BY <1>1 DEF OSpawnFails, OStop, OwnerGoto, admissionVars
  <2> QED BY <2>1 DEF Server!SNext, Server!BeginStop
<1>2. CASE CloseDropHead(Owner)
  <2>1. Head(queue) \in Conns /\ Head(queue) \in permits /\ opc' = opc
    BY <1>2, TailFacts DEF CloseDropHead, IInv, TypeInv, TypeOK, Ownership, QueueOwns
  <2> QED BY <1>2, <2>1, ReleaseFinishes DEF CloseDropHead
<1>3. CASE OJoinWorkers
  <2>1. /\ opc \in {"joinWorkers", "joinFailed"} /\ opc' \in {"gone", "failed"}
        /\ permits' = permits /\ \A w \in Workers : wpc[w] \in {"done", "unborn"}
    BY <1>3 DEF OJoinWorkers, OwnerGoto, admissionVars
  <2>2. closed /\ apc \in {"unborn", "done"} /\ qlock = Free
    BY <2>1 DEF IInv, ShutdownInv, StartInv, QueueInv, Dropping, TypeInv, TypeOK
  <2>3. permits = {}
    BY <2>1, <2>2, NoPermitLeft DEF IInv, ShutdownInv
  <2> QED BY <2>1, <2>3 DEF Server!SNext, Server!Down
<1>4. ASSUME \/ \E w \in Workers : OSpawnWorker(w)
             \/ OSpawnAcceptor \/ OSetReportBegin \/ OSetReportEnd
      PROVE  UNCHANGED Server!svars
  <2>1. permits' = permits /\ {opc, opc'} \subseteq {"spawn", "running", "publish"}
    BY <1>4 DEF OSpawnWorker, OSpawnAcceptor, OSetReportBegin, OSetReportEnd, OwnerGoto,
       admissionVars
  <2> QED BY <2>1 DEF Server!svars
<1>5. CASE OCloseBegin \/ OCloseEnd \/ OShutdownActive \/ OJoinAcceptor
  <2>1. permits' = permits
        /\ {opc, opc'} \subseteq {"close", "drain", "shutdownActive", "joinAcceptor",
                                  "joinWorkers", "joinFailed"}
    BY <1>5 DEF OCloseBegin, CloseBegin, OCloseEnd, CloseNotify, OShutdownActive, OJoinAcceptor,
       OwnerGoto, admissionVars
  <2> QED BY <2>1 DEF Server!svars
<1> QED BY <1>1, <1>2, <1>3, <1>4, <1>5 DEF OwnerStep

\* Every behaviour of the exporter is one of the bounded server: the safety
\* part of ImplementsBoundedServer.
THEOREM ExporterIsBounded ==
  Spec => Server!SInit /\ [][Server!SNext]_(Server!svars)
<1>1. Init => Server!SInit BY DEF Init, Server!SInit
<1>2. ASSUME IInv, ShutdownInv, [Next]_vars PROVE [Server!SNext]_(Server!svars)
  <2>1. ASSUME (\E c \in Conns : Connect(c)) \/ Finished \/ UNCHANGED vars
        PROVE  UNCHANGED Server!svars
    BY <2>1, ServerStutter DEF Connect, Finished, vars, admissionVars
  <2> QED BY <1>2, <2>1, AcceptorServes, WorkerServes, OwnerServes DEF Next
<1> QED BY <1>1, <1>2, ShutdownInvariance, PTL DEF Spec

-----------------------------------------------------------------------------
(* One connection, for any bytes in any pieces.                            *)

CONSTANTS Wires, CR, LF, Filler, MaxLine, MaxHeader, MaxHeaders, Chunk, ReadTime, WriteTime,
          Freshness, MaxAge, ResponseSize, None
VARIABLES wire, secured, phase, bytes, request, left, response, sent, state

Http == INSTANCE HttpRequest

\* A set that has 0, and with each number its successor, has every natural
\* number: a least one without would leave a place for one too many.
LEMMA SetInduction ==
  ASSUME NEW S, 0 \in S, \A n \in Nat : n \in S => n + 1 \in S
  PROVE  Nat \subseteq S
<1> SUFFICES ASSUME NEW m \in Nat, m \notin S
             PROVE  FALSE
  OBVIOUS
<1> DEFINE T == {x \in 0..m : x \in S}
           f == [x \in T |-> x + 1]
<1>1. IsFiniteSet(T)
  BY FS_Interval, FS_Subset, 0 \in Int, m \in Int
<1>2. 0 \in T
  OBVIOUS
<1>3. IsFiniteSet(T \ {0}) /\ Cardinality(T \ {0}) = Cardinality(T) - 1
  BY <1>1, <1>2, FS_RemoveElement
<1>4. Cardinality(T) \in Nat
  BY <1>1, FS_CardinalityType
<1>5. f \in [T -> T \ {0}]
  <2> SUFFICES ASSUME NEW x \in T
               PROVE  x + 1 \in T \ {0}
    OBVIOUS
  <2> QED BY x # m
<1>6. \E x, y \in T : x # y /\ f[x] = f[y]
  <2> HIDE DEF T, f
  <2> QED BY <1>1, <1>3, <1>4, <1>5, FS_PigeonHole
<1> QED BY <1>6

\* One sequence of bytes is the beginning of another.
Begins(s, b) ==
  /\ Len(s) \in Nat /\ Len(b) \in Nat /\ Len(s) <= Len(b)
  /\ DOMAIN s = 1..Len(s) /\ DOMAIN b = 1..Len(b)
  /\ \A i \in 1..Len(s) : s[i] = b[i]

\* What has been read stays within the limits, because no read asks for more.
Bounded(s) ==
  /\ Http!Crlfs(s) = {} => Len(s) <= MaxLine + 2
  /\ Http!Crlfs(s) # {} => /\ Http!LineLength(s) <= MaxLine
                           /\ Len(s) <= Http!LineLength(s) + 2 + MaxHeader

\* A non-empty set of natural numbers has a smallest one, and Least is it.
LEMMA LeastFacts ==
  ASSUME NEW T \in SUBSET Nat, T # {}
  PROVE  Http!Least(T) \in T /\ \A x \in T : Http!Least(T) <= x
<1> DEFINE S == {k \in Nat : (\E x \in T : x <= k) => \E x \in T : \A y \in T : x <= y}
<1>1. 0 \in S
  OBVIOUS
<1>2. ASSUME NEW k \in Nat, k \in S
      PROVE  k + 1 \in S
  <2>1. ASSUME NEW z \in T, z <= k + 1, ~ \E x \in T : x <= k
        PROVE  \A y \in T : z <= y
    BY <2>1
  <2> QED BY <1>2, <2>1
<1>3. Nat \subseteq S
  <2> HIDE DEF S
  <2> QED BY <1>1, <1>2, SetInduction
<1>4. \E x \in T : \A y \in T : x <= y
  <2>1. PICK x \in T : x \in Nat
    OBVIOUS
  <2>2. x <= x
    BY <2>1
  <2> QED BY <1>3, <2>1, <2>2
<1> QED BY <1>4 DEF Http!Least

\* The ends of lines and of the header in a beginning are those of the whole
\* that it reaches.
LEMMA PrefixEnds ==
  ASSUME NEW s, NEW b, Begins(s, b)
  PROVE  /\ \A i : i \in Http!Crlfs(s) <=> i \in Http!Crlfs(b) /\ i < Len(s)
         /\ \A i : i \in Http!HeaderEnds(s) <=> i \in Http!HeaderEnds(b) /\ i <= Len(s)
<1>1. \A i : i \in Http!Crlfs(s) <=> i \in Http!Crlfs(b) /\ i < Len(s)
  BY DEF Begins, Http!Crlfs
<1>2. \A i : i \in Http!Crlfs(b) => i \in Nat
  BY DEF Begins, Http!Crlfs
<1>3. \A i : i \in Http!HeaderEnds(b) <=>
                \E j \in Http!Crlfs(b) : j + 2 \in Http!Crlfs(b) /\ i = j + 3
  BY DEF Http!HeaderEnds
<1>4. \A i : i \in Http!HeaderEnds(s) <=>
                \E j \in Http!Crlfs(s) : j + 2 \in Http!Crlfs(s) /\ i = j + 3
  BY DEF Http!HeaderEnds
<1>5. Len(s) \in Nat
  BY DEF Begins
<1>6. ASSUME NEW i
      PROVE  i \in Http!HeaderEnds(s) <=> i \in Http!HeaderEnds(b) /\ i <= Len(s)
  <2>1. ASSUME i \in Http!HeaderEnds(s)
        PROVE  i \in Http!HeaderEnds(b) /\ i <= Len(s)
    <3>1. PICK j \in Http!Crlfs(s) : j + 2 \in Http!Crlfs(s) /\ i = j + 3
      BY <1>4, <2>1
    <3>2. j \in Http!Crlfs(b) /\ j + 2 \in Http!Crlfs(b) /\ j + 2 < Len(s) /\ j \in Nat
      BY <1>1, <1>2, <3>1
    <3>3. i <= Len(s)
      BY <1>5, <3>1, <3>2
    <3> QED BY <1>3, <3>1, <3>2, <3>3
  <2>2. ASSUME i \in Http!HeaderEnds(b), i <= Len(s)
        PROVE  i \in Http!HeaderEnds(s)
    <3>1. PICK j \in Http!Crlfs(b) : j + 2 \in Http!Crlfs(b) /\ i = j + 3
      BY <1>3, <2>2
    <3>2. j \in Nat /\ j < Len(s) /\ j + 2 < Len(s)
      BY <1>2, <1>5, <2>2, <3>1
    <3>3. j \in Http!Crlfs(s) /\ j + 2 \in Http!Crlfs(s)
      BY <1>1, <3>1, <3>2
    <3> QED BY <1>4, <3>1, <3>3
  <2> QED BY <2>1, <2>2
<1> QED BY <1>1, <1>6

\* Where the first line and the header end does not change as more is read.
LEMMA FirstEnds ==
  ASSUME NEW s, NEW b, Begins(s, b)
  PROVE  /\ Http!Crlfs(s) # {} =>
              /\ Http!LineLength(s) \in Nat /\ Http!LineLength(s) = Http!LineLength(b)
              /\ Http!LineLength(s) + 1 \in Http!Crlfs(s)
              /\ \A i \in Http!Crlfs(b) : Http!LineLength(s) + 1 <= i
         /\ Http!HeaderEnds(s) # {} =>
              /\ Http!Least(Http!HeaderEnds(s)) = Http!Least(Http!HeaderEnds(b))
              /\ Http!Least(Http!HeaderEnds(s)) \in Http!HeaderEnds(s)
<1>1. /\ \A i : i \in Http!Crlfs(s) <=> i \in Http!Crlfs(b) /\ i < Len(s)
      /\ \A i : i \in Http!HeaderEnds(s) <=> i \in Http!HeaderEnds(b) /\ i <= Len(s)
  BY PrefixEnds
<1>2. Http!Crlfs(b) \subseteq Nat \ {0} /\ Http!HeaderEnds(b) \subseteq Nat /\ Len(s) \in Nat
  BY DEF Begins, Http!Crlfs, Http!HeaderEnds
<1>3. ASSUME NEW T \in SUBSET Nat, NEW U \in SUBSET T, U # {}, NEW m \in Nat,
             \/ \A i : i \in U <=> i \in T /\ i < m
             \/ \A i : i \in U <=> i \in T /\ i <= m
      PROVE  Http!Least(U) = Http!Least(T) /\ Http!Least(U) \in U
  <2>1. U \in SUBSET Nat /\ T # {}
    BY <1>3
  <2>2. Http!Least(U) \in U /\ \A x \in U : Http!Least(U) <= x
    BY <1>3, <2>1, LeastFacts
  <2>3. Http!Least(T) \in T /\ \A x \in T : Http!Least(T) <= x
    BY <2>1, LeastFacts
  <2>4. Http!Least(T) <= Http!Least(U) /\ Http!Least(T) \in Nat /\ Http!Least(U) \in Nat
    BY <2>1, <2>2, <2>3
  <2>5. Http!Least(T) \in U
    BY <1>3, <2>2, <2>3, <2>4
  <2>6. Http!Least(U) <= Http!Least(T)
    BY <2>2, <2>5
  <2> QED BY <2>2, <2>4, <2>6
<1>4. ASSUME Http!Crlfs(s) # {}
      PROVE  /\ Http!LineLength(s) \in Nat /\ Http!LineLength(s) = Http!LineLength(b)
             /\ Http!LineLength(s) + 1 \in Http!Crlfs(s)
             /\ \A i \in Http!Crlfs(b) : Http!LineLength(s) + 1 <= i
  <2>1. /\ Http!Crlfs(b) \in SUBSET Nat /\ Http!Crlfs(s) \in SUBSET Http!Crlfs(b)
        /\ Http!Crlfs(b) # {}
    BY <1>1, <1>2, <1>4
  <2>2. /\ Http!Least(Http!Crlfs(s)) = Http!Least(Http!Crlfs(b))
        /\ Http!Least(Http!Crlfs(s)) \in Http!Crlfs(s)
    BY <1>1, <1>2, <1>3, <1>4, <2>1
  <2>3. \A i \in Http!Crlfs(b) : Http!Least(Http!Crlfs(b)) <= i
    BY <2>1, LeastFacts
  <2>4. Http!Least(Http!Crlfs(s)) \in Nat \ {0}
    BY <1>2, <2>1, <2>2
  <2>5. /\ Http!LineLength(s) = Http!Least(Http!Crlfs(s)) - 1
        /\ Http!LineLength(b) = Http!Least(Http!Crlfs(b)) - 1
    BY DEF Http!LineLength
  <2>6. Http!LineLength(s) + 1 = Http!Least(Http!Crlfs(s)) /\ Http!LineLength(s) \in Nat
    BY <2>4, <2>5
  <2> QED BY <2>2, <2>3, <2>5, <2>6
<1>5. ASSUME Http!HeaderEnds(s) # {}
      PROVE  /\ Http!Least(Http!HeaderEnds(s)) = Http!Least(Http!HeaderEnds(b))
             /\ Http!Least(Http!HeaderEnds(s)) \in Http!HeaderEnds(s)
  <2>1. /\ Http!HeaderEnds(b) \in SUBSET Nat
        /\ Http!HeaderEnds(s) \in SUBSET Http!HeaderEnds(b)
    BY <1>1, <1>2
  <2> QED BY <1>1, <1>2, <1>3, <1>5, <2>1
<1> QED BY <1>4, <1>5

\* A header that has arrived is within the limits ...
LEMMA WholeVerdict ==
  ASSUME Http!HttpAssumption, NEW s, NEW b, Begins(s, b), Bounded(s), Http!HeaderEnds(s) # {}
  PROVE  Http!Verdict(b) = 200
<1> DEFINE e == Http!Least(Http!HeaderEnds(s))
           n == Http!LineLength(b)
<1>1. MaxLine \in Nat /\ MaxHeader \in Nat
  BY DEF Http!HttpAssumption
<1>2. e \in Http!HeaderEnds(s) /\ e \in Http!HeaderEnds(b) /\ e <= Len(s)
  BY FirstEnds, PrefixEnds
<1>3. Http!Crlfs(s) # {}
  BY DEF Http!HeaderEnds
<1>4. /\ n \in Nat /\ n <= MaxLine /\ Len(s) <= n + 2 + MaxHeader
      /\ n + 1 \in Http!Crlfs(b)
  BY <1>3, FirstEnds, PrefixEnds DEF Bounded
<1>5. e \in Nat /\ Len(s) \in Nat
  BY <1>2 DEF Begins, Http!HeaderEnds, Http!Crlfs
<1>6. e - (n + 2) <= MaxHeader /\ n + 1 \in 1..(MaxLine + 1)
  BY <1>1, <1>2, <1>4, <1>5
<1> HIDE DEF e, n
<1>7. e \in {i \in Http!HeaderEnds(b) : i - (n + 2) <= MaxHeader}
  BY <1>2, <1>6
<1>8. Http!Crlfs(b) \cap (1..MaxLine + 1) # {}
  BY <1>4, <1>6
<1> QED BY <1>7, <1>8 DEF Http!Verdict, n

\* ... what is refused for its size exceeds one ...
LEMMA PartialVerdict ==
  ASSUME Http!HttpAssumption, NEW s, NEW b, Begins(s, b), Bounded(s), Http!HeaderEnds(s) = {},
         Http!PartialError(s) # None
  PROVE  Http!PartialError(s) \in {414, 431} /\ Http!Verdict(b) = Http!PartialError(s)
<1>1. MaxLine \in Nat /\ MaxHeader \in Nat
  BY DEF Http!HttpAssumption
<1>2. /\ Len(s) \in Nat /\ Len(b) \in Nat /\ Len(s) <= Len(b)
      /\ \A i \in 1..Len(s) : s[i] = b[i]
  BY DEF Begins
<1>3. CASE Http!Crlfs(s) = {}
  <2>1. /\ \/ Len(s) > MaxLine + 1
           \/ Len(s) = MaxLine + 1 /\ s[Len(s)] # CR
        /\ Http!PartialError(s) = 414
    BY <1>3 DEF Http!PartialError
  <2>2. Http!Crlfs(b) \cap (1..MaxLine + 1) = {}
    <3> SUFFICES ASSUME NEW i \in Http!Crlfs(b), i \in 1..(MaxLine + 1)
                 PROVE  FALSE
      OBVIOUS
    <3>1. ~(i < Len(s))
      BY <1>3, PrefixEnds
    <3>2. i = MaxLine + 1 /\ Len(s) = MaxLine + 1
      BY <1>1, <1>2, <2>1, <3>1
    <3>3. b[i] = CR
      BY DEF Http!Crlfs
    <3>4. s[Len(s)] = b[Len(s)]
      BY <1>1, <1>2, <3>2
    <3> QED BY <2>1, <3>2, <3>3, <3>4, <1>1
  <2>3. Len(b) > MaxLine + 1 \/ (Len(b) = MaxLine + 1 /\ b[Len(b)] # CR)
    <3>1. CASE Len(b) > MaxLine + 1
      BY <3>1
    <3>2. CASE ~(Len(b) > MaxLine + 1)
      <4>1. Len(b) = MaxLine + 1 /\ Len(s) = MaxLine + 1
        BY <1>1, <1>2, <2>1, <3>2
      <4>2. s[Len(s)] = b[Len(b)]
        BY <1>1, <1>2, <4>1
      <4> QED BY <1>1, <2>1, <4>1, <4>2
    <3> QED BY <3>1, <3>2
  <2> QED BY <2>1, <2>2, <2>3 DEF Http!Verdict
<1>4. CASE Http!Crlfs(s) # {}
  <2> DEFINE n == Http!LineLength(s)
  <2>1. /\ n \in Nat /\ n <= MaxLine /\ n = Http!LineLength(b)
        /\ n + 1 \in Http!Crlfs(b)
    BY <1>4, FirstEnds, PrefixEnds DEF Bounded
  <2>2. Len(s) - (n + 2) >= MaxHeader /\ Http!PartialError(s) = 431
    <3>1. ~(n > MaxLine)
      BY <1>1, <2>1
    <3> QED BY <1>4, <3>1 DEF Http!PartialError
  <2> HIDE DEF n
  <2>3. Http!Crlfs(b) \cap (1..MaxLine + 1) # {}
    <3>1. n + 1 \in 1..(MaxLine + 1)
      BY <1>1, <2>1
    <3> QED BY <2>1, <3>1
  <2>4. {i \in Http!HeaderEnds(b) : i - (n + 2) <= MaxHeader} = {}
    <3> SUFFICES ASSUME NEW i \in Http!HeaderEnds(b), i - (n + 2) <= MaxHeader
                 PROVE  FALSE
      OBVIOUS
    <3>1. i \in Nat
      BY DEF Http!HeaderEnds, Http!Crlfs
    <3>2. i <= Len(s)
      BY <1>1, <1>2, <2>1, <2>2, <3>1
    <3> QED BY <3>2, PrefixEnds
  <2>5. Len(b) - (n + 2) >= MaxHeader
    BY <1>1, <1>2, <2>1, <2>2
  <2> QED BY <2>1, <2>2, <2>3, <2>4, <2>5 DEF Http!Verdict
<1> QED BY <1>3, <1>4

\* ... and what ends without a header, within them, is neither.
LEMMA EndVerdict ==
  ASSUME Http!HttpAssumption, NEW b, Begins(b, b), Bounded(b), Http!HeaderEnds(b) = {},
         Http!PartialError(b) = None
  PROVE  Http!Verdict(b) = None
<1>1. MaxLine \in Nat /\ MaxHeader \in Nat /\ None \notin Nat /\ Len(b) \in Nat
  BY DEF Http!HttpAssumption, Begins
<1>2. None # 414 /\ None # 431
  BY <1>1
<1>3. CASE Http!Crlfs(b) = {}
  <2>1. ~ \/ Len(b) > MaxLine + 1
          \/ Len(b) = MaxLine + 1 /\ b[Len(b)] # CR
    BY <1>2, <1>3 DEF Http!PartialError
  <2>2. Http!Crlfs(b) \cap (1..MaxLine + 1) = {}
    BY <1>3
  <2> QED BY <2>1, <2>2 DEF Http!Verdict
<1>4. CASE Http!Crlfs(b) # {}
  <2> DEFINE n == Http!LineLength(b)
  <2>1. n \in Nat /\ n <= MaxLine /\ n + 1 \in Http!Crlfs(b)
    BY <1>4, FirstEnds DEF Bounded
  <2>2. ~(Len(b) - (n + 2) >= MaxHeader)
    <3>1. ~(n > MaxLine)
      BY <1>1, <2>1
    <3> QED BY <1>2, <1>4, <3>1 DEF Http!PartialError
  <2> HIDE DEF n
  <2>3. n + 1 \in Http!Crlfs(b) \cap (1..MaxLine + 1)
    BY <1>1, <2>1
  <2>4. {i \in Http!HeaderEnds(b) : i - (n + 2) <= MaxHeader} = {}
    OBVIOUS
  <2> QED BY <2>2, <2>3, <2>4 DEF Http!Verdict, n
<1> QED BY <1>3, <1>4

\* A read of no more than the capacity keeps the bounds.
LEMMA ReadBounded ==
  ASSUME Http!HttpAssumption, NEW s, NEW b, Begins(s, b), Bounded(s),
         Len(b) - Len(s) <= Http!Capacity(s)
  PROVE  Bounded(b)
<1>1. MaxLine \in Nat /\ MaxHeader \in Nat /\ MaxLine + 2 <= MaxHeader
  BY DEF Http!HttpAssumption
<1>2. Len(s) \in Nat /\ Len(b) \in Nat /\ Begins(b, b)
  BY DEF Begins
<1>3. CASE Http!Crlfs(s) = {}
  <2>1. Len(b) <= MaxLine + 2
    <3>1. Http!Capacity(s) = (MaxLine + 2) - Len(s)
      BY <1>3 DEF Http!Capacity
    <3> QED BY <1>1, <1>2, <3>1
  <2>2. ASSUME Http!Crlfs(b) # {}
        PROVE  /\ Http!LineLength(b) <= MaxLine
               /\ Len(b) <= Http!LineLength(b) + 2 + MaxHeader
    <3>1. Http!LineLength(b) \in Nat /\ Http!LineLength(b) + 1 \in Http!Crlfs(b)
      BY <1>2, <2>2, FirstEnds
    <3>2. Http!LineLength(b) + 1 < Len(b)
      BY <1>2, <3>1, PrefixEnds
    <3> QED BY <1>1, <1>2, <2>1, <3>1, <3>2
  <2> QED BY <2>1, <2>2 DEF Bounded
<1>4. CASE Http!Crlfs(s) # {}
  <2>1. /\ Http!LineLength(s) \in Nat /\ Http!LineLength(s) = Http!LineLength(b)
        /\ Http!LineLength(s) <= MaxLine
        /\ Http!Crlfs(b) # {}
    BY <1>4, FirstEnds, PrefixEnds DEF Bounded
  <2>2. Http!Capacity(s) = (Http!LineLength(s) + 2 + MaxHeader) - Len(s)
    BY <1>4 DEF Http!Capacity
  <2>3. Len(b) <= Http!LineLength(b) + 2 + MaxHeader
    BY <1>1, <1>2, <2>1, <2>2
  <2> QED BY <2>1, <2>3 DEF Bounded
<1> QED BY <1>3, <1>4
-----------------------------------------------------------------------------
(* The lines of a header, by the places of their ends.                     *)

\* The instance counts as this module does.
LEMMA SameCardinality ==
  ASSUME NEW S
  PROVE  Http!Cardinality(S) = Cardinality(S)
BY DEF Http!Cardinality, Http!IsFiniteSet, Cardinality, IsFiniteSet

\* The ends are counted from the first to the last.
LEMMA RankFacts ==
  ASSUME NEW h, Len(h) \in Nat
  PROVE  /\ IsFiniteSet(Http!Crlfs(h)) /\ Cardinality(Http!Crlfs(h)) \in Nat
         /\ \A k \in Http!Crlfs(h) : Http!Rank(h, k) \in 1..Cardinality(Http!Crlfs(h))
         /\ \A k, l \in Http!Crlfs(h) : k < l => Http!Rank(h, k) < Http!Rank(h, l)
<1> DEFINE C == Http!Crlfs(h)
           Upto(k) == {j \in C : j <= k}
<1>1. C \in SUBSET (1..Len(h)) /\ C \subseteq Int
  BY DEF Http!Crlfs
<1>2. IsFiniteSet(1..Len(h))
  BY FS_Interval
<1>3. IsFiniteSet(C)
  BY <1>1, <1>2, FS_Subset
<1>4. Cardinality(C) \in Nat
  BY <1>3, FS_CardinalityType
<1>5. \A k \in C : /\ Upto(k) \in SUBSET C /\ k \in Upto(k)
                   /\ \A l \in C : k < l => Upto(k) \in SUBSET Upto(l) /\ l \notin Upto(k)
  BY <1>1
<1>6. ASSUME NEW k \in C
      PROVE  Http!Rank(h, k) = Cardinality(Upto(k))
  BY SameCardinality DEF Http!Rank
<1> HIDE DEF C, Upto
<1>7. ASSUME NEW k \in C
      PROVE  IsFiniteSet(Upto(k)) /\ Cardinality(Upto(k)) \in 1..Cardinality(C)
  <2>1. IsFiniteSet(Upto(k)) /\ Cardinality(Upto(k)) <= Cardinality(C)
    BY <1>3, <1>5, FS_Subset
  <2>2. Cardinality(Upto(k)) \in Nat /\ Cardinality(Upto(k)) # 0
    BY <1>5, <2>1, FS_CardinalityType, FS_EmptySet
  <2> QED BY <1>4, <2>1, <2>2
<1>8. ASSUME NEW k \in C, NEW l \in C, k < l
      PROVE  Cardinality(Upto(k)) < Cardinality(Upto(l))
  <2>1. Upto(k) \in SUBSET Upto(l) /\ Upto(k) # Upto(l)
    BY <1>5, <1>8
  <2>2. Cardinality(Upto(k)) <= Cardinality(Upto(l)) /\ Cardinality(Upto(k)) # Cardinality(Upto(l))
    BY <1>7, <2>1, FS_Subset
  <2>3. Cardinality(Upto(k)) \in Int /\ Cardinality(Upto(l)) \in Int
    BY <1>4, <1>7
  <2> QED BY <2>2, <2>3
<1> QED BY <1>3, <1>4, <1>6, <1>7, <1>8 DEF C

\* LineEnd finds each of them by its number.
LEMMA LineEndFacts ==
  ASSUME NEW h, Len(h) \in Nat
  PROVE  /\ \A i \in 1..Cardinality(Http!Crlfs(h)) :
              Http!LineEnd(h, i) \in Http!Crlfs(h) /\ Http!Rank(h, Http!LineEnd(h, i)) = i
         /\ \A k \in Http!Crlfs(h) : Http!LineEnd(h, Http!Rank(h, k)) = k
<1> DEFINE C == Http!Crlfs(h)
           n == Cardinality(C)
<1>1. /\ IsFiniteSet(C) /\ n \in Nat
      /\ \A k \in C : Http!Rank(h, k) \in 1..n
      /\ \A k, l \in C : k < l => Http!Rank(h, k) < Http!Rank(h, l)
  BY RankFacts
<1>2. C \subseteq Int
  BY DEF Http!Crlfs
<1> HIDE DEF C, n
<1>4. \A k, l \in C : Http!Rank(h, k) = Http!Rank(h, l) => k = l
  <2> SUFFICES ASSUME NEW k \in C, NEW l \in C, k # l
               PROVE  Http!Rank(h, k) # Http!Rank(h, l)
    OBVIOUS
  <2>1. k < l \/ l < k
    BY <1>2
  <2> QED BY <1>1, <2>1
<1>5. ASSUME NEW i \in 1..n
      PROVE  \E k \in C : Http!Rank(h, k) = i
  <2> SUFFICES ASSUME \A k \in C : Http!Rank(h, k) # i
               PROVE  FALSE
    OBVIOUS
  <2> DEFINE f == [k \in C |-> Http!Rank(h, k)]
             P == (1..n) \ {i}
  <2>1. f \in [C -> P]
    BY <1>1
  <2>2. IsFiniteSet(1..n) /\ Cardinality(1..n) = n
    BY <1>1, FS_Interval
  <2>3. IsFiniteSet(P) /\ Cardinality(P) = n - 1
    BY <2>2, FS_RemoveElement
  <2>4. Cardinality(P) < Cardinality(C)
    BY <1>1, <2>3 DEF n
  <2>5. \E k, l \in C : k # l /\ f[k] = f[l]
    <3> HIDE DEF f, P
    <3> QED BY <1>1, <2>1, <2>3, <2>4, FS_PigeonHole
  <2> QED BY <1>4, <2>5
<1>6. ASSUME NEW i \in 1..n
      PROVE  Http!LineEnd(h, i) \in C /\ Http!Rank(h, Http!LineEnd(h, i)) = i
  BY <1>5 DEF Http!LineEnd, C
<1>7. ASSUME NEW k \in C
      PROVE  Http!LineEnd(h, Http!Rank(h, k)) = k
  BY <1>1, <1>4, <1>6
<1> QED BY <1>6, <1>7 DEF C, n

-----------------------------------------------------------------------------
(* One line after the other.                                               *)

\* A non-empty bounded set of numbers has a largest one, and Max is it.
LEMMA LargestOf ==
  ASSUME NEW n \in Nat, NEW T \in SUBSET (0..n), T # {}
  PROVE  Http!Max(T) \in T /\ \A x \in T : x <= Http!Max(T)
<1> DEFINE S == {k \in Nat : k <= n /\ (\E x \in T : x >= n - k)
                               => \E x \in T : \A y \in T : y <= x}
<1>1. 0 \in S
  OBVIOUS
<1>2. ASSUME NEW k \in Nat, k \in S
      PROVE  k + 1 \in S
  <2>0. k <= n /\ (\E x \in T : x >= n - k) => \E x \in T : \A y \in T : y <= x
    BY <1>2
  <2>1. ASSUME k + 1 <= n, NEW z \in T, z >= n - (k + 1)
        PROVE  \E x \in T : \A y \in T : y <= x
    <3>1. CASE \E x \in T : x >= n - k
      BY <3>1, <2>0, <2>1
    <3>2. CASE ~ \E x \in T : x >= n - k
      <4>1. \A y \in T : y <= z
        BY <3>2, <2>1
      <4> QED BY <4>1
    <3> QED BY <3>1, <3>2
  <2> QED BY <2>0, <2>1
<1>3. n \in S
  <2> HIDE DEF S
  <2> QED BY <1>1, <1>2, SetInduction
<1>4. \E x \in T : \A y \in T : y <= x
  <2>1. PICK x \in T : x \in 0..n
    OBVIOUS
  <2>2. n - n = 0 /\ n <= n
    OBVIOUS
  <2> QED BY <1>3, <2>1, <2>2
<1> QED BY <1>4 DEF Http!Max

HeaderStep(lines, a, i) == Http!Header(a, lines[i])
HeaderFold(lines, n, f) == [T \in SUBSET (1..n) |->
                              IF T = {} THEN Http!NoHeaders
                              ELSE HeaderStep(lines, f[T \ {Http!Max(T)}], Http!Max(T))]

\* The function that FoldLeft chooses by its recursive equation exists.
LEMMA HeaderFoldExists ==
  ASSUME NEW n \in Nat, NEW lines
  PROVE  \E f : f = HeaderFold(lines, n, f)
<1> DEFINE D == SUBSET (1..n)
           Size(T) == Cardinality(T)
           Value(f, T) == IF T = {} THEN Http!NoHeaders
                          ELSE HeaderStep(lines, f[T \ {Http!Max(T)}], Http!Max(T))
           Upto(k) == \E f : \A T \in D : Size(T) <= k => f[T] = Value(f, T)
           N == {k \in Nat : Upto(k)}
<1>1. \A T \in D : IsFiniteSet(T) /\ Size(T) \in Nat /\ Size(T) <= Size(1..n)
  <2>1. IsFiniteSet(1..n)
    BY FS_Interval
  <2> QED BY <2>1, FS_Subset, FS_CardinalityType
<1>2. \A T \in D : T # {} => /\ T \ {Http!Max(T)} \in D
                             /\ Size(T \ {Http!Max(T)}) = Size(T) - 1
  <2> SUFFICES ASSUME NEW T \in D, T # {}
               PROVE  /\ T \ {Http!Max(T)} \in D
                      /\ Size(T \ {Http!Max(T)}) = Size(T) - 1
    OBVIOUS
  <2>1. T \in SUBSET (0..n)
    OBVIOUS
  <2>2. Http!Max(T) \in T
    BY <2>1, LargestOf
  <2> QED BY <1>1, <2>2, FS_RemoveElement
<1>3. {} \in D /\ Size({}) = 0 /\ 1..n \in D /\ \A T \in D : Size(T) = 0 => T = {}
  BY <1>1, FS_EmptySet
<1> HIDE DEF D, Size
<1>4. 0 \in N
  <2> DEFINE f == [T \in D |-> Http!NoHeaders]
  <2>1. \A T \in D : Size(T) <= 0 => f[T] = Value(f, T)
    BY <1>1, <1>3
  <2> QED BY <2>1
<1>5. ASSUME NEW k \in Nat, k \in N
      PROVE  k + 1 \in N
  <2>1. PICK f : \A T \in D : Size(T) <= k => f[T] = Value(f, T)
    BY <1>5
  <2> DEFINE g == [T \in D |-> IF Size(T) = k + 1 THEN Value(f, T) ELSE f[T]]
  <2>2. ASSUME NEW T \in D, Size(T) <= k + 1
        PROVE  g[T] = Value(g, T)
    <3>1. CASE T = {}
      <4>1. Size(T) = 0 /\ Size(T) <= k /\ Size(T) # k + 1
        BY <1>3, <3>1
      <4>2. g[T] = f[T] /\ f[T] = Value(f, T)
        <5> HIDE DEF Value
        <5> QED BY <2>1, <4>1
      <4> HIDE DEF g
      <4> QED BY <3>1, <4>2
    <3>2. CASE T # {}
      <4> DEFINE U == T \ {Http!Max(T)}
      <4>1. U \in D /\ Size(U) = Size(T) - 1 /\ Size(T) \in Nat /\ Size(U) \in Nat
        BY <1>1, <1>2, <3>2
      <4>2. g[U] = f[U]
        <5> HIDE DEF U, Value
        <5> QED BY <4>1, <2>2
      <4>3. g[T] = Value(f, T)
        <5> HIDE DEF Value, U
        <5>1. CASE Size(T) = k + 1
          BY <5>1
        <5>2. CASE Size(T) # k + 1
          BY <5>2, <2>1, <2>2, <4>1
        <5> QED BY <5>1, <5>2
      <4> HIDE DEF g
      <4> QED BY <3>2, <4>2, <4>3
    <3> QED BY <3>1, <3>2
  <2>3. Upto(k + 1)
    <3> HIDE DEF Value, g
    <3> QED BY <2>2
  <2> HIDE DEF Upto
  <2> QED BY <2>3
<1>6. Size(1..n) \in N
  <2> HIDE DEF N
  <2> QED BY <1>1, <1>3, <1>4, <1>5, SetInduction
<1>7. PICK f : \A T \in D : f[T] = Value(f, T)
  <2> HIDE DEF Value
  <2> QED BY <1>1, <1>6
<1> DEFINE g == [T \in D |-> f[T]]
<1>8. \A T \in D : g[T] = Value(g, T)
  <2> SUFFICES ASSUME NEW T \in D
               PROVE  g[T] = Value(g, T)
    OBVIOUS
  <2>1. T # {} => g[T \ {Http!Max(T)}] = f[T \ {Http!Max(T)}]
    BY <1>2
  <2>2. g[T] = f[T] /\ f[T] = Value(f, T)
    <3> HIDE DEF Value
    <3> QED BY <1>7
  <2> HIDE DEF g
  <2> QED BY <2>1, <2>2
<1>9. g = [T \in D |-> Value(g, T)]
  <2> DEFINE h == [T \in D |-> Value(g, T)]
  <2>1. \A T \in D : g[T] = h[T]
    <3> HIDE DEF Value, g
    <3> QED BY <1>8
  <2> HIDE DEF Value
  <2> QED BY <2>1
<1>10. g = HeaderFold(lines, n, g)
  BY <1>9 DEF D, HeaderFold
<1> HIDE DEF g
<1> QED BY <1>10

\* What the header lines make is what one gets line by line.
LEMMA HeaderSteps ==
  ASSUME NEW n \in Nat, NEW lines, DOMAIN lines = 1..n
  PROVE  \E a : /\ a[0] = Http!NoHeaders
                /\ \A k \in 1..n : a[k] = HeaderStep(lines, a[k - 1], k)
                /\ Http!FoldLeft(Http!Header, Http!NoHeaders, lines) = a[n]
<1> DEFINE f == CHOOSE g : g = HeaderFold(lines, n, g)
           a == [k \in 0..n |-> f[1..k]]
<1>1. f = HeaderFold(lines, n, f)
  BY HeaderFoldExists
<1>2. Http!FoldLeft(Http!Header, Http!NoHeaders, lines) = f[1..n]
  BY DEF Http!FoldLeft, Http!MapThenFoldSet, HeaderStep, HeaderFold
<1>3. f[{}] = Http!NoHeaders
  <2> HIDE DEF f
  <2> QED BY <1>1 DEF HeaderFold
<1>4. ASSUME NEW k \in 1..n
      PROVE  f[1..k] = HeaderStep(lines, f[1..(k - 1)], k)
  <2>1. 1..k \in SUBSET (1..n) /\ 1..k # {}
    <3>1. k \in Nat /\ 1 <= k /\ k <= n
      OBVIOUS
    <3>2. \A i \in 1..k : i \in 1..n
      BY <3>1
    <3>3. k \in 1..k
      BY <3>1
    <3> QED BY <3>2, <3>3
  <2>2. Http!Max(1..k) = k
    BY DEF Http!Max
  <2>3. (1..k) \ {k} = 1..(k - 1)
    OBVIOUS
  <2> HIDE DEF f
  <2> QED BY <1>1, <2>1, <2>2, <2>3 DEF HeaderFold
<1> HIDE DEF f
<1>5. a[0] = Http!NoHeaders
  BY <1>3, 1..0 = {}
<1>6. \A k \in 1..n : a[k] = HeaderStep(lines, a[k - 1], k)
  BY <1>4
<1>7. Http!FoldLeft(Http!Header, Http!NoHeaders, lines) = a[n]
  BY <1>2
<1> HIDE DEF a
<1> QED BY <1>5, <1>6, <1>7

-----------------------------------------------------------------------------
(* What the headers say.                                                   *)

Names == {"host", "authorization"}
Named(line, name) == Http!IsWord(line, "header") /\ line[1].name = name

\* The lines of a request, whose words are names that are known.
Legible(lines) ==
  \A j \in DOMAIN lines : Http!IsWord(lines[j], "header") =>
    /\ lines[j][1].name \in {"host", "authorization", "other"}
    /\ lines[j][1].value \notin {"missing", "duplicate"}

\* One line more: only the header it names changes.
LEMMA HeaderFacts ==
  ASSUME Http!HttpAssumption, NEW a, NEW line,
         DOMAIN a = {"error", "count", "host", "authorization"},
         Http!IsWord(line, "header") => line[1].name \in {"host", "authorization", "other"}
  PROVE  LET b == Http!Header(a, line)
         IN  /\ DOMAIN b = {"error", "count", "host", "authorization"}
             /\ b.error = None =>
                  /\ a.error = None /\ Http!IsWord(line, "header")
                  /\ \A name \in Names :
                       b[name] = IF line[1].name = name
                                 THEN Http!Observed(a[name], line[1].value) ELSE a[name]
<1> DEFINE b == Http!Header(a, line)
           name == line[1].name
           value == line[1].value
<1>1. None # 431 /\ None # 400
  BY DEF Http!HttpAssumption
<1>2. CASE a.error # None \/ a.count = MaxHeaders \/ ~Http!IsWord(line, "header")
  <2>1. DOMAIN b = {"error", "count", "host", "authorization"} /\ b.error # None
    BY <1>1, <1>2 DEF Http!Header
  <2> QED BY <2>1
<1>3. CASE a.error = None /\ a.count # MaxHeaders /\ Http!IsWord(line, "header")
  <2>1. CASE name = "other"
    <3>1. b = [a EXCEPT !.count = @ + 1]
      BY <1>3, <2>1 DEF Http!Header
    <3>2. /\ DOMAIN b = {"error", "count", "host", "authorization"}
          /\ b.host = a.host /\ b.authorization = a.authorization
      BY <3>1
    <3> HIDE DEF b, name
    <3> QED BY <1>3, <2>1, <3>2 DEF Names, b, name
  <2>2. CASE name # "other" /\ a[name] = Http!Missing /\ value = "notText"
    <3>1. b = [a EXCEPT !.error = 400]
      BY <1>3, <2>2 DEF Http!Header
    <3>2. DOMAIN b = {"error", "count", "host", "authorization"} /\ b.error # None
      BY <1>1, <3>1
    <3> QED BY <3>2
  <2>3. CASE name # "other" /\ ~(a[name] = Http!Missing /\ value = "notText")
    <3>1. b = [a EXCEPT !.count = @ + 1, ![name] = Http!Observed(@, value)]
      BY <1>3, <2>3 DEF Http!Header
    <3>2. name \in Names
      BY <1>3, <2>3 DEF Names
    <3> HIDE DEF b, name, value
    <3>3. CASE name = "host"
      <4>1. b = [a EXCEPT !.count = @ + 1, !.host = Http!Observed(@, value)]
        BY <3>1, <3>3
      <4>2. /\ DOMAIN b = {"error", "count", "host", "authorization"}
            /\ b.host = Http!Observed(a.host, value) /\ b.authorization = a.authorization
        BY <4>1
      <4> QED BY <1>3, <3>3, <4>2 DEF Names, b, name, value
    <3>4. CASE name = "authorization"
      <4>1. b = [a EXCEPT !.count = @ + 1, !.authorization = Http!Observed(@, value)]
        BY <3>1, <3>4
      <4>2. /\ DOMAIN b = {"error", "count", "host", "authorization"}
            /\ b.authorization = Http!Observed(a.authorization, value) /\ b.host = a.host
        BY <4>1
      <4> QED BY <1>3, <3>4, <4>2 DEF Names, b, name, value
    <3> QED BY <3>2, <3>3, <3>4 DEF Names
  <2> QED BY <2>1, <2>2, <2>3
<1> QED BY <1>2, <1>3

\* What is known of a header after k lines: if there is one value, one line said
\* it, and no other line named it.
SaidBy(lines, k, a, name) ==
  /\ a[name] = "missing" => \A j \in 1..k : ~Named(lines[j], name)
  /\ a[name] \notin {"missing", "duplicate"} =>
       \E j \in 1..k : /\ Named(lines[j], name) /\ lines[j][1].value = a[name]
                       /\ \A i \in 1..k : Named(lines[i], name) => i = j

\* A value of a header that was accepted is the one a single line of it gives.
LEMMA OneLineSays ==
  ASSUME Http!HttpAssumption, NEW n \in Nat, NEW lines, DOMAIN lines = 1..n, Legible(lines),
         NEW name \in Names
  PROVE  LET a == Http!FoldLeft(Http!Header, Http!NoHeaders, lines)
         IN  a.error = None => SaidBy(lines, n, a, name)
<1>1. PICK a : /\ a[0] = Http!NoHeaders
               /\ \A k \in 1..n : a[k] = HeaderStep(lines, a[k - 1], k)
               /\ Http!FoldLeft(Http!Header, Http!NoHeaders, lines) = a[n]
  BY HeaderSteps
<1> DEFINE Good(k) == /\ DOMAIN a[k] = {"error", "count", "host", "authorization"}
                      /\ a[k].error = None => SaidBy(lines, k, a[k], name)
           N == {k \in Nat : k <= n => Good(k)}
<1>2. Good(0)
  <2>1. /\ DOMAIN a[0] = {"error", "count", "host", "authorization"}
        /\ a[0].host = "missing" /\ a[0].authorization = "missing"
    BY <1>1 DEF Http!NoHeaders, Http!Missing
  <2>2. a[0][name] = "missing"
    BY <2>1 DEF Names
  <2>3. 1..0 = {}
    OBVIOUS
  <2> QED BY <2>1, <2>2, <2>3 DEF SaidBy
<1>3. ASSUME NEW k \in Nat, k + 1 <= n, Good(k)
      PROVE  Good(k + 1)
  <2> DEFINE line == lines[k + 1]
             b == a[k + 1]
             old == a[k]
  <2>1. k + 1 \in 1..n /\ (k + 1) - 1 = k
    BY <1>3
  <2>2. b = Http!Header(old, line)
    BY <1>1, <2>1 DEF HeaderStep
  <2>3. DOMAIN old = {"error", "count", "host", "authorization"}
    BY <1>3
  <2>4. Http!IsWord(line, "header") =>
          /\ line[1].name \in {"host", "authorization", "other"}
          /\ line[1].value \notin {"missing", "duplicate"}
    BY <2>1 DEF Legible
  <2> HIDE DEF line, b, old
  <2>5. /\ DOMAIN b = {"error", "count", "host", "authorization"}
        /\ b.error = None =>
             /\ old.error = None /\ Http!IsWord(line, "header")
             /\ b[name] = IF line[1].name = name
                          THEN Http!Observed(old[name], line[1].value) ELSE old[name]
    BY <2>2, <2>3, <2>4, HeaderFacts
  <2>6. ASSUME b.error = None
        PROVE  SaidBy(lines, k + 1, b, name)
    <3>1. SaidBy(lines, k, old, name)
      BY <1>3, <2>5, <2>6 DEF old
    <3>2. \A j \in 1..(k + 1) : j \in 1..k \/ j = k + 1
      OBVIOUS
    <3>3. /\ \A j \in 1..k : j \in 1..(k + 1) /\ j # k + 1
          /\ k + 1 \in 1..(k + 1)
      OBVIOUS
    <3>4. CASE line[1].name = name
      <4>1. Named(line, name) /\ b[name] = Http!Observed(old[name], line[1].value)
            /\ line[1].value \notin {"missing", "duplicate"}
        BY <2>4, <2>5, <2>6, <3>4 DEF Named
      <4>2. CASE old[name] = "missing"
        <5>1. b[name] = line[1].value
          BY <4>1, <4>2 DEF Http!Observed, Http!Missing
        <5>2. \A i \in 1..(k + 1) : Named(lines[i], name) => i = k + 1
          BY <3>1, <3>2, <4>2 DEF SaidBy
        <5> QED BY <3>3, <4>1, <5>1, <5>2 DEF SaidBy, line
      <4>3. CASE old[name] # "missing"
        <5>1. b[name] = "duplicate"
          BY <4>1, <4>3 DEF Http!Observed, Http!Missing, Http!Duplicate
        <5> QED BY <5>1 DEF SaidBy
      <4> QED BY <4>2, <4>3
    <3>5. CASE line[1].name # name
      <4>1. ~Named(lines[k + 1], name) /\ b[name] = old[name]
        BY <2>5, <2>6, <3>5 DEF Named, line
      <4> QED BY <3>1, <3>2, <3>3, <4>1 DEF SaidBy
    <3> QED BY <3>4, <3>5
  <2> QED BY <2>5, <2>6 DEF b
<1>4. 0 \in N
  BY <1>2
<1>5. ASSUME NEW k \in Nat, k \in N
      PROVE  k + 1 \in N
  <2> HIDE DEF Good
  <2>1. k + 1 <= n => Good(k)
    BY <1>5
  <2> QED BY <1>3, <2>1
<1>6. Good(n)
  <2>1. n \in N
    <3> HIDE DEF N
    <3> QED BY <1>4, <1>5, SetInduction
  <2> HIDE DEF Good
  <2> QED BY <2>1
<1> QED BY <1>1, <1>6

-----------------------------------------------------------------------------
(* A request that was accepted.                                            *)

\* The first byte of a part that is not empty.
LEMMA FirstOfPart ==
  ASSUME NEW h, h \in Seq({h[i] : i \in DOMAIN h}), NEW m \in 1..Len(h) + 1, NEW k \in 0..Len(h)
  PROVE  /\ SubSeq(h, m, k) # <<>> <=> m <= k
         /\ m <= k => SubSeq(h, m, k)[1] = h[m]
<1> DEFINE S == {h[i] : i \in DOMAIN h}
<1>1. Len(h) \in Nat /\ h \in Seq(S)
  OBVIOUS
<1> HIDE DEF S
<1>2. CASE m <= k
  <2>1. \A i \in m..k : h[i] \in S
    <3>1. \A i \in m..k : i \in 1..Len(h)
      BY <1>1
    <3> QED BY <1>1, <3>1, ElementOfSeq
  <2>2. /\ Len(SubSeq(h, m, k)) = (k - m) + 1 /\ SubSeq(h, m, k)[1] = h[m]
    BY <1>1, <1>2
  <2> QED BY <1>1, <1>2, <2>2
<1>3. CASE ~(m <= k)
  <2>1. SubSeq(h, m, k) = <<>>
    BY <1>1, <1>3
  <2> QED BY <1>3, <2>1
<1> QED BY <1>2, <1>3

\* Where the header of a request ends: after two ends of lines, and after all
\* others.
LEMMA LastEnds ==
  ASSUME Http!HttpAssumption, NEW h, Begins(h, h), Http!HeaderEnds(h) = {Len(h)}
  PROVE  LET n == Cardinality(Http!Crlfs(h))
         IN  \E q \in Http!Crlfs(h) :
               /\ q + 2 \in Http!Crlfs(h) /\ Len(h) = q + 3
               /\ \A k \in Http!Crlfs(h) : k < q => Http!Rank(h, k) \in 1..n - 2
               /\ n >= 2
<1> DEFINE n == Cardinality(Http!Crlfs(h))
<1>1. PICK q \in Http!Crlfs(h) : q + 2 \in Http!Crlfs(h) /\ Len(h) = q + 3
  BY DEF Http!HeaderEnds
<1>2. /\ n \in Nat /\ Len(h) \in Nat
      /\ \A k \in Http!Crlfs(h) : Http!Rank(h, k) \in 1..n
      /\ \A k, l \in Http!Crlfs(h) : k < l => Http!Rank(h, k) < Http!Rank(h, l)
  BY RankFacts DEF Begins
<1>3. q < q + 2
  BY <1>2 DEF Http!Crlfs
<1> HIDE DEF n
<1>4. Http!Rank(h, q) < Http!Rank(h, q + 2)
  BY <1>1, <1>2, <1>3
<1>5. n >= 2
  BY <1>1, <1>2, <1>4
<1>6. ASSUME NEW k \in Http!Crlfs(h), k < q
      PROVE  Http!Rank(h, k) \in 1..n - 2
  <2>1. Http!Rank(h, k) < Http!Rank(h, q)
    BY <1>1, <1>2, <1>6
  <2> QED BY <1>1, <1>2, <1>4, <2>1
<1> QED BY <1>1, <1>5, <1>6 DEF n

\* Words stand where lines begin.
Leads(h) ==
  \A i \in 1..Len(h) : Http!Word(h[i]) =>
    /\ i = 1 \/ (i > 2 /\ h[i - 2] = CR /\ h[i - 1] = LF)
    /\ h[i].is = "header" => /\ h[i].name \in {"host", "authorization", "other"}
                             /\ h[i].value \notin {"missing", "duplicate"}

\* The lines of a header: the first one begins it, and each other one behind an
\* end; a word of a header stands at the beginning of one of them.
LEMMA LinesFacts ==
  ASSUME Http!HttpAssumption, NEW h, h \in Seq({h[i] : i \in DOMAIN h}), Leads(h),
         Http!HeaderEnds(h) = {Len(h)}
  PROVE  LET n == Cardinality(Http!Crlfs(h)) - 2
             lines == Tail(Http!Lines(h))
             At(j) == Http!LineEnd(h, j) + 2
         IN  /\ n \in Nat /\ DOMAIN lines = 1..n
             /\ Http!Lines(h)[1] # <<>> => Http!Lines(h)[1][1] = h[1]
             /\ \A j \in 1..n : lines[j] # <<>> => At(j) \in 1..Len(h) /\ lines[j][1] = h[At(j)]
             /\ \A i \in 2..Len(h) : Http!Word(h[i]) =>
                  \E j \in 1..n : At(j) = i /\ lines[j] # <<>>
<1> DEFINE C == Http!Crlfs(h)
           m == Cardinality(C)
           n == m - 2
           all == Http!Lines(h)
           lines == Tail(all)
           End(j) == Http!LineEnd(h, j)
           At(j) == End(j) + 2
<1>0. Len(h) \in Nat /\ DOMAIN h = 1..Len(h) /\ Begins(h, h)
  BY DEF Begins
<1>1. PICK q \in C : /\ q + 2 \in C /\ Len(h) = q + 3
                     /\ \A k \in C : k < q => Http!Rank(h, k) \in 1..m - 2
                     /\ m >= 2
  BY <1>0, LastEnds
<1>2. /\ \A j \in 1..m : End(j) \in C /\ Http!Rank(h, End(j)) = j
      /\ \A k \in C : End(Http!Rank(h, k)) = k
  BY <1>0, LineEndFacts
<1>3. m \in Nat /\ \A k, l \in C : k < l => Http!Rank(h, k) < Http!Rank(h, l)
  BY <1>0, RankFacts
<1>4. \A k : k \in C <=> k \in 1..Len(h) - 1 /\ h[k] = CR /\ h[k + 1] = LF
  BY DEF Http!Crlfs
<1>5. Http!Cardinality(C) = m
  BY SameCardinality
<1>6. all = [i \in 1..m - 1 |-> SubSeq(h, IF i = 1 THEN 1 ELSE End(i - 1) + 2, End(i) - 1)]
  BY <1>5 DEF Http!Lines
<1> HIDE DEF C, m, End
<1>7. DOMAIN all = 1..m - 1 /\ m - 1 \in Nat /\ 1 \in 1..m - 1
      /\ all[1] = SubSeq(h, 1, End(1) - 1)
  <2>1. m - 1 \in Nat /\ 1 \in 1..m - 1
    BY <1>1, <1>3
  <2> QED BY <1>6, <2>1
<1>8. \A i \in 2..m - 1 : all[i] = SubSeq(h, At(i - 1), End(i) - 1)
  <2> SUFFICES ASSUME NEW i \in 2..m - 1
               PROVE  all[i] = SubSeq(h, At(i - 1), End(i) - 1)
    OBVIOUS
  <2>1. i \in 1..m - 1 /\ i # 1
    BY <1>3
  <2> QED BY <1>6, <2>1
<1>9. all \in Seq({all[i] : i \in 1..m - 1}) /\ Len(all) = m - 1 /\ all # <<>>
  <2> DEFINE part(i) == SubSeq(h, IF i = 1 THEN 1 ELSE End(i - 1) + 2, End(i) - 1)
             S == {all[i] : i \in 1..m - 1}
             d == m - 1
  <2>1. all = [i \in 1..d |-> part(i)]
    BY <1>6
  <2>2. d \in Nat /\ 1 \in 1..d /\ \A i \in 1..d : all[i] \in S
    BY <1>7
  <2> HIDE DEF all, part, S, d
  <2>3. \A i \in 1..d : part(i) \in S
    BY <2>1, <2>2
  <2>4. all \in Seq(S) /\ Len(all) = d
    BY <2>1, <2>2, <2>3
  <2>5. all # <<>>
    BY <2>2, <2>4
  <2> QED BY <2>4, <2>5 DEF d, S
<1> HIDE DEF all
<1>10. n \in Nat /\ DOMAIN lines = 1..n /\ \A j \in 1..n : lines[j] = all[j + 1]
  <2> DEFINE S == {all[i] : i \in 1..m - 1}
  <2>1. all \in Seq(S) /\ Len(all) = m - 1 /\ all # <<>> /\ n \in Nat /\ m \in Nat
    BY <1>1, <1>3, <1>9
  <2> HIDE DEF S
  <2>2. /\ Len(lines) = m - 1 - 1 /\ lines \in Seq(S)
        /\ \A j \in 1..m - 1 - 1 : lines[j] = all[j + 1]
    BY <2>1, HeadTailProperties
  <2> QED BY <2>1, <2>2
<1>11. \A j \in 1..n : lines[j] = SubSeq(h, At(j), End(j + 1) - 1)
  <2> SUFFICES ASSUME NEW j \in 1..n
               PROVE  lines[j] = SubSeq(h, At(j), End(j + 1) - 1)
    OBVIOUS
  <2>1. j + 1 \in 2..m - 1 /\ (j + 1) - 1 = j
    BY <1>3
  <2> QED BY <1>8, <1>10, <2>1
<1> HIDE DEF lines
<1>12. \A j \in 1..m : /\ End(j) \in 1..Len(h) - 1 /\ End(j) - 1 \in 0..Len(h)
                       /\ At(j) \in 1..Len(h) + 1
  <2> SUFFICES ASSUME NEW j \in 1..m
               PROVE  End(j) \in 1..Len(h) - 1
    BY <1>0
  <2> QED BY <1>2, <1>4
<1>13. all[1] # <<>> => all[1][1] = h[1]
  <2>1. 1 \in 1..m /\ 1 \in 1..Len(h) + 1
    BY <1>0, <1>1, <1>3
  <2>2. End(1) - 1 \in 0..Len(h)
    BY <1>12, <2>1
  <2> QED BY <1>7, <2>1, <2>2, FirstOfPart
<1>14. ASSUME NEW j \in 1..n, lines[j] # <<>>
       PROVE  At(j) \in 1..Len(h) /\ lines[j][1] = h[At(j)]
  <2>1. j \in 1..m /\ j + 1 \in 1..m
    BY <1>3
  <2>2. At(j) \in 1..Len(h) + 1 /\ End(j + 1) - 1 \in 0..Len(h)
        /\ End(j + 1) \in 1..Len(h) - 1
    BY <1>12, <2>1
  <2>3. lines[j] = SubSeq(h, At(j), End(j + 1) - 1)
    BY <1>11
  <2> HIDE DEF At
  <2>4. At(j) <= End(j + 1) - 1 /\ lines[j][1] = h[At(j)]
    BY <1>14, <2>2, <2>3, FirstOfPart
  <2> QED BY <1>0, <2>2, <2>4
<1>15. ASSUME NEW i \in 2..Len(h), Http!Word(h[i])
       PROVE  \E j \in 1..n : At(j) = i /\ lines[j] # <<>>
  <2>0. i \in 1..Len(h) /\ i # 1
    BY <1>0
  <2>1. i > 2 /\ h[i - 2] = CR /\ h[i - 1] = LF
    BY <1>15, <2>0 DEF Leads
  <2>2. h[i] # CR /\ h[i] # LF /\ CR # LF
    BY <1>15 DEF Http!Word, Http!HttpAssumption
  <2> DEFINE k == i - 2
  <2>3. k \in C /\ k \in Nat
    <3>1. k \in 1..Len(h) - 1 /\ k + 1 = i - 1 /\ k \in Nat
      BY <1>0, <2>1
    <3> QED BY <1>4, <2>1, <3>1
  <2>4. k < q
    <3>1. k + 2 = i /\ k + 1 = i - 1
      BY <1>0
    <3>2. k # q + 1
      BY <2>1, <2>2, <1>4, <1>1, <2>3
    <3>3. k # q
      BY <2>2, <1>4, <1>1, <3>1
    <3>4. k <= q + 1 /\ q \in Nat
      BY <1>0, <1>1, <1>4, <3>1
    <3> QED BY <2>3, <3>2, <3>3, <3>4
  <2> DEFINE j == Http!Rank(h, k)
  <2>5. j \in 1..n /\ End(j) = k
    BY <1>1, <1>2, <2>3, <2>4
  <2> HIDE DEF k, j
  <2>6. At(j) = i
    BY <1>0, <2>5 DEF k
  <2>7. j \in 1..m /\ j + 1 \in 1..m
    BY <1>3, <2>5
  <2> DEFINE e == End(j + 1)
  <2>8. e \in C /\ Http!Rank(h, e) = j + 1 /\ e \in Nat
    BY <1>2, <1>4, <2>7
  <2>9. ~(e < k) /\ e # k
    BY <1>3, <2>3, <2>5, <2>8, <1>2, <2>7
  <2>10. e # k + 1 /\ e # k + 2
    <3>1. k + 1 = i - 1 /\ k + 2 = i
      BY <1>0 DEF k
    <3> QED BY <1>4, <2>1, <2>2, <2>8, <3>1
  <2>11. i <= e - 1
    <3> HIDE DEF e
    <3>1. k + 2 = i
      BY <1>0 DEF k
    <3> QED BY <2>3, <2>8, <2>9, <2>10, <3>1
  <2>12. lines[j] = SubSeq(h, i, e - 1)
    BY <1>11, <2>5, <2>6
  <2>13. i \in 1..Len(h) + 1 /\ e - 1 \in 0..Len(h)
    BY <1>0, <1>12, <2>0, <2>7
  <2> HIDE DEF e, At
  <2>14. lines[j] # <<>>
    BY <2>11, <2>12, <2>13, FirstOfPart
  <2> QED BY <2>5, <2>6, <2>14
<1> QED BY <1>10, <1>13, <1>14, <1>15 DEF C, m, End, all, lines

HeaderWord(h, i, name) == Http!Word(h[i]) /\ h[i].is = "header" /\ h[i].name = name

\* What a request that was accepted says is what its bytes say: its method that
\* of the first word, and each header's value that of its only word.
LEMMA ParseMeans ==
  ASSUME Http!HttpAssumption, NEW h, h \in Seq({h[i] : i \in DOMAIN h}), Leads(h),
         Http!HeaderEnds(h) = {Len(h)}, Http!Parse(h).error = None
  PROVE  LET p == Http!Parse(h)
         IN  /\ Http!Word(h[1]) /\ h[1].is = "line" /\ p.method = h[1].method
             /\ \A name \in Names : p[name] \notin {"missing", "duplicate"} =>
                  \E i \in 1..Len(h) :
                    /\ HeaderWord(h, i, name) /\ h[i].value = p[name]
                    /\ \A k \in 1..Len(h) : HeaderWord(h, k, name) => k = i
<1> DEFINE all == Http!Lines(h)
           lines == Tail(all)
           a == Http!FoldLeft(Http!Header, Http!NoHeaders, lines)
           p == Http!Parse(h)
           n == Cardinality(Http!Crlfs(h)) - 2
           At(j) == Http!LineEnd(h, j) + 2
<1>1. None # 414 /\ None # 431 /\ None # 400 /\ None # 505
  BY DEF Http!HttpAssumption
<1>2. /\ Http!RequestLineError(all[1]) = None /\ a.error = None
      /\ p = [error |-> None, method |-> all[1][1].method, route |-> all[1][1].route,
              host |-> a.host, authorization |-> a.authorization]
  <2> DEFINE good == [error |-> None, method |-> all[1][1].method, route |-> all[1][1].route,
                      host |-> a.host, authorization |-> a.authorization]
  <2>1. \A status : Http!Refusal(status).error = status
    BY DEF Http!Refusal
  <2>2. \/ p = Http!Refusal(414) \/ p = Http!Refusal(431)
        \/ /\ Http!RequestLineError(all[1]) # None
           /\ p = Http!Refusal(Http!RequestLineError(all[1]))
        \/ Http!RequestLineError(all[1]) = None /\ a.error # None /\ p = Http!Refusal(a.error)
        \/ p = Http!Refusal(400)
        \/ Http!RequestLineError(all[1]) = None /\ a.error = None /\ p = good
    <3> HIDE DEF all
    <3> QED BY DEF Http!Parse, all
  <2> HIDE DEF p, good, a, all
  <2> QED BY <1>1, <2>1, <2>2 DEF p, good
<1>3. p.method = all[1][1].method /\ p.host = a.host /\ p.authorization = a.authorization
  <2> HIDE DEF p, a, all
  <2> QED BY <1>2
<1>4. Http!IsWord(all[1], "line")
  BY <1>1, <1>2 DEF Http!RequestLineError
<1>5. /\ n \in Nat /\ DOMAIN lines = 1..n
      /\ all[1] # <<>> => all[1][1] = h[1]
      /\ \A j \in 1..n : lines[j] # <<>> => At(j) \in 1..Len(h) /\ lines[j][1] = h[At(j)]
      /\ \A i \in 2..Len(h) : Http!Word(h[i]) => \E j \in 1..n : At(j) = i /\ lines[j] # <<>>
  BY LinesFacts
<1> HIDE DEF all, lines, a, p, n, At
<1>6. Http!Word(h[1]) /\ h[1].is = "line" /\ p.method = h[1].method
  BY <1>3, <1>4, <1>5 DEF Http!IsWord
<1>7. \A j \in 1..n : Http!IsWord(lines[j], "header") =>
        /\ At(j) \in 1..Len(h) /\ lines[j][1] = h[At(j)]
        /\ Http!Word(h[At(j)]) /\ h[At(j)].is = "header"
  BY <1>5 DEF Http!IsWord
<1>8. Legible(lines)
  BY <1>5, <1>7 DEF Legible, Leads
<1>9. ASSUME NEW name \in Names, p[name] \notin {"missing", "duplicate"}
      PROVE  \E i \in 1..Len(h) :
               /\ HeaderWord(h, i, name) /\ h[i].value = p[name]
               /\ \A k \in 1..Len(h) : HeaderWord(h, k, name) => k = i
  <2>1. p[name] = a[name]
    BY <1>3 DEF Names
  <2>2. SaidBy(lines, n, a, name)
    BY <1>2, <1>5, <1>8, OneLineSays DEF a
  <2>3. PICK j \in 1..n : /\ Named(lines[j], name) /\ lines[j][1].value = a[name]
                          /\ \A i \in 1..n : Named(lines[i], name) => i = j
    BY <1>9, <2>1, <2>2 DEF SaidBy
  <2>4. /\ At(j) \in 1..Len(h) /\ HeaderWord(h, At(j), name)
        /\ h[At(j)].value = p[name]
    BY <1>7, <2>1, <2>3 DEF Named, HeaderWord
  <2>5. ASSUME NEW k \in 1..Len(h), HeaderWord(h, k, name)
        PROVE  k = At(j)
    <3>1. k # 1 /\ Len(h) \in Nat
      BY <1>6, <2>5 DEF HeaderWord
    <3>2. k \in 2..Len(h) /\ Http!Word(h[k])
      BY <2>5, <3>1 DEF HeaderWord
    <3>3. PICK i \in 1..n : At(i) = k /\ lines[i] # <<>>
      BY <1>5, <3>2
    <3>4. Named(lines[i], name)
      BY <1>5, <2>5, <3>3 DEF Named, HeaderWord, Http!IsWord
    <3> QED BY <2>3, <3>3, <3>4
  <2> QED BY <2>4, <2>5
<1> QED BY <1>6, <1>9 DEF p

IsSequence(b) == b \in Seq({b[i] : i \in DOMAIN b})

\* A part that begins with the first byte.
LEMMA PartBegins ==
  ASSUME NEW b, IsSequence(b), NEW n \in 0..Len(b)
  PROVE  LET s == SubSeq(b, 1, n)
         IN  /\ Len(s) = n /\ Begins(s, b) /\ Begins(s, s)
             /\ IsSequence(s)
<1> DEFINE S == {b[i] : i \in DOMAIN b}
           s == SubSeq(b, 1, n)
<1>1. Len(b) \in Nat /\ b \in Seq(S) /\ DOMAIN b = 1..Len(b)
  BY DEF IsSequence
<1> HIDE DEF S
<1>2. \A i \in 1..n : b[i] \in S
  <2>1. \A i \in 1..n : i \in 1..Len(b)
    BY <1>1
  <2> QED BY <1>1, <2>1, ElementOfSeq
<1>3. /\ s \in Seq(S) /\ Len(s) = n /\ DOMAIN s = 1..n
      /\ \A i \in 1..n : s[i] = b[i]
  <2>1. n \in Nat /\ n <= Len(b)
    BY <1>1
  <2> QED BY <1>1, <1>2, <2>1
<1> HIDE DEF s
<1>4. IsSequence(s)
  BY <1>3 DEF IsSequence
<1>5. Begins(s, b) /\ Begins(s, s)
  BY <1>1, <1>3 DEF Begins
<1> QED BY <1>3, <1>4, <1>5 DEF s

\* Ends are places.
LEMMA EndsAreNumbers ==
  ASSUME NEW b, Len(b) \in Nat
  PROVE  Http!Crlfs(b) \in SUBSET Nat /\ Http!HeaderEnds(b) \in SUBSET Nat
<1>1. \A i \in Http!Crlfs(b) : i \in Nat
  BY DEF Http!Crlfs
<1>2. \A i \in Http!HeaderEnds(b) : i \in Nat
  BY <1>1 DEF Http!HeaderEnds
<1> QED BY <1>1, <1>2

\* The header of what was read is that of what was sent.
LEMMA SameHeader ==
  ASSUME NEW b, IsSequence(b), NEW n \in 0..Len(b),
         Http!HeaderEnds(SubSeq(b, 1, n)) # {}
  PROVE  LET s == SubSeq(b, 1, n)
             e == Http!Least(Http!HeaderEnds(b))
         IN  /\ e \in 0..Len(b) /\ Http!HeaderEnds(b) # {}
             /\ SubSeq(s, 1, Http!Least(Http!HeaderEnds(s))) = SubSeq(b, 1, e)
             /\ Http!HeaderEnds(SubSeq(b, 1, e)) = {Len(SubSeq(b, 1, e))}
<1> DEFINE s == SubSeq(b, 1, n)
           e == Http!Least(Http!HeaderEnds(b))
           h == SubSeq(b, 1, e)
<1>1. /\ Len(s) = n /\ Begins(s, b) /\ Begins(s, s)
      /\ IsSequence(s)
  BY PartBegins
<1>2. /\ e = Http!Least(Http!HeaderEnds(s)) /\ e \in Http!HeaderEnds(s)
      /\ e \in Http!HeaderEnds(b) /\ e <= n /\ Http!HeaderEnds(b) # {}
  <2> HIDE DEF s
  <2>1. Http!HeaderEnds(s) # {}
    BY DEF s
  <2> QED BY <1>1, <2>1, FirstEnds, PrefixEnds
<1>3. e \in Nat /\ Len(b) \in Nat /\ n \in Nat /\ n <= Len(b)
  <2>1. Len(b) \in Nat /\ n \in Nat /\ n <= Len(b)
    BY <1>1 DEF Begins
  <2> HIDE DEF e, s
  <2> QED BY <1>2, <2>1, EndsAreNumbers
<1>4. e \in 0..Len(b) /\ e \in 0..n
  BY <1>2, <1>3
<1> HIDE DEF e
<1>5. /\ Len(h) = e /\ Begins(h, b) /\ IsSequence(h)
  BY <1>4, PartBegins
<1>6. SubSeq(s, 1, e) = h
  <2> DEFINE t == SubSeq(s, 1, e)
  <2> HIDE DEF s, h
  <2>0. e \in 0..Len(s)
    BY <1>1, <1>4
  <2>1. Len(t) = e /\ Begins(t, s) /\ IsSequence(t)
    BY <1>1, <2>0, PartBegins
  <2> HIDE DEF t
  <2>2. \A i \in 1..e : t[i] = h[i]
    <3> SUFFICES ASSUME NEW i \in 1..e
                 PROVE  t[i] = h[i]
      OBVIOUS
    <3>1. i \in 1..n
      BY <1>3, <1>4
    <3> QED BY <1>1, <1>5, <2>1, <3>1 DEF Begins
  <2>3. DOMAIN t = 1..e /\ DOMAIN h = 1..e
    BY <1>5, <2>1 DEF Begins
  <2>4. t = h
    BY <1>5, <2>1, <2>2, <2>3 DEF IsSequence
  <2> QED BY <2>4 DEF t
<1>7. Http!HeaderEnds(h) = {e}
  <2> HIDE DEF h
  <2>1. \A i : i \in Http!HeaderEnds(h) <=> i \in Http!HeaderEnds(b) /\ i <= e
    BY <1>5, PrefixEnds
  <2>2. Http!HeaderEnds(b) \in SUBSET Nat
    BY <1>3, EndsAreNumbers
  <2>3. \A i \in Http!HeaderEnds(b) : e <= i
    BY <1>2, <2>2, LeastFacts DEF e
  <2>4. \A i : i \in Http!HeaderEnds(h) <=> i = e
    BY <1>2, <1>3, <2>1, <2>2, <2>3
  <2> QED BY <2>4
<1> QED BY <1>2, <1>4, <1>5, <1>6, <1>7 DEF e, s, h
-----------------------------------------------------------------------------
(* What a request is answered.                                             *)

Whole(w) == SubSeq(w.bytes, 1, Http!Least(Http!HeaderEnds(w.bytes)))
SentBy(w, name, value) ==
  \E i \in Http!Said(w.bytes, name) :
    w.bytes[i].value = value /\ Http!Said(w.bytes, name) = {i}

\* The parts of AnswerExact, of any request, what was read of it and the response.
StatusDue(w, b, r) ==
  \/ Http!Verdict(b) = None /\ r.status = 408
  \/ Http!Verdict(w.bytes) \in {414, 431} /\ r.status = Http!Verdict(w.bytes)
  \/ Http!Verdict(w.bytes) = None /\ w.then = "closes" /\ r.status = 400
  \/ /\ Http!Verdict(w.bytes) = 200
     /\ IF Http!Parse(Whole(w)).error # None THEN r.status = Http!Parse(Whole(w)).error
        ELSE r.status \in {200, 400, 401, 404, 405, 503}
BodyDue(w, s, r) ==
  r.body \in {"metrics", "report", "index"} =>
    /\ IF s THEN SentBy(w, "authorization", "token") ELSE SentBy(w, "host", "bound")
    /\ w.bytes[1].method = "GET"
HealthDue(r) ==
  r.body = "health" =>
    IF r.status = 200 THEN r.state.age <= Freshness + r.state.behind
    ELSE r.state = None \/ r.state.age > Freshness
Due(w, b, s, r) == StatusDue(w, b, r) /\ BodyDue(w, s, r) /\ HealthDue(r)

\* A request that was accepted.
Accepted(w, p) ==
  /\ Http!HeaderEnds(w.bytes) # {} /\ Http!Verdict(w.bytes) = 200
  /\ p = Http!Parse(Whole(w)) /\ p.error = None

ReadInv ==
  /\ wire \in Wires /\ secured \in BOOLEAN
  /\ Len(bytes) \in 0..Len(wire.bytes) /\ bytes = SubSeq(wire.bytes, 1, Len(bytes))
  /\ Bounded(bytes)
  /\ phase = "reading" => Http!HeaderEnds(bytes) = {} /\ Http!PartialError(bytes) = None
  /\ phase = "routing" => Accepted(wire, request)
  /\ phase \in {"loop", "reading", "routing"} => response = None

\* What holds after every step: what was read is a beginning of what was sent
\* and within the limits, no read begins once it is complete or too large or
\* answered, what is routed was accepted, and what was answered is what is due.
HttpInv ==
  /\ ReadInv
  /\ state = None \/ state \in [fits : SUBSET {"metrics", "report"}, age : Nat, behind : Nat]
  /\ response # None => Due(wire, bytes, secured, response)

\* What a request is: bytes, of which words lead lines.
LEMMA WireFacts ==
  ASSUME Http!HttpAssumption, NEW w \in Wires
  PROVE  IsSequence(w.bytes) /\ Len(w.bytes) \in Nat /\ Leads(w.bytes)
<1>1. IsSequence(w.bytes)
  BY DEF Http!HttpAssumption, IsSequence
<1>2. Len(w.bytes) \in Nat /\ DOMAIN w.bytes = 1..Len(w.bytes)
  BY <1>1 DEF IsSequence
<1> QED BY <1>1, <1>2 DEF Http!HttpAssumption, Leads

\* What an accepted request says, of its method and its headers.
LEMMA AcceptedMeans ==
  ASSUME Http!HttpAssumption, NEW w \in Wires, NEW p, Accepted(w, p)
  PROVE  /\ p.method = w.bytes[1].method
         /\ \A name \in Names :
              p[name] \notin {"missing", "duplicate"} => SentBy(w, name, p[name])
<1> DEFINE b == w.bytes
           e == Http!Least(Http!HeaderEnds(b))
           h == SubSeq(b, 1, e)
<1>1. IsSequence(b) /\ Len(b) \in Nat /\ Leads(b)
  BY WireFacts
<1>2. p = Http!Parse(h) /\ p.error = None /\ Http!HeaderEnds(b) # {}
  BY DEF Accepted, Whole
<1> HIDE DEF b
<1>3. e \in 0..Len(b) /\ Http!HeaderEnds(h) = {Len(h)}
  <2> DEFINE s == SubSeq(b, 1, Len(b))
  <2>1. Len(b) \in 0..Len(b)
    BY <1>1
  <2>2. Len(s) = Len(b) /\ Begins(s, b)
    BY <1>1, <2>1, PartBegins
  <2>3. Http!HeaderEnds(s) # {}
    <3> HIDE DEF s, e, h
    <3>1. \A i \in Http!HeaderEnds(b) : i <= Len(b)
      BY <1>1 DEF Http!HeaderEnds, Http!Crlfs
    <3> QED BY <1>2, <2>2, <3>1, PrefixEnds
  <2> QED BY <1>1, <2>1, <2>3, SameHeader
<1>4. e \in Nat /\ e >= 1
  <2>1. Http!HeaderEnds(b) \in SUBSET Nat
    BY <1>1, EndsAreNumbers
  <2>2. e \in Http!HeaderEnds(b)
    BY <1>2, <2>1, LeastFacts
  <2> HIDE DEF e
  <2>3. \A i \in Http!HeaderEnds(b) : i >= 1
    BY <1>1 DEF Http!HeaderEnds, Http!Crlfs
  <2> QED BY <2>1, <2>2, <2>3
<1>5. Len(h) = e /\ Begins(h, b) /\ IsSequence(h)
  <2> HIDE DEF e
  <2> QED BY <1>1, <1>3, PartBegins
<1>6. \A name : Http!Said(b, name) = {i \in 1..e : HeaderWord(b, i, name)}
  BY DEF Http!Said, HeaderWord
<1> HIDE DEF e, h
<1>7. \A i \in 1..e : h[i] = b[i] /\ i \in 1..Len(b)
  BY <1>4, <1>5 DEF Begins
<1>8. Leads(h)
  <2> SUFFICES ASSUME NEW i \in 1..e, Http!Word(h[i])
               PROVE  /\ i = 1 \/ (i > 2 /\ h[i - 2] = CR /\ h[i - 1] = LF)
                      /\ h[i].is = "header" =>
                           /\ h[i].name \in {"host", "authorization", "other"}
                           /\ h[i].value \notin {"missing", "duplicate"}
    BY <1>5 DEF Leads
  <2>1. Http!Word(b[i]) /\ h[i] = b[i] /\ i \in 1..Len(b)
    BY <1>7
  <2>2. /\ i = 1 \/ (i > 2 /\ b[i - 2] = CR /\ b[i - 1] = LF)
        /\ b[i].is = "header" =>
             /\ b[i].name \in {"host", "authorization", "other"}
             /\ b[i].value \notin {"missing", "duplicate"}
    BY <1>1, <2>1 DEF Leads
  <2>3. i > 2 => i - 2 \in 1..e /\ i - 1 \in 1..e
    BY <1>4
  <2> QED BY <1>7, <2>1, <2>2, <2>3
<1>9. /\ Http!Word(h[1]) /\ h[1].is = "line" /\ p.method = h[1].method
      /\ \A name \in Names : p[name] \notin {"missing", "duplicate"} =>
           \E i \in 1..Len(h) :
             /\ HeaderWord(h, i, name) /\ h[i].value = p[name]
             /\ \A k \in 1..Len(h) : HeaderWord(h, k, name) => k = i
  BY <1>2, <1>3, <1>5, <1>8, ParseMeans DEF IsSequence
<1>10. 1 \in 1..e
  BY <1>4
<1>11. ASSUME NEW name \in Names, p[name] \notin {"missing", "duplicate"}
       PROVE  SentBy(w, name, p[name])
  <2>1. PICK i \in 1..e : /\ HeaderWord(h, i, name) /\ h[i].value = p[name]
                          /\ \A k \in 1..e : HeaderWord(h, k, name) => k = i
    BY <1>5, <1>9, <1>11
  <2>2. \A k \in 1..e : HeaderWord(h, k, name) <=> HeaderWord(b, k, name)
    BY <1>7 DEF HeaderWord
  <2>3. i \in Http!Said(b, name) /\ b[i].value = p[name]
    BY <1>6, <1>7, <2>1, <2>2
  <2>4. \A k : k \in Http!Said(b, name) <=> k = i
    BY <1>6, <2>1, <2>2, <2>3
  <2>5. Http!Said(b, name) = {i}
    BY <2>4
  <2> QED BY <2>3, <2>5 DEF SentBy, b
<1> QED BY <1>7, <1>9, <1>10, <1>11 DEF b

\* A response without a body is due when its status is.
LEMMA PlainDue ==
  ASSUME NEW w, NEW b, NEW s, NEW status,
         StatusDue(w, b, Http!Plain(status))
  PROVE  Due(w, b, s, Http!Plain(status))
<1>1. Http!Plain(status).body = "none"
  BY DEF Http!Plain, Http!Response
<1>2. "none" \notin {"metrics", "report", "index"} /\ "none" # "health"
  OBVIOUS
<1> QED BY <1>1, <1>2 DEF Due, BodyDue, HealthDue

\* What routing answers is due: a report or the metrics go to the token, or
\* to the host the listener is bound to, and health tells the report's age.
LEMMA RouteDue ==
  ASSUME Http!HttpAssumption, wire \in Wires, secured \in BOOLEAN, Accepted(wire, request),
         state = None \/ state \in [fits : SUBSET {"metrics", "report"}, age : Nat, behind : Nat]
  PROVE  Due(wire, bytes, secured, Http!Route)
<1> DEFINE r == Http!Route
<1>1. /\ request.method = wire.bytes[1].method
      /\ \A name \in Names :
           request[name] \notin {"missing", "duplicate"} => SentBy(wire, name, request[name])
  BY AcceptedMeans
<1>2. /\ request.host = "bound" => SentBy(wire, "host", "bound")
      /\ request.authorization = "token" => SentBy(wire, "authorization", "token")
  BY <1>1 DEF Names
<1>3. \A status : /\ Http!Plain(status).status = status /\ Http!Plain(status).body = "none"
  BY DEF Http!Plain, Http!Response
<1>4. \A status, body, of : /\ Http!Response(status, body, of).status = status
                            /\ Http!Response(status, body, of).body = body
                            /\ Http!Response(status, body, of).state = of
  BY DEF Http!Response
<1>5. ASSUME NEW route \in {"metrics", "report"}
      PROVE  \/ Http!Sized(route).status = 200 /\ Http!Sized(route).body = route
             \/ Http!Sized(route).status = 503 /\ Http!Sized(route).body = "none"
  BY <1>3, <1>4 DEF Http!Sized
<1>6. /\ Http!HealthResponse.status \in {200, 503} /\ Http!HealthResponse.body = "health"
      /\ HealthDue(Http!HealthResponse)
  <2> DEFINE age == IF state.age > state.behind THEN state.age - state.behind ELSE 0
  <2>1. CASE state = None
    <3>1. Http!HealthResponse = Http!Response(503, "health", None)
      BY <2>1 DEF Http!HealthResponse
    <3> QED BY <1>4, <3>1 DEF HealthDue
  <2>2. CASE state # None
    <3>1. /\ Http!HealthResponse = Http!Response(IF age > Freshness THEN 503 ELSE 200,
                                                 "health", state)
          /\ state.age \in Nat /\ state.behind \in Nat /\ Freshness \in Nat
      BY <2>2 DEF Http!HealthResponse, Http!HttpAssumption
    <3>2. Http!HealthResponse.status = IF age > Freshness THEN 503 ELSE 200
      BY <1>4, <3>1
    <3>3. Http!HealthResponse.body = "health" /\ Http!HealthResponse.state = state
      BY <1>4, <3>1
    <3>4. age > Freshness => state.age > Freshness
      BY <3>1
    <3>5. ~(age > Freshness) => state.age <= Freshness + state.behind
      BY <3>1
    <3> HIDE DEF age
    <3> QED BY <3>2, <3>3, <3>4, <3>5 DEF HealthDue
  <2> QED BY <2>1, <2>2
<1>7. \/ r.status \in {400, 401, 404, 405, 503} /\ r.body = "none"
      \/ /\ r.status = 200
         /\ r.body \in {"livez", "index", "metrics", "report"}
      \/ r = Http!HealthResponse
      \/ r.status = 503 /\ r.body = "none"
  <2>1. CASE \/ ~secured /\ request.host # "bound"
             \/ /\ secured /\ ~Http!PublicProbe(request.route)
                /\ request.authorization # "token"
             \/ request.method # "GET"
    <3>1. r = Http!Plain(400) \/ r = Http!Plain(401) \/ r = Http!Plain(405)
      BY <2>1 DEF Http!Route
    <3> HIDE DEF r
    <3> QED BY <1>3, <3>1
  <2>2. CASE ~ \/ ~secured /\ request.host # "bound"
               \/ /\ secured /\ ~Http!PublicProbe(request.route)
                  /\ request.authorization # "token"
               \/ request.method # "GET"
    <3>1. \/ r = Http!Response(200, "livez", None)
          \/ r = Http!Sized("metrics")
          \/ r = Http!HealthResponse
          \/ r = Http!Plain(503)
          \/ r = Http!Sized("report")
          \/ r = Http!Response(200, "index", None)
          \/ r = Http!Plain(404)
      BY <2>2 DEF Http!Route
    <3> HIDE DEF r
    <3> QED BY <1>3, <1>4, <1>5, <3>1
  <2> QED BY <2>1, <2>2
<1>8. r.body \in {"metrics", "report", "index"} =>
        /\ request.method = "GET"
        /\ IF secured THEN request.authorization = "token" ELSE request.host = "bound"
  <2>1. CASE \/ ~secured /\ request.host # "bound"
             \/ request.method # "GET"
             \/ /\ secured /\ ~Http!PublicProbe(request.route)
                /\ request.authorization # "token"
    <3>1. r = Http!Plain(400) \/ r = Http!Plain(401) \/ r = Http!Plain(405)
      BY <2>1 DEF Http!Route
    <3> HIDE DEF r
    <3> QED BY <1>3, <3>1
  <2>2. CASE /\ secured => Http!PublicProbe(request.route) /\ request.authorization # "token"
             /\ ~secured => FALSE
             /\ request.method = "GET"
    <3>1. r = Http!Response(200, "livez", None) \/ r = Http!HealthResponse
      BY <2>2 DEF Http!Route, Http!PublicProbe
    <3> HIDE DEF r
    <3> QED BY <1>4, <1>6, <3>1
  <2> QED BY <2>1, <2>2
<1> HIDE DEF r
<1>9. BodyDue(wire, secured, r)
  BY <1>1, <1>2, <1>8 DEF BodyDue
<1>10. HealthDue(r)
  BY <1>6, <1>7 DEF HealthDue
<1>11. StatusDue(wire, bytes, r)
  <2>1. r.status \in {200, 400, 401, 404, 405, 503}
    BY <1>6, <1>7
  <2> QED BY <2>1 DEF StatusDue, Accepted
<1> QED BY <1>9, <1>10, <1>11 DEF Due, r

\* A connection begins with nothing read and nothing answered.
LEMMA HttpInitially ==
  ASSUME Http!HttpAssumption, Http!Init
  PROVE  HttpInv
<1>1. bytes = <<>> /\ Len(bytes) = 0 /\ phase = "loop" /\ state = None /\ response = None
  BY DEF Http!Init
<1>2. wire \in Wires /\ secured \in BOOLEAN
  BY DEF Http!Init
<1>3. IsSequence(wire.bytes) /\ Len(wire.bytes) \in Nat
  BY <1>2, WireFacts
<1>4. bytes = SubSeq(wire.bytes, 1, Len(bytes)) /\ Len(bytes) \in 0..Len(wire.bytes)
  BY <1>1, <1>3 DEF IsSequence
<1>5. Bounded(bytes)
  <2>1. Http!Crlfs(bytes) = {}
    BY <1>1 DEF Http!Crlfs
  <2>2. MaxLine \in Nat
    BY DEF Http!HttpAssumption
  <2> QED BY <1>1, <2>1, <2>2 DEF Bounded
<1> QED BY <1>1, <1>2, <1>4, <1>5 DEF HttpInv, ReadInv

\* What was read, as a beginning of what was sent.
LEMMA ReadFacts ==
  ASSUME Http!HttpAssumption, ReadInv
  PROVE  /\ IsSequence(wire.bytes) /\ Begins(bytes, wire.bytes) /\ Bounded(bytes)
         /\ Len(bytes) \in 0..Len(wire.bytes) /\ bytes = SubSeq(wire.bytes, 1, Len(bytes))
<1>1. /\ IsSequence(wire.bytes) /\ Len(bytes) \in 0..Len(wire.bytes)
      /\ bytes = SubSeq(wire.bytes, 1, Len(bytes)) /\ Bounded(bytes)
  BY WireFacts DEF ReadInv
<1>2. Begins(SubSeq(wire.bytes, 1, Len(bytes)), wire.bytes)
  BY <1>1, PartBegins
<1> QED BY <1>1, <1>2

\* What is neither complete nor beyond a limit deserves no answer yet.
LEMMA UnreadVerdict ==
  ASSUME Http!HttpAssumption, Begins(bytes, wire.bytes), Bounded(bytes),
         Http!HeaderEnds(bytes) = {}, Http!PartialError(bytes) = None
  PROVE  Http!Verdict(bytes) = None
<1>1. Begins(bytes, bytes)
  BY DEF Begins
<1> QED BY <1>1, EndVerdict

\* A turn of the loop that begins a response, or the routing of a request.
LEMMA LoopKeeps ==
  ASSUME Http!HttpAssumption, HttpInv, Http!Loop
  PROVE  HttpInv'
<1>1. /\ IsSequence(wire.bytes) /\ Begins(bytes, wire.bytes) /\ Bounded(bytes)
      /\ Len(bytes) \in 0..Len(wire.bytes) /\ bytes = SubSeq(wire.bytes, 1, Len(bytes))
  BY ReadFacts DEF HttpInv
<1>2. wire' = wire /\ secured' = secured /\ state' = state
  BY DEF Http!Loop, Http!Frame
<1>3. response = None
  BY DEF Http!Loop, HttpInv, ReadInv
<1>4. ASSUME bytes' = bytes, phase' \notin {"loop", "reading", "routing"}
      PROVE  ReadInv'
  BY <1>2, <1>4 DEF HttpInv, ReadInv
<1>5. ASSUME NEW status, Http!Respond(Http!Plain(status)), StatusDue(wire, bytes, Http!Plain(status))
      PROVE  HttpInv'
  <2>1. bytes' = bytes /\ phase' = "writing" /\ response' = Http!Plain(status)
    BY <1>5 DEF Http!Respond
  <2>2. Due(wire, bytes, secured, Http!Plain(status))
    BY <1>5, PlainDue
  <2> QED BY <1>2, <1>4, <2>1, <2>2 DEF HttpInv
<1>6. \A status : Http!Plain(status).status = status
  BY DEF Http!Plain, Http!Response
<1>7. CASE Http!HeaderEnds(bytes) # {}
  <2> DEFINE header == SubSeq(bytes, 1, Http!Least(Http!HeaderEnds(bytes)))
             result == Http!Parse(header)
  <2>1. Http!Parsed(result)
    BY <1>7 DEF Http!Loop
  <2>2. Http!HeaderEnds(SubSeq(wire.bytes, 1, Len(bytes))) # {}
    BY <1>1, <1>7
  <2>3. /\ Http!HeaderEnds(wire.bytes) # {}
        /\ SubSeq(SubSeq(wire.bytes, 1, Len(bytes)), 1,
                  Http!Least(Http!HeaderEnds(SubSeq(wire.bytes, 1, Len(bytes))))) = Whole(wire)
    BY <1>1, <2>2, SameHeader DEF Whole
  <2>4. header = Whole(wire)
    BY <1>1, <2>3
  <2>5. Http!Verdict(wire.bytes) = 200
    BY <1>1, <1>7, WholeVerdict
  <2>6. result = Http!Parse(Whole(wire))
    BY <2>4
  <2> HIDE DEF result, header
  <2>7. CASE result.error # None
    <3>1. Http!Respond(Http!Plain(result.error))
      BY <2>1, <2>7 DEF Http!Parsed
    <3>2. StatusDue(wire, bytes, Http!Plain(result.error))
      BY <1>6, <2>5, <2>6, <2>7 DEF StatusDue
    <3> QED BY <1>5, <3>1, <3>2
  <2>8. CASE result.error = None
    <3>1. phase' = "routing" /\ request' = result /\ bytes' = bytes /\ response' = response
      BY <2>1, <2>8 DEF Http!Parsed
    <3>2. Accepted(wire, result)
      BY <2>3, <2>5, <2>6, <2>8 DEF Accepted
    <3>3. ReadInv'
      BY <1>2, <1>3, <3>1, <3>2 DEF HttpInv, ReadInv
    <3> QED BY <1>2, <1>3, <3>1, <3>3 DEF HttpInv
  <2> QED BY <2>7, <2>8
<1>8. CASE Http!HeaderEnds(bytes) = {} /\ Http!PartialError(bytes) # None
  <2>1. Http!Respond(Http!Plain(Http!PartialError(bytes)))
    BY <1>8 DEF Http!Loop
  <2>2. /\ Http!PartialError(bytes) \in {414, 431}
        /\ Http!Verdict(wire.bytes) = Http!PartialError(bytes)
    BY <1>1, <1>8, PartialVerdict
  <2>3. StatusDue(wire, bytes, Http!Plain(Http!PartialError(bytes)))
    BY <1>6, <2>2 DEF StatusDue
  <2> QED BY <1>5, <2>1, <2>3
<1>9. CASE Http!HeaderEnds(bytes) = {} /\ Http!PartialError(bytes) = None
  <2>1. \/ Http!Close \/ Http!Respond(Http!Plain(408))
        \/ phase' = "reading" /\ UNCHANGED <<bytes, request, response>>
    BY <1>9 DEF Http!Loop
  <2>2. CASE Http!Close
    <3>1. bytes' = bytes /\ phase' = "closed" /\ response' = response
      BY <2>2 DEF Http!Close
    <3> QED BY <1>2, <1>3, <1>4, <3>1 DEF HttpInv
  <2>3. CASE Http!Respond(Http!Plain(408))
    <3>1. StatusDue(wire, bytes, Http!Plain(408))
      BY <1>1, <1>6, <1>9, UnreadVerdict DEF StatusDue
    <3> QED BY <1>5, <2>3, <3>1
  <2>4. CASE phase' = "reading" /\ UNCHANGED <<bytes, request, response>>
    <3>1. ReadInv'
      BY <1>2, <1>3, <1>9, <2>4 DEF HttpInv, ReadInv
    <3> QED BY <1>2, <1>3, <2>4, <3>1 DEF HttpInv
  <2> QED BY <2>1, <2>2, <2>3, <2>4
<1> QED BY <1>7, <1>8, <1>9

\* A read appends what comes next of the request, and no more than is kept.
LEMMA ReceiveKeeps ==
  ASSUME Http!HttpAssumption, HttpInv, Http!Receive
  PROVE  HttpInv'
<1>1. /\ IsSequence(wire.bytes) /\ Begins(bytes, wire.bytes) /\ Bounded(bytes)
      /\ Len(bytes) \in 0..Len(wire.bytes) /\ bytes = SubSeq(wire.bytes, 1, Len(bytes))
  BY ReadFacts DEF HttpInv
<1>2. wire' = wire /\ secured' = secured /\ state' = state /\ response' = response
  BY DEF Http!Receive, Http!Frame
<1>3. Len(bytes) \in Nat /\ Len(wire.bytes) \in Nat /\ Chunk \in Nat
  BY <1>1 DEF Http!HttpAssumption, Begins
<1>4. PICK n \in 1..Chunk :
        /\ n <= Http!Capacity(bytes) /\ Len(bytes) + n <= Len(wire.bytes)
        /\ bytes' = bytes \o SubSeq(wire.bytes, Len(bytes) + 1, Len(bytes) + n)
  BY DEF Http!Receive
<1> DEFINE l == Len(bytes)
           s == SubSeq(wire.bytes, 1, l + n)
<1>5. l + n \in 0..Len(wire.bytes) /\ n \in Nat /\ l \in Nat /\ l <= l + n
  BY <1>3, <1>4
<1>6. bytes' = s
  <2> DEFINE S == {wire.bytes[i] : i \in DOMAIN wire.bytes}
  <2>1. wire.bytes \in Seq(S)
    BY <1>1 DEF IsSequence
  <2> HIDE DEF S, s
  <2>2. SubSeq(wire.bytes, 1, l) \o SubSeq(wire.bytes, l + 1, l + n)
          = SubSeq(wire.bytes, 1, l + n)
    <3>1. 1 \in 1..Len(wire.bytes) + 1 /\ l \in 1 - 1..Len(wire.bytes)
          /\ l + n \in l..Len(wire.bytes)
      BY <1>3, <1>4, <1>5
    <3> QED BY <2>1, <3>1, ConcatAdjacentSubSeq
  <2> QED BY <1>1, <1>4, <2>2 DEF s
<1>7. Len(s) = l + n /\ Begins(s, wire.bytes)
  BY <1>1, <1>5, PartBegins
<1>8. Begins(bytes, s)
  <2> HIDE DEF s
  <2>1. \A i \in 1..l : i \in 1..Len(s)
    BY <1>5, <1>7
  <2> QED BY <1>1, <1>5, <1>7, <2>1 DEF Begins
<1>9. Bounded(s)
  <2>1. Len(s) - Len(bytes) <= Http!Capacity(bytes)
    <3> HIDE DEF s
    <3>1. Len(s) - Len(bytes) = n
      BY <1>5, <1>7
    <3> QED BY <1>4, <3>1
  <2> HIDE DEF s, l
  <2> QED BY <1>1, <1>8, <2>1, ReadBounded
<1>10. phase' = "loop"
  BY DEF Http!Receive
<1>11. Len(bytes') = l + n /\ bytes' = SubSeq(wire.bytes, 1, Len(bytes')) /\ Bounded(bytes')
  BY <1>6, <1>7, <1>9
<1>12. response = None
  BY DEF Http!Receive, HttpInv, ReadInv
<1>13. ReadInv'
  BY <1>2, <1>5, <1>10, <1>11, <1>12 DEF HttpInv, ReadInv
<1> QED BY <1>2, <1>12, <1>13 DEF HttpInv

\* Every step keeps what the connection is known to be.
LEMMA HttpStep ==
  ASSUME Http!HttpAssumption, HttpInv, [Http!Next]_(Http!vars)
  PROVE  HttpInv'
<1> DEFINE States == [fits : SUBSET {"metrics", "report"}, age : Nat, behind : Nat]
<1>1. /\ IsSequence(wire.bytes) /\ Begins(bytes, wire.bytes) /\ Bounded(bytes)
      /\ Len(bytes) \in 0..Len(wire.bytes) /\ bytes = SubSeq(wire.bytes, 1, Len(bytes))
  BY ReadFacts DEF HttpInv
<1>2. state = None \/ state \in States
  BY DEF HttpInv
<1> HIDE DEF States
<1>3. ASSUME UNCHANGED <<wire, secured, bytes, response>>, phase' \notin {"reading", "routing"},
             phase' = "loop" => response = None, state' = None \/ state' \in States
      PROVE  HttpInv'
  BY <1>3 DEF HttpInv, ReadInv, States
<1>4. ASSUME UNCHANGED <<wire, secured, phase, bytes, request, response>>,
             state' = None \/ state' \in States
      PROVE  HttpInv'
  <2>1. ReadInv'
    BY <1>4 DEF HttpInv, ReadInv
  <2> QED BY <1>4, <2>1 DEF HttpInv, States
<1>5. ASSUME NEW r, Http!Respond(r), Http!Frame, Due(wire, bytes, secured, r)
      PROVE  HttpInv'
  <2>1. /\ UNCHANGED <<wire, secured, bytes, state>> /\ phase' = "writing" /\ response' = r
    BY <1>5 DEF Http!Respond, Http!Frame
  <2>2. ReadInv'
    BY <2>1 DEF HttpInv, ReadInv
  <2> QED BY <1>5, <2>1, <2>2 DEF HttpInv
<1>6. \A status : Http!Plain(status).status = status
  BY DEF Http!Plain, Http!Response
<1>7. CASE Http!ClientCloses
  <2>1. /\ phase = "reading" /\ wire.then = "closes" /\ bytes = wire.bytes
        /\ Http!Respond(Http!Plain(400)) /\ Http!Frame
    BY <1>7 DEF Http!ClientCloses
  <2>2. Http!HeaderEnds(bytes) = {} /\ Http!PartialError(bytes) = None
    BY <2>1 DEF HttpInv, ReadInv
  <2>3. Http!Verdict(wire.bytes) = None
    BY <1>1, <2>1, <2>2, EndVerdict
  <2>4. StatusDue(wire, bytes, Http!Plain(400))
    BY <1>6, <2>1, <2>3 DEF StatusDue
  <2>5. Due(wire, bytes, secured, Http!Plain(400))
    BY <2>4, PlainDue
  <2> QED BY <1>5, <2>1, <2>5
<1>8. CASE Http!ReadTimesOut
  <2>1. /\ Http!Respond(Http!Plain(408)) /\ Http!Frame
        /\ Http!HeaderEnds(bytes) = {} /\ Http!PartialError(bytes) = None
    BY <1>8 DEF Http!ReadTimesOut, HttpInv, ReadInv
  <2>2. StatusDue(wire, bytes, Http!Plain(408))
    BY <1>1, <1>6, <2>1, UnreadVerdict DEF StatusDue
  <2>3. Due(wire, bytes, secured, Http!Plain(408))
    BY <2>2, PlainDue
  <2> QED BY <1>5, <2>1, <2>3
<1>9. CASE Http!Routing
  <2>1. phase = "routing" /\ Http!Respond(Http!Route) /\ Http!Frame
    BY <1>9 DEF Http!Routing
  <2>2. Due(wire, bytes, secured, Http!Route)
    BY <2>1, RouteDue DEF HttpInv, ReadInv
  <2> QED BY <1>5, <2>1, <2>2
<1>10. CASE Http!WriteEnds \/ Http!Reset
  <2>1. UNCHANGED <<wire, secured, bytes, response, state>> /\ phase' = "closed"
    BY <1>10 DEF Http!WriteEnds, Http!Reset, Http!Close, Http!Frame
  <2> QED BY <1>2, <1>3, <2>1
<1>11. CASE Http!Interrupted
  <2>1. UNCHANGED <<wire, secured, bytes, response, state>> /\ phase' = "loop"
        /\ response = None
    BY <1>11 DEF Http!Interrupted, Http!Frame, HttpInv, ReadInv
  <2> QED BY <1>2, <1>3, <2>1
<1>12. CASE Http!Write \/ Http!Tick \/ UNCHANGED Http!vars
  <2>1. UNCHANGED <<wire, secured, phase, bytes, request, response, state>>
    BY <1>12 DEF Http!Write, Http!Tick, Http!Frame, Http!vars
  <2> QED BY <1>2, <1>4, <2>1
<1>13. CASE Http!Publish
  <2>1. PICK fits \in SUBSET {"metrics", "report"} :
          state' = [fits |-> fits, age |-> 0, behind |-> 0]
    BY <1>13 DEF Http!Publish
  <2>2. state' \in States
    BY <2>1 DEF States
  <2>3. UNCHANGED <<wire, secured, phase, bytes, request, response>>
    BY <1>13 DEF Http!Publish
  <2> QED BY <1>4, <2>2, <2>3
<1>14. CASE Http!Age \/ Http!SetBack
  <2>1. /\ state # None
        /\ state' = [state EXCEPT !.age = @ + 1] \/ state' = [state EXCEPT !.behind = 1]
        /\ UNCHANGED <<wire, secured, phase, bytes, request, response>>
    BY <1>14 DEF Http!Age, Http!SetBack
  <2>2. state' \in States
    BY <1>2, <2>1 DEF States
  <2> QED BY <1>4, <2>1, <2>2
<1> QED BY <1>7, <1>8, <1>9, <1>10, <1>11, <1>12, <1>13, <1>14, LoopKeeps, ReceiveKeeps
        DEF Http!Next, Http!Worker

\* What was read within the limits is no longer than both together, and what
\* is due is what AnswerExact says.
LEMMA HttpExact ==
  ASSUME Http!HttpAssumption, HttpInv
  PROVE  Http!AnswerExact
<1>1. Len(bytes) <= MaxLine + 2 + MaxHeader
  <2>1. Len(bytes) \in Nat /\ MaxLine \in Nat /\ MaxHeader \in Nat /\ Begins(bytes, wire.bytes)
        /\ Bounded(bytes)
    BY ReadFacts DEF Http!HttpAssumption, HttpInv, Begins
  <2>2. CASE Http!Crlfs(bytes) = {}
    BY <2>1, <2>2 DEF Bounded
  <2>3. CASE Http!Crlfs(bytes) # {}
    <3>1. Http!LineLength(bytes) \in Nat
      BY <2>1, <2>3, FirstEnds
    <3> QED BY <2>1, <2>3, <3>1 DEF Bounded
  <2> QED BY <2>2, <2>3
<1>2. CASE response = None
  BY <1>1, <1>2 DEF Http!AnswerExact
<1>3. CASE response # None
  <2>1. StatusDue(wire, bytes, response) /\ BodyDue(wire, secured, response) /\ HealthDue(response)
    BY <1>3 DEF HttpInv, Due
  <2> QED BY <1>1, <2>1
          DEF Http!AnswerExact, StatusDue, BodyDue, HealthDue, SentBy, Whole
<1> QED BY <1>2, <1>3

\* However a request is cut into pieces, whatever its client does and whenever
\* the report changes, it is answered for what it is and to whom it is due:
\* read_request, parse_request and route_request.
THEOREM RequestsAnsweredExactly ==
  ASSUME Http!HttpAssumption
  PROVE  Http!Spec => []Http!AnswerExact
<1>1. Http!Init => HttpInv
  BY HttpInitially
<1>2. HttpInv /\ [Http!Next]_(Http!vars) => HttpInv'
  BY HttpStep
<1>3. HttpInv => Http!AnswerExact
  BY HttpExact
<1> QED BY <1>1, <1>2, <1>3, PTL DEF Http!Spec
=============================================================================
