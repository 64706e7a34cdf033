---------------------------- MODULE ServingProofs ----------------------------
(***************************************************************************)
(* Proofs about the process that serves the resolver and about the answers  *)
(* it gives to one consumer.                                                *)
(*                                                                          *)
(* Server, for any number of requests on each transport: a shutdown on a    *)
(* signal cuts nothing and closes the store on nobody before its deadline.  *)
(*                                                                          *)
(* Placement, for every artifact, every list of sources of any length,      *)
(* every allowlist and every node: plans are honoured, policies are kept,   *)
(* candidates can be used as they are received.  The argument: both answers *)
(* are computed from the same two sources, the first usable local one and   *)
(* the first usable HTTP one.  Node names filled in between change neither, *)
(* and the wire form of an answer is the answer made of the wire forms of   *)
(* its candidates.                                                          *)
(***************************************************************************)
EXTENDS Server, Placement, DomainProofs

-----------------------------------------------------------------------------
(* Server.                                                                  *)

\* The phases between the signal and the end of main.
ShuttingDown == {"httpShutdown", "grpcStop", "closeStore", "return"}

\* Nothing runs and nothing more is accepted on a transport.
HTTPDrained == http = "stopped" /\ Idle(HTTPRequests)
GRPCDrained == grpc = "stopped" /\ Idle(GRPCRequests)

(***************************************************************************)
(* What main knows in each phase.  A transport stays drained because its    *)
(* server stopped before the last of its requests was answered; the store   *)
(* is open until main has seen both transports drained or the deadline.     *)
(* Each error in errCh is that of a server that has stopped.                *)
(***************************************************************************)
ServerInv ==
    /\ ServerTypeOK
    /\ (exitBy = "none") <=> (main # "exited")
    /\ main \in {"start", "notify", "select"} => ctx = "none"
    /\ main \in ShuttingDown => http = "stopped" /\ ctx # "none"
    /\ main \in {"grpcStop", "closeStore", "return"} => ctx = "done" \/ HTTPDrained
    /\ main \in {"closeStore", "return"} => ctx = "done" \/ GRPCDrained
    /\ main = "exited" => HTTPDrained /\ GRPCDrained
    /\ main \in {"start", "notify", "select", "httpShutdown"} => grpcDone = "none"
    /\ main = "start" => http = "new" /\ grpc = "new"
    /\ main = "start" => \A r \in Requests : req[r] = NotReceived
    /\ grpcDone # "none" => grpc = "stopped"
    /\ grpcDone = "done" => Idle(GRPCRequests)
    /\ main \in {"notify", "select", "httpShutdown", "grpcStop", "closeStore"} => store = "open"
    /\ errCh = 1 => http = "stopped" \/ grpc = "stopped"
    /\ errCh = 2 => http = "stopped" /\ grpc = "stopped"
    /\ CutOnlyPastDeadline
    /\ StoreOutlivesHandlers

-----------------------------------------------------------------------------

\* Cutting connections leaves requests well typed, ends the ones it cuts, and fails none.
LEMMA CutFacts ==
    ASSUME ServerTypeOK, NEW rs
    PROVE  /\ Cut(rs) \in [Requests -> Request]
           /\ \A r \in Requests :
                 /\ Cut(rs)[r].failed = req[r].failed
                 /\ r \in rs => Cut(rs)[r].st # "running"
                 /\ Cut(rs)[r].st = "running" => req[r].st = "running"
BY DEF ServerTypeOK, Cut, Request

\* When nothing of rs runs, cutting rs changes nothing.
LEMMA CutIdle ==
    ASSUME ServerTypeOK, NEW rs, Idle(rs)
    PROVE  Cut(rs) = req
BY DEF ServerTypeOK, Cut, Idle

\* The end of the process keeps the invariant when no request is cut before the deadline.
LEMMA ExitInv ==
    ASSUME ServerInv, main # "exited", NEW how \in {"fatal", "signal", "return"}, Exit(how), UNCHANGED channels,
           store' \in {"closed", "open"},
           how = "return" => ctx = "done" \/ Idle(Requests)
    PROVE  ServerInv'
<1> USE DEF ServerInv
<1>1. ServerTypeOK'
  BY CutFacts DEF ServerTypeOK, Exit, channels, ServerState
<1>2. HTTPDrained' /\ GRPCDrained' /\ Idle(GRPCRequests)'
  BY CutFacts DEF HTTPDrained, GRPCDrained, Idle, Exit, Requests
<1>3. StoreOutlivesHandlers'
  BY CutFacts DEF StoreOutlivesHandlers, Exit, channels
<1>4. CutOnlyPastDeadline'
  <2>1. CASE how # "return"
    BY <2>1 DEF CutOnlyPastDeadline, Exit
  <2>2. CASE how = "return" /\ ctx = "done"
    BY <2>2 DEF CutOnlyPastDeadline, Exit, channels
  <2>3. CASE how = "return" /\ Idle(Requests)
    <3>1. req' = req
      BY <2>3, CutIdle DEF Exit
    <3>2. exitBy = "none"
      OBVIOUS
    <3> QED BY <3>1, <3>2 DEF CutOnlyPastDeadline, Exit, channels
  <2> QED BY <2>1, <2>2, <2>3
<1> QED BY <1>1, <1>2, <1>3, <1>4 DEF Exit, ShuttingDown

\* A step of a handler, or a new request, that keeps what the invariant says of requests.
LEMMA RequestInv ==
    ASSUME ServerInv, NEW r \in Requests, NEW q \in Request,
           req' = [req EXCEPT ![r] = q],
           UNCHANGED <<main, exitBy, store, channels, servers>>,
           main # "start", q.st # "cut",
           q.failed => req[r].failed \/ ctx = "done",
           q.st = "running" =>
               \/ req[r].st = "running"
               \/ r \in HTTPRequests /\ http = "serving"
               \/ r \in GRPCRequests /\ grpc = "serving"
    PROVE  ServerInv'
<1> USE DEF ServerInv, channels, servers
<1>1. ServerTypeOK'
  BY DEF ServerTypeOK
<1>2. HTTPDrained => HTTPDrained'
  BY ServerAssumption DEF HTTPDrained, Idle, ServerTypeOK, Requests
<1>3. grpc = "stopped" /\ Idle(GRPCRequests) => Idle(GRPCRequests)'
  BY ServerAssumption DEF Idle, ServerTypeOK, Requests
<1>4. GRPCDrained => GRPCDrained'
  BY <1>3 DEF GRPCDrained
<1>5. StoreOutlivesHandlers'
  BY DEF StoreOutlivesHandlers, ServerTypeOK
<1>6. CutOnlyPastDeadline'
  BY DEF CutOnlyPastDeadline, ServerTypeOK
<1>7. grpcDone' = "done" => Idle(GRPCRequests)'
  BY <1>3
<1> QED BY <1>1, <1>2, <1>4, <1>5, <1>6, <1>7 DEF ShuttingDown

\* A step that changes no request, while the process runs.
LEMMA UnchangedRequests ==
    ASSUME req' = req
    PROVE  /\ \A rs : Idle(rs)' <=> Idle(rs)
           /\ (\E r \in Requests : req'[r].st = "cut") <=> (\E r \in Requests : req[r].st = "cut")
           /\ (\E r \in Requests : req'[r].failed) <=> (\E r \in Requests : req[r].failed)
BY SMTT(20) DEF Idle

\* The steps of main preserve the invariant.
LEMMA MainInv ==
    ASSUME ServerInv, MainStep
    PROVE  ServerInv'
<1> USE DEF ServerInv, channels, servers
<1>1. CASE Start
  BY <1>1, UnchangedRequests DEF Start, ServerTypeOK, ShuttingDown, CutOnlyPastDeadline, StoreOutlivesHandlers
<1>2. CASE StartFails
  BY <1>2, ExitInv DEF StartFails
<1>3. CASE Notify
  BY <1>3, UnchangedRequests DEF Notify, ServerTypeOK, ShuttingDown, CutOnlyPastDeadline, StoreOutlivesHandlers
<1>4. CASE SelectSignal
  BY <1>4, UnchangedRequests, Zenon DEF SelectSignal, ServerTypeOK, ServerState, ShuttingDown,
     CutOnlyPastDeadline, StoreOutlivesHandlers
<1>5. CASE SelectError
  BY <1>5, ExitInv DEF SelectError, ServerTypeOK
<1>6. CASE HTTPShutdown
  BY <1>6, UnchangedRequests DEF HTTPShutdown, ShutdownReturns, ServerTypeOK, ShuttingDown,
     HTTPDrained, CutOnlyPastDeadline, StoreOutlivesHandlers
<1>7. CASE SelectGRPCDone
  BY <1>7, UnchangedRequests DEF SelectGRPCDone, ServerTypeOK, ShuttingDown, HTTPDrained,
     GRPCDrained, CutOnlyPastDeadline, StoreOutlivesHandlers
<1>8. CASE SelectCtxDone
  <2>1. ServerTypeOK'
    BY <1>8, CutFacts DEF SelectCtxDone, ServerTypeOK, ServerState
  <2>2. Idle(GRPCRequests)'
    BY <1>8, CutFacts DEF SelectCtxDone, Idle, Requests
  <2> QED BY <1>8, <2>1, <2>2 DEF SelectCtxDone, ShuttingDown, CutOnlyPastDeadline, StoreOutlivesHandlers
<1>9. CASE Return
  <2>1. CASE main = "closeStore"
    BY <1>9, <2>1, UnchangedRequests DEF Return, ServerTypeOK, ShuttingDown, HTTPDrained,
       GRPCDrained, CutOnlyPastDeadline, StoreOutlivesHandlers
  <2>2. CASE main = "return"
    <3>1. ctx = "done" \/ Idle(Requests)
      BY <2>2 DEF HTTPDrained, GRPCDrained, Idle, Requests
    <3> QED BY <1>9, <2>2, <3>1, ExitInv DEF Return, ServerTypeOK
  <2> QED BY <1>9, <2>1, <2>2 DEF Return
<1> QED BY <1>1, <1>2, <1>3, <1>4, <1>5, <1>6, <1>7, <1>8, <1>9, Zenon DEF MainStep

\* A process that has received nothing.
LEMMA NothingReceived ==
    ASSUME NEW f, f = [r \in Requests |-> NotReceived]
    PROVE  /\ f \in [Requests -> Request]
           /\ \A r \in Requests : f[r] = NotReceived /\ f[r].st = "none" /\ f[r].failed = FALSE
<1>1. NotReceived \in Request /\ NotReceived.st = "none" /\ NotReceived.failed = FALSE
  BY DEF NotReceived, Request
<1> QED BY <1>1

\* The invariant holds when the process starts.
LEMMA InvInit == ServerInit => ServerInv
<1> SUFFICES ASSUME ServerInit PROVE ServerInv
  OBVIOUS
<1>1. 0 \in 0 .. 2 /\ 0 # 1 /\ 0 # 2
  BY SMT
<1>2. ServerTypeOK /\ Idle(GRPCRequests) /\ CutOnlyPastDeadline /\ StoreOutlivesHandlers
  BY <1>1, NothingReceived, ZenonT(30) DEF ServerInit, ServerTypeOK, ServerState, Idle, Requests, CutOnlyPastDeadline,
     StoreOutlivesHandlers
<1> QED BY <1>1, <1>2, NothingReceived DEF ServerInit, ServerInv, ShuttingDown

\* Every step preserves the invariant.
LEMMA InvStep == ServerInv /\ [ServerNext]_serverVars => ServerInv'
<1> SUFFICES ASSUME ServerInv, [ServerNext]_serverVars PROVE ServerInv'
  OBVIOUS
<1> USE DEF ServerInv, channels, servers
<1>1. CASE MainStep
  BY <1>1, MainInv
<1>2. CASE ServeHTTP
  <2>1. errCh' \in 0 .. 2 /\ (errCh' = 1 => http' = "stopped" \/ grpc' = "stopped")
                          /\ (errCh' = 2 => http' = "stopped" /\ grpc' = "stopped")
    BY <1>2 DEF ServeHTTP, ServerTypeOK
  <2> QED BY <1>2, <2>1, UnchangedRequests, Zenon DEF ServeHTTP, ServerTypeOK, ServerState, ShuttingDown,
             HTTPDrained, GRPCDrained, CutOnlyPastDeadline, StoreOutlivesHandlers
<1>3. CASE ServeGRPC
  <2>1. errCh' \in 0 .. 2 /\ (errCh' = 1 => http' = "stopped" \/ grpc' = "stopped")
                          /\ (errCh' = 2 => http' = "stopped" /\ grpc' = "stopped")
    BY <1>3 DEF ServeGRPC, ServerTypeOK
  <2> QED BY <1>3, <2>1, UnchangedRequests, Zenon DEF ServeGRPC, ServerTypeOK, ServerState, ShuttingDown,
             HTTPDrained, GRPCDrained, CutOnlyPastDeadline, StoreOutlivesHandlers
<1>4. CASE GracefulStop
  BY <1>4, UnchangedRequests DEF GracefulStop, ServerTypeOK, ServerState, ShuttingDown, HTTPDrained,
     GRPCDrained, CutOnlyPastDeadline, StoreOutlivesHandlers
<1>5. CASE CtxDone
  BY <1>5, UnchangedRequests DEF CtxDone, ServerTypeOK, ShuttingDown, CutOnlyPastDeadline, StoreOutlivesHandlers
<1>6. CASE Signal
  <2>1. CASE main \in {"start", "notify"}
    BY <1>6, <2>1, ExitInv DEF Signal, ServerTypeOK
  <2>2. CASE main \notin {"start", "notify"}
    BY <1>6, <2>2, UnchangedRequests, Zenon DEF Signal, ServerTypeOK, ShuttingDown, HTTPDrained,
       GRPCDrained, CutOnlyPastDeadline, StoreOutlivesHandlers
  <2> QED BY <2>1, <2>2
<1>7. CASE StartAgain
  <2>1. errCh' \in 0 .. 2 /\ errCh' # 1 /\ errCh' # 2
    BY <1>7 DEF StartAgain
  <2>2. ServerTypeOK' /\ Idle(GRPCRequests)' /\ CutOnlyPastDeadline' /\ StoreOutlivesHandlers'
    BY <1>7, <2>1, NothingReceived, Zenon DEF StartAgain, ServerTypeOK, ServerState, Idle, Requests,
       CutOnlyPastDeadline, StoreOutlivesHandlers
  <2> QED BY <1>7, <2>1, <2>2, NothingReceived DEF StartAgain, ShuttingDown
<1>8. ASSUME NEW r \in Requests, Accept(r) PROVE ServerInv'
  <2> DEFINE q == [st |-> "running", failed |-> FALSE]
  <2>1. q \in Request
    BY DEF Request
  <2>2. \/ r \in HTTPRequests /\ http = "serving"
        \/ r \in GRPCRequests /\ grpc = "serving"
    BY <1>8 DEF Accept, Requests
  <2>3. main # "start"
    BY <2>2
  <2> QED BY <1>8, <2>1, <2>2, <2>3, RequestInv, Zenon DEF Accept
<1>9. ASSUME NEW r \in Requests, HandlerStoreCall(r) PROVE ServerInv'
  <2> DEFINE q == [req[r] EXCEPT !.failed = CallFails]
  <2>1. req[r] \in Request /\ req[r].st = "running"
    BY <1>9 DEF HandlerStoreCall, ServerTypeOK
  <2>2. q \in Request /\ q.st = "running" /\ q.failed = (store = "closed")
    BY <2>1, Zenon DEF Request, CallFails
  <2>3. main # "start" /\ main # "exited"
    BY <2>1 DEF NotReceived, HTTPDrained, GRPCDrained, Idle, Requests
  <2>4. store = "closed" => ctx = "done"
    BY <2>1, <2>3 DEF ServerTypeOK, HTTPDrained, GRPCDrained, Idle, Requests
  <2>5. q.failed => req[r].failed \/ ctx = "done"
    BY <2>2, <2>4, Zenon
  <2>6. req' = [req EXCEPT ![r] = q] /\ UNCHANGED <<main, exitBy, store, channels, servers>>
    BY <1>9 DEF HandlerStoreCall, ServerTypeOK
  <2> HIDE DEF q
  <2> QED BY <2>1, <2>2, <2>3, <2>5, <2>6, RequestInv, Zenon
<1>10. ASSUME NEW r \in Requests, HandlerReturns(r) PROVE ServerInv'
  <2> DEFINE q == [req[r] EXCEPT !.st = "answered"]
  <2>1. req[r] \in Request /\ req[r].st = "running"
    BY <1>10 DEF HandlerReturns, ServerTypeOK
  <2>2. q \in Request /\ q.st = "answered" /\ q.failed = req[r].failed
    BY <2>1 DEF Request
  <2>3. main # "start"
    BY <2>1 DEF NotReceived
  <2>4. req' = [req EXCEPT ![r] = q] /\ UNCHANGED <<main, exitBy, store, channels, servers>>
    BY <1>10 DEF HandlerReturns, ServerTypeOK
  <2> HIDE DEF q
  <2> QED BY <2>2, <2>3, <2>4, RequestInv, Zenon
<1>11. CASE UNCHANGED serverVars
  BY <1>11, UnchangedRequests DEF serverVars, ServerTypeOK, ShuttingDown, HTTPDrained,
     GRPCDrained, CutOnlyPastDeadline, StoreOutlivesHandlers
<1> QED BY <1>1, <1>2, <1>3, <1>4, <1>5, <1>6, <1>7, <1>8, <1>9, <1>10, <1>11, Zenon DEF ServerNext

\* A shutdown on a signal cuts no request before its deadline: main waits for both drains.
THEOREM ShutdownCutsNothingEarly == ServerSpec => []CutOnlyPastDeadline
<1>1. ServerInv => CutOnlyPastDeadline
  BY DEF ServerInv
<1> QED BY <1>1, InvInit, InvStep, PTL DEF ServerSpec

\* No handler meets a closed store before the deadline: closeStore is deferred past both drains.
THEOREM StoreClosedLast == ServerSpec => []StoreOutlivesHandlers
<1>1. ServerInv => StoreOutlivesHandlers
  BY DEF ServerInv
<1> QED BY <1>1, InvInit, InvStep, PTL DEF ServerSpec

\* main, its channels, both servers and every request stay within the states the code
\* has for them; in particular the two errors errCh has room for are all that is ever sent.
THEOREM ServerTypeCorrect == ServerSpec => []ServerTypeOK
<1>1. ServerInv => ServerTypeOK
  BY DEF ServerInv
<1> QED BY <1>1, InvInit, InvStep, PTL DEF ServerSpec

-----------------------------------------------------------------------------
(* Placement.                                                               *)

\* The answer to the binding b for a stored artifact, as it is received.
Received(b, a, listed, target) ==
    LET r == IF DigestMismatch(b, a) THEN NoPlan("DIGEST_MISMATCH")
             ELSE ResolveRegistered(b, target, a, effectiveArtifactSources(b.key, a, listed))
    IN  [r EXCEPT !.candidates = grpcCandidatesFromDomain(@)]

\* The two sources it is made of, the node of the copy, and their wire forms.
Copy(b, a, listed) == LocalSource(b, a, effectiveArtifactSources(b.key, a, listed))

Cached(b, a, listed) == RemoteSource(b, a, effectiveArtifactSources(b.key, a, listed))

ProducerNode(b, a, listed) == producerNodeName(a, Copy(b, a, listed))

WireCopy(a, s, target) ==
    [priority |-> 1, mode |-> "local_reuse", digest |-> a.digest, loc |-> s.loc, uri |-> "",
     ready |-> "ready", backend |-> "", onNode |-> IF target = "" THEN s.loc.node ELSE ""]

WireCached(a, s, priority) ==
    [priority |-> priority, mode |-> "remote_fetch", digest |-> a.digest, loc |-> s.loc,
     uri |-> s.loc.uri, ready |-> "ready", backend |-> s.backend, onNode |-> ""]

Copies(b, a, listed, target) ==
    IF Copy(b, a, listed) = None THEN <<>> ELSE <<WireCopy(a, Copy(b, a, listed), target)>>

Caches(b, a, listed) ==
    IF Cached(b, a, listed) = None THEN <<>>
    ELSE <<WireCached(a, Cached(b, a, listed), IF Copy(b, a, listed) = None THEN 1 ELSE 2)>>

\* The fields of an answer.
Says(q, status, decision, place, node, mode, candidates) ==
    /\ q.status = status /\ q.decision = decision /\ q.place = place /\ q.node = node
    /\ q.plan = mode /\ q.candidates = candidates

-----------------------------------------------------------------------------
(* The answer on the wire.                                                  *)

\* Short lists are converted candidate by candidate.
LEMMA WireLists ==
    ASSUME NEW c, NEW d
    PROVE  /\ grpcCandidatesFromDomain(<<>>) = <<>>
           /\ grpcCandidatesFromDomain(<<c>>) = <<grpcCandidate(c)>>
           /\ grpcCandidatesFromDomain(<<c>> \o <<d>>) = <<grpcCandidate(c)>> \o <<grpcCandidate(d)>>
           /\ <<>> \o <<c>> = <<c>> /\ <<c>> \o <<>> = <<c>> /\ <<>> \o <<>> = <<>>
           /\ <<c>> # <<>> /\ <<c>> \o <<d>> # <<>>
<1>1. grpcCandidatesFromDomain(<<>>) = <<>>
  BY DEF grpcCandidatesFromDomain
<1>2. \A x : grpcCandidatesFromDomain(<<x>>) = <<grpcCandidate(x)>>
  BY DEF grpcCandidatesFromDomain
<1>3. \A x, y : grpcCandidatesFromDomain(<<x, y>>) = <<grpcCandidate(x), grpcCandidate(y)>>
  BY DEF grpcCandidatesFromDomain
<1>4. <<c>> \o <<d>> = <<c, d>> /\ <<grpcCandidate(c)>> \o <<grpcCandidate(d)>> = <<grpcCandidate(c), grpcCandidate(d)>>
  BY ConcatOnes
<1>5. <<>> \o <<c>> = <<c>> /\ <<c>> \o <<>> = <<c>> /\ <<>> \o <<>> = <<>>
  OBVIOUS
<1>6. <<c>> # <<>> /\ <<c, d>> # <<>>
  OBVIOUS
<1> QED BY <1>1, <1>2, <1>3, <1>4, <1>5, <1>6, Zenon

\* The local candidate on the wire.
LEMMA CopiesOnWire ==
    ASSUME NEW b \in Binding, NEW a \in Artifact, NEW listed \in Seq(Source), ~DigestMismatch(b, a),
           NEW target \in Nodes \cup {""}
    PROVE  LET local == LocalList(b, target, a, effectiveArtifactSources(b.key, a, listed))
           IN  /\ local = <<>> <=> Copy(b, a, listed) = None
               /\ local = <<>> \/ \E c : local = <<c>>
               /\ grpcCandidatesFromDomain(local) = Copies(b, a, listed, target)
<1> DEFINE srcs == effectiveArtifactSources(b.key, a, listed)
           s == Copy(b, a, listed)
           local == LocalList(b, target, a, srcs)
<1>1. b.key \in ArtifactKey
  BY Zenon DEF Binding
<1>2. SourceList(srcs)
  BY <1>1, EffectiveType, Zenon
<1>3. s = LocalSource(b, a, srcs) /\ Copies(b, a, listed, target) = IF s = None THEN <<>> ELSE <<WireCopy(a, s, target)>>
  BY Zenon DEF Copy, Copies
<1> HIDE DEF srcs, s
<1>4. \/ s = None /\ local = <<>>
      \/ s # None /\ \E c : local = <<c>> /\ LocalOffer(b, a, target, s, c)
  BY <1>2, <1>3, LocalFacts, Zenon
<1>5. ASSUME NEW c, LocalOffer(b, a, target, s, c)
      PROVE  grpcCandidate(c) = WireCopy(a, s, target)
  BY <1>5, Zenon DEF grpcCandidate, WireCopy, LocalOffer, OfferOf, Usable, grpcLocationFromDomain
<1> HIDE DEF local
<1>6. CASE s = None
  BY <1>3, <1>4, <1>6, WireLists, Zenon DEF local, s, srcs
<1>7. CASE s # None
  <2>1. PICK c : local = <<c>> /\ LocalOffer(b, a, target, s, c)
    BY <1>4, <1>7, Zenon
  <2>2. grpcCandidatesFromDomain(local) = <<WireCopy(a, s, target)>>
    BY <1>5, <2>1, WireLists, Zenon
  <2>3. local # <<>>
    BY <2>1, Zenon
  <2> QED BY <1>3, <1>7, <2>1, <2>2, <2>3, Zenon DEF local, s, srcs
<1> QED BY <1>6, <1>7, Zenon

\* The remote candidate on the wire.
LEMMA CachesOnWire ==
    ASSUME NEW b \in Binding, NEW a \in Artifact, NEW listed \in Seq(Source), ~DigestMismatch(b, a),
           NEW target \in Nodes \cup {""}
    PROVE  LET remote == RemoteList(b, target, a, effectiveArtifactSources(b.key, a, listed))
           IN  /\ remote = <<>> <=> Cached(b, a, listed) = None
               /\ remote = <<>> \/ \E c : remote = <<c>>
               /\ grpcCandidatesFromDomain(remote) = Caches(b, a, listed)
<1> DEFINE srcs == effectiveArtifactSources(b.key, a, listed)
           s == Cached(b, a, listed)
           p == IF Copy(b, a, listed) = None THEN 1 ELSE 2
           local == LocalList(b, target, a, srcs)
           remote == RemoteList(b, target, a, srcs)
<1>1. b.key \in ArtifactKey
  BY Zenon DEF Binding
<1>2. SourceList(srcs)
  BY <1>1, EffectiveType, Zenon
<1>3. s = RemoteSource(b, a, srcs) /\ Caches(b, a, listed) = IF s = None THEN <<>> ELSE <<WireCached(a, s, p)>>
  BY Zenon DEF Cached, Caches
<1>4. p = IF local = <<>> THEN 1 ELSE 2
  BY CopiesOnWire, Zenon
<1> HIDE DEF srcs, s, p
<1>5. \/ s = None /\ remote = <<>>
      \/ s # None /\ \E c : remote = <<c>> /\ RemoteOffer(b, a, local, s, c)
  BY <1>2, <1>3, RemoteFacts, Zenon
<1>6. ASSUME NEW c, RemoteOffer(b, a, local, s, c)
      PROVE  grpcCandidate(c) = WireCached(a, s, p)
  BY <1>4, <1>6, Zenon DEF grpcCandidate, WireCached, RemoteOffer, OfferOf, Usable, grpcLocationFromDomain
<1> HIDE DEF local, remote
<1>7. CASE s = None
  BY <1>3, <1>5, <1>7, WireLists, Zenon DEF remote, s, srcs
<1>8. CASE s # None
  <2>1. PICK c : remote = <<c>> /\ RemoteOffer(b, a, local, s, c)
    BY <1>5, <1>8, Zenon
  <2>2. grpcCandidatesFromDomain(remote) = <<WireCached(a, s, p)>>
    BY <1>6, <2>1, WireLists, ZenonT(30)
  <2>3. remote # <<>>
    BY <2>1, Zenon
  <2> QED BY <1>3, <1>8, <2>1, <2>2, <2>3, Zenon DEF remote, s, srcs
<1> QED BY <1>7, <1>8, Zenon

\* The two lists of an answer, separately and together.
LEMMA ListsOnWire ==
    ASSUME NEW b \in Binding, NEW a \in Artifact, NEW listed \in Seq(Source), ~DigestMismatch(b, a),
           NEW target \in Nodes \cup {""}
    PROVE  LET srcs == effectiveArtifactSources(b.key, a, listed)
               local == LocalList(b, target, a, srcs)
               remote == RemoteList(b, target, a, srcs)
           IN  /\ local = <<>> <=> Copy(b, a, listed) = None
               /\ remote = <<>> <=> Cached(b, a, listed) = None
               /\ local \o remote = <<>> <=> (local = <<>> /\ remote = <<>>)
               /\ grpcCandidatesFromDomain(<<>>) = <<>>
               /\ grpcCandidatesFromDomain(local) = Copies(b, a, listed, target)
               /\ grpcCandidatesFromDomain(remote) = Caches(b, a, listed)
               /\ grpcCandidatesFromDomain(local \o remote)
                     = Copies(b, a, listed, target) \o Caches(b, a, listed)
<1> DEFINE srcs == effectiveArtifactSources(b.key, a, listed)
           local == LocalList(b, target, a, srcs)
           remote == RemoteList(b, target, a, srcs)
           W(cs) == grpcCandidatesFromDomain(cs)
<1>1. /\ local = <<>> <=> Copy(b, a, listed) = None
      /\ local = <<>> \/ \E c : local = <<c>>
      /\ W(local) = Copies(b, a, listed, target)
  BY CopiesOnWire, Zenon
<1>2. /\ remote = <<>> <=> Cached(b, a, listed) = None
      /\ remote = <<>> \/ \E c : remote = <<c>>
      /\ W(remote) = Caches(b, a, listed)
  BY CachesOnWire, Zenon
<1> HIDE DEF local, remote
<1>3. W(local \o remote) = W(local) \o W(remote) /\ (local \o remote = <<>> => local = <<>> /\ remote = <<>>)
  <2>1. CASE local = <<>> /\ remote = <<>>
    BY <2>1, WireLists, Zenon
  <2>2. ASSUME NEW c, local = <<>>, remote = <<c>>
        PROVE  W(local \o remote) = W(local) \o W(remote) /\ local \o remote # <<>>
    <3>1. <<>> \o <<c>> = <<c>> /\ W(<<c>>) = <<grpcCandidate(c)>> /\ W(<<>>) = <<>> /\ <<c>> # <<>>
      BY WireLists, Zenon
    <3>2. <<>> \o <<grpcCandidate(c)>> = <<grpcCandidate(c)>>
      BY WireLists, Zenon
    <3> HIDE DEF W
    <3> QED BY <2>2, <3>1, <3>2, Zenon
  <2>3. ASSUME NEW c, local = <<c>>, remote = <<>>
        PROVE  W(local \o remote) = W(local) \o W(remote) /\ local \o remote # <<>>
    <3>1. <<c>> \o <<>> = <<c>> /\ W(<<c>>) = <<grpcCandidate(c)>> /\ W(<<>>) = <<>> /\ <<c>> # <<>>
      BY WireLists, Zenon
    <3>2. <<grpcCandidate(c)>> \o <<>> = <<grpcCandidate(c)>>
      BY WireLists, Zenon
    <3> HIDE DEF W
    <3> QED BY <2>3, <3>1, <3>2, Zenon
  <2>4. ASSUME NEW c, NEW d, local = <<c>>, remote = <<d>>
        PROVE  W(local \o remote) = W(local) \o W(remote) /\ local \o remote # <<>>
    <3>1. /\ W(<<c>> \o <<d>>) = <<grpcCandidate(c)>> \o <<grpcCandidate(d)>>
          /\ W(<<c>>) = <<grpcCandidate(c)>> /\ <<c>> \o <<d>> # <<>>
      BY WireLists, Zenon
    <3>2. W(<<d>>) = <<grpcCandidate(d)>>
      BY WireLists, Zenon
    <3> HIDE DEF W
    <3> QED BY <2>4, <3>1, <3>2, Zenon
  <2> HIDE DEF W
  <2> QED BY <1>1, <1>2, <2>1, <2>2, <2>3, <2>4, Zenon
<1>4. local = <<>> /\ remote = <<>> => local \o remote = <<>>
  BY WireLists, Zenon
<1> QED BY <1>1, <1>2, <1>3, <1>4, WireLists, Zenon DEF local, remote

\* A binding that names another digest gets no plan.
LEMMA MismatchAnswer ==
    ASSUME NEW b, NEW a, NEW listed, NEW target, DigestMismatch(b, a)
    PROVE  Says(Received(b, a, listed, target), "DIGEST_MISMATCH", "unavailable", "none", "", "none", <<>>)
BY WireLists, Zenon DEF Received, NoPlan, Says

\* The check on a node.
LEMMA CheckAnswer ==
    ASSUME NEW b \in Binding, NEW a \in Artifact, NEW listed \in Seq(Source), ~DigestMismatch(b, a),
           NEW n \in Nodes
    PROVE  LET q == Received(b, a, listed, n)
               producer == ProducerNode(b, a, listed)
           IN  IF n = producer /\ Copy(b, a, listed) # None
               THEN Says(q, "RESOLVED", "local_reuse", "preferred_node", producer, "local_reuse",
                         Copies(b, a, listed, n) \o Caches(b, a, listed))
               ELSE IF b.policy = "SameNodeOnly"
               THEN Says(q, "POLICY_BLOCKED", "unavailable", "required_node", producer, "none", <<>>)
               ELSE IF Cached(b, a, listed) = None
               THEN Says(q, "UNAVAILABLE", "unavailable", "none", "", "none", <<>>)
               ELSE Says(q, "RESOLVED", "remote_fetch", "none", "", "remote_fetch", Caches(b, a, listed))
<1> DEFINE srcs == effectiveArtifactSources(b.key, a, listed)
           local == LocalList(b, n, a, srcs)
           remote == RemoteList(b, n, a, srcs)
           producer == ProducerNode(b, a, listed)
           r == ResolveOnNode(b.policy, n, producer, local, remote)
<1>1. n # ""
  BY DomainAssumption, Zenon
<1>2. Received(b, a, listed, n) = [r EXCEPT !.candidates = grpcCandidatesFromDomain(@)]
  BY <1>1, Zenon DEF Received, ResolveRegistered, LocalList, RemoteList, LocalSource, RemoteSource, ProducerNode, Copy
<1>3. /\ local = <<>> <=> Copy(b, a, listed) = None
      /\ remote = <<>> <=> Cached(b, a, listed) = None
      /\ grpcCandidatesFromDomain(<<>>) = <<>>
      /\ grpcCandidatesFromDomain(remote) = Caches(b, a, listed)
      /\ grpcCandidatesFromDomain(local \o remote) = Copies(b, a, listed, n) \o Caches(b, a, listed)
  BY ListsOnWire, Zenon
<1> HIDE DEF local, remote, producer
<1>4. CASE n = producer /\ Copy(b, a, listed) # None
  BY <1>2, <1>3, <1>4, Zenon DEF ResolveOnNode, Resolved, Says, producer
<1>5. CASE ~(n = producer /\ Copy(b, a, listed) # None) /\ b.policy = "SameNodeOnly"
  BY <1>2, <1>3, <1>5, Zenon DEF ResolveOnNode, NoPlan, Says, producer
<1>6. CASE ~(n = producer /\ Copy(b, a, listed) # None) /\ b.policy # "SameNodeOnly"
  BY <1>2, <1>3, <1>6, ZenonT(30) DEF ResolveOnNode, NoPlan, Resolved, Says, producer
<1> QED BY <1>4, <1>5, <1>6, Zenon

\* The plan.
LEMMA PlanAnswer ==
    ASSUME NEW b \in Binding, NEW a \in Artifact, NEW listed \in Seq(Source), ~DigestMismatch(b, a)
    PROVE  LET q == Received(b, a, listed, "")
               producer == ProducerNode(b, a, listed)
               copies == Copies(b, a, listed, "")
               caches == Caches(b, a, listed)
               here == Copy(b, a, listed) # None /\ producer # ""
               none == Says(q, "UNAVAILABLE", "unavailable", "none", "", "none", <<>>)
           IN  /\ b.policy = "SameNodeOnly" =>
                     IF here
                     THEN Says(q, "RESOLVED", "local_reuse", "required_node", producer, "local_reuse", copies)
                     ELSE none
               /\ b.policy = "SameNodeThenRemote" =>
                     IF ~here /\ Cached(b, a, listed) = None THEN none
                     ELSE IF ~here
                     THEN Says(q, "RESOLVED", "remote_fetch", "none", "", "remote_fetch", caches)
                     ELSE IF Cached(b, a, listed) = None
                     THEN Says(q, "RESOLVED", "local_reuse", "required_node", producer, "local_reuse", copies)
                     ELSE Says(q, "RESOLVED", "remote_fetch", "preferred_node", producer, "remote_fetch",
                               copies \o caches)
               /\ b.policy = "RemoteOK" =>
                     IF Copy(b, a, listed) = None /\ Cached(b, a, listed) = None THEN none
                     ELSE Says(q, "RESOLVED", "remote_fetch", "none", "",
                               IF Cached(b, a, listed) # None THEN "remote_fetch" ELSE "local_reuse",
                               copies \o caches)
<1> DEFINE srcs == effectiveArtifactSources(b.key, a, listed)
           q == Received(b, a, listed, "")
           local == LocalList(b, "", a, srcs)
           remote == RemoteList(b, "", a, srcs)
           producer == ProducerNode(b, a, listed)
           Sent(r) == [r EXCEPT !.candidates = grpcCandidatesFromDomain(@)]
<1>1. q = Sent(CASE b.policy = "SameNodeOnly" -> PlanSameNodeOnly(producer, local)
                 [] b.policy = "SameNodeThenRemote" -> PlanSameNodeThenRemote(producer, local, remote)
                 [] OTHER -> PlanRemoteOK(local, remote))
  BY DEF Received, ResolveRegistered, LocalList, RemoteList, LocalSource, RemoteSource, ProducerNode, Copy
<1>2. /\ local = <<>> <=> Copy(b, a, listed) = None
      /\ remote = <<>> <=> Cached(b, a, listed) = None
      /\ local \o remote = <<>> <=> (local = <<>> /\ remote = <<>>)
      /\ grpcCandidatesFromDomain(<<>>) = <<>>
      /\ grpcCandidatesFromDomain(local) = Copies(b, a, listed, "")
      /\ grpcCandidatesFromDomain(remote) = Caches(b, a, listed)
      /\ grpcCandidatesFromDomain(local \o remote) = Copies(b, a, listed, "") \o Caches(b, a, listed)
  BY ListsOnWire, Zenon
<1> HIDE DEF local, remote, producer, q
<1>3. CASE b.policy = "SameNodeOnly"
  <2>1. q = Sent(PlanSameNodeOnly(producer, local))
    BY <1>1, <1>3
  <2> QED BY <1>2, <1>3, <2>1, Zenon DEF PlanSameNodeOnly, NoPlan, Resolved, Says, producer, q
<1>4. CASE b.policy = "SameNodeThenRemote"
  <2>1. q = Sent(PlanSameNodeThenRemote(producer, local, remote))
    BY <1>1, <1>4
  <2> QED BY <1>2, <1>4, <2>1, ZenonT(60) DEF PlanSameNodeThenRemote, NoPlan, Resolved, Says, producer, q
<1>5. CASE b.policy = "RemoteOK"
  <2>1. q = Sent(PlanRemoteOK(local, remote))
    BY <1>1, <1>5
  <2> QED BY <1>2, <1>5, <2>1, Zenon DEF PlanRemoteOK, NoPlan, Resolved, Says, producer, q
<1> QED BY <1>3, <1>4, <1>5, Zenon

\* The copy an answer offers has a path, and the node named for it is its own if it has one.
LEMMA CopyFacts ==
    ASSUME NEW b \in Binding, NEW a \in Artifact, NEW listed \in Seq(Source), Copy(b, a, listed) # None
    PROVE  LET s == Copy(b, a, listed)
           IN  /\ s.loc \in Location /\ s.loc.kind = "node_local" /\ s.loc.path # ""
               /\ s.loc.node \in Nodes \cup {""} /\ a.digest \in Digests
               /\ s.loc.node # "" => ProducerNode(b, a, listed) = s.loc.node
<1> DEFINE srcs == effectiveArtifactSources(b.key, a, listed)
           s == Copy(b, a, listed)
<1>1. b.key \in ArtifactKey
  BY DEF Binding
<1>2. SourceList(srcs)
  BY <1>1, EffectiveType
<1>3. Usable(b.key, a, s) /\ s.loc.kind = "node_local" /\ s.loc.path # ""
  BY <1>2, FirstLocal, Zenon DEF Copy, LocalSource
<1>4. s.loc.node # "" => ProducerNode(b, a, listed) = s.loc.node
  BY Zenon DEF ProducerNode, producerNodeName
<1> HIDE DEF s, srcs
<1>5. s.loc \in Location /\ a.digest \in Digests
  BY <1>3, Zenon DEF Usable, Source, ValidateArtifactSourceForArtifact, Artifact, Blank, DigestValue
<1>6. s.loc.node \in Nodes \cup {""}
  BY <1>3, <1>5, ZenonT(30) DEF Location
<1> QED BY <1>3, <1>4, <1>5, <1>6, Zenon DEF s

\* The URI an answer offers passed the checks of the running process.
LEMMA CachedFacts ==
    ASSUME NEW b \in Binding, NEW a \in Artifact, NEW listed \in Seq(Source), Cached(b, a, listed) # None
    PROVE  LET s == Cached(b, a, listed)
           IN  /\ s.loc \in Location /\ s.loc.kind = "http" /\ s.loc.uri \in URIs
               /\ s.backend \in BackendID /\ a.digest \in Digests
               /\ Parsed[s.loc.uri].text = "plain" /\ ~Parsed[s.loc.uri].query
               /\ Parsed[s.loc.uri].host \notin PrivateHosts \cup {""}
               /\ Parsed[s.loc.uri].host \in AllowedHosts \/ (AllowedHosts = {} /\ AllowAny)
<1> DEFINE srcs == effectiveArtifactSources(b.key, a, listed)
           s == Cached(b, a, listed)
<1>1. b.key \in ArtifactKey
  BY DEF Binding
<1>2. SourceList(srcs)
  BY <1>1, EffectiveType
<1>3. Usable(b.key, a, s) /\ s.loc.kind = "http"
  BY <1>2, FirstRemote, Zenon DEF Cached, RemoteSource
<1> HIDE DEF s, srcs
<1>4. s.loc \in Location /\ s.backend \in BackendID /\ a.digest \in Digests
  BY <1>3, Zenon DEF Usable, Source, ValidateArtifactSourceForArtifact, Artifact, Blank, DigestValue
<1>5. s.loc.uri \in URIs
  BY <1>3, <1>4, Zenon DEF Location
<1>6. validateCandidateURI(s.loc.uri)
  BY <1>3 DEF Usable, validateCandidateSource
<1>7. /\ Parsed[s.loc.uri].text = "plain" /\ ~Parsed[s.loc.uri].query
      /\ Parsed[s.loc.uri].host \notin PrivateHosts \cup {""}
      /\ Parsed[s.loc.uri].host \in AllowedHosts \/ (AllowedHosts = {} /\ AllowAny)
  BY <1>6, Zenon DEF validateCandidateURI, fetchable, hostAllowed
<1> QED BY <1>3, <1>4, <1>5, <1>7, ZenonT(30) DEF s

-----------------------------------------------------------------------------
(* What holds of every answer.                                              *)

\* A received candidate that can be used for the artifact a.
Fit(a, c) ==
    /\ c \in WireCandidate
    /\ c.ready = "ready"
    /\ c.digest = a.digest
    /\ c.mode = "local_reuse" => c.loc.path # ""
    /\ c.mode = "remote_fetch" =>
          /\ c.loc.uri = c.uri
          /\ Parsed[c.uri].text = "plain" /\ ~Parsed[c.uri].query
          /\ Parsed[c.uri].host \notin PrivateHosts \cup {""}
          /\ Parsed[c.uri].host \in AllowedHosts \/ (AllowedHosts = {} /\ AllowAny)

\* A list of such candidates in order of priority.
FitList(a, cs) ==
    /\ cs \in Seq(WireCandidate)
    /\ \A i \in DOMAIN cs : /\ Fit(a, cs[i])
                            /\ \A j \in DOMAIN cs : i < j => cs[i].priority < cs[j].priority

Modes(cs) == {cs[i].mode : i \in DOMAIN cs}

\* Lists of at most two.
LEMMA ShortLists ==
    ASSUME NEW x, NEW y
    PROVE  /\ DOMAIN <<>> = {} /\ DOMAIN <<x>> = {1} /\ DOMAIN <<x, y>> = {1, 2}
           /\ <<x>>[1] = x /\ <<x, y>>[1] = x /\ <<x, y>>[2] = y
           /\ <<x>> # <<>> /\ <<x, y>> # <<>>
           /\ \A S : /\ <<>> \in Seq(S)
                     /\ x \in S => <<x>> \in Seq(S)
                     /\ (x \in S /\ y \in S) => <<x, y>> \in Seq(S)
<1>1. DOMAIN <<>> = {} /\ DOMAIN <<x>> = {1} /\ DOMAIN <<x, y>> = {1, 2}
  OBVIOUS
<1>2. <<x>>[1] = x /\ <<x, y>>[1] = x /\ <<x, y>>[2] = y
  OBVIOUS
<1>3. <<x>> # <<>> /\ <<x, y>> # <<>>
  OBVIOUS
<1>4. ASSUME NEW S
      PROVE  /\ <<>> \in Seq(S)
             /\ x \in S => <<x>> \in Seq(S)
             /\ (x \in S /\ y \in S) => <<x, y>> \in Seq(S)
  OBVIOUS
<1> QED BY <1>1, <1>2, <1>3, <1>4, Zenon

\* Their modes, and when they are fit.
LEMMA ShortFit ==
    ASSUME NEW a, NEW x, NEW y
    PROVE  /\ Modes(<<>>) = {}
           /\ Modes(<<x>>) = {x.mode}
           /\ Modes(<<x, y>>) = {x.mode, y.mode}
           /\ FitList(a, <<>>)
           /\ Fit(a, x) => FitList(a, <<x>>)
           /\ (Fit(a, x) /\ Fit(a, y) /\ x.priority = 1 /\ y.priority = 2) => FitList(a, <<x, y>>)
<1> DEFINE one == <<x>>
           two == <<x, y>>
           nil == <<>>
<1>1. /\ DOMAIN nil = {} /\ DOMAIN one = {1} /\ DOMAIN two = {1, 2}
      /\ one[1] = x /\ two[1] = x /\ two[2] = y
      /\ nil \in Seq(WireCandidate)
      /\ x \in WireCandidate => one \in Seq(WireCandidate)
      /\ (x \in WireCandidate /\ y \in WireCandidate) => two \in Seq(WireCandidate)
  BY ShortLists
<1> HIDE DEF one, two, nil
<1>2. Modes(nil) = {} /\ Modes(one) = {x.mode} /\ Modes(two) = {x.mode, y.mode}
  BY <1>1 DEF Modes
<1>3. FitList(a, nil)
  BY <1>1 DEF FitList
<1>4. ASSUME Fit(a, x) PROVE FitList(a, one)
  <2>1. one \in Seq(WireCandidate)
    BY <1>1, <1>4, Zenon DEF Fit
  <2>2. \A i, j \in {1} : ~(i < j)
    OBVIOUS
  <2> QED BY <1>1, <1>4, <2>1, <2>2 DEF FitList
<1>5. ASSUME Fit(a, x), Fit(a, y), x.priority = 1, y.priority = 2 PROVE FitList(a, two)
  <2>1. two \in Seq(WireCandidate)
    BY <1>1, <1>5, ZenonT(30) DEF Fit
  <2> QED BY <1>1, <1>5, <2>1 DEF FitList
<1> QED BY <1>2, <1>3, <1>4, <1>5 DEF one, two, nil

\* The lists an answer can have.
LEMMA ListFacts ==
    ASSUME NEW b \in Binding, NEW a \in Artifact, NEW listed \in Seq(Source),
           NEW target \in Nodes \cup {""}
    PROVE  LET copies == Copies(b, a, listed, target)
               caches == Caches(b, a, listed)
               copy == Copy(b, a, listed) # None
               cached == Cached(b, a, listed) # None
           IN  /\ FitList(a, <<>>) /\ Modes(<<>>) = {}
               /\ FitList(a, copies) /\ Modes(copies) = (IF copy THEN {"local_reuse"} ELSE {})
               /\ FitList(a, caches) /\ Modes(caches) = (IF cached THEN {"remote_fetch"} ELSE {})
               /\ FitList(a, copies \o caches)
               /\ Modes(copies \o caches) = Modes(copies) \cup Modes(caches)
               /\ copies = <<>> <=> ~copy
               /\ caches = <<>> <=> ~cached
               /\ copies \o caches = <<>> <=> ~copy /\ ~cached
               /\ copy => (copies \o caches)[1] = WireCopy(a, Copy(b, a, listed), target)
<1> DEFINE copies == Copies(b, a, listed, target)
           caches == Caches(b, a, listed)
           copy == Copy(b, a, listed) # None
           cached == Cached(b, a, listed) # None
           c == WireCopy(a, Copy(b, a, listed), target)
           d == WireCached(a, Cached(b, a, listed), IF Copy(b, a, listed) = None THEN 1 ELSE 2)
<1>2. copy => /\ Fit(a, c) /\ c.mode = "local_reuse" /\ c.priority = 1
              /\ copies = <<c>>
  BY CopyFacts, Zenon DEF Fit, WireCopy, WireCandidate, Mode, SourceState, Copies
<1>3. ~copy => copies = <<>>
  BY ZenonT(30) DEF Copies
<1>4. cached => /\ Fit(a, d) /\ d.mode = "remote_fetch" /\ d.priority = (IF copy THEN 2 ELSE 1)
                /\ caches = <<d>>
  BY CachedFacts, Zenon DEF Fit, WireCached, WireCandidate, Mode, SourceState, Caches
<1>5. ~cached => caches = <<>>
  BY Zenon DEF Caches
<1> HIDE DEF copies, caches, c, d, copy, cached
<1> DEFINE both == copies \o caches
<1>6. FitList(a, copies) /\ Modes(copies) = (IF copy THEN {"local_reuse"} ELSE {})
  <2>1. CASE copy
    <3>1. Fit(a, c) => FitList(a, <<c>>)
      BY ShortFit, Zenon
    <3>2. Modes(<<c>>) = {c.mode}
      BY ShortFit, Zenon
    <3> QED BY <1>2, <2>1, <3>1, <3>2, Zenon
  <2>2. CASE ~copy
    BY <1>3, <2>2, ShortFit, Zenon
  <2> QED BY <2>1, <2>2, Zenon
<1>7. FitList(a, caches) /\ Modes(caches) = (IF cached THEN {"remote_fetch"} ELSE {})
  <2>1. CASE cached
    <3>1. Fit(a, d) => FitList(a, <<d>>)
      BY ShortFit, Zenon
    <3>2. Modes(<<d>>) = {d.mode}
      BY ShortFit, Zenon
    <3> QED BY <1>4, <2>1, <3>1, <3>2, ZenonT(30)
  <2>2. CASE ~cached
    BY <1>5, <2>2, ShortFit, Zenon
  <2> QED BY <2>1, <2>2, Zenon
<1>8. (copies = <<>> <=> ~copy) /\ (caches = <<>> <=> ~cached)
  BY <1>2, <1>3, <1>4, <1>5, ShortLists, ZenonT(30)
<1>9. /\ FitList(a, both) /\ Modes(both) = Modes(copies) \cup Modes(caches)
      /\ both = <<>> <=> ~copy /\ ~cached
      /\ copy => both[1] = c
  <2>1. CASE copy /\ cached
    <3>1. both = <<c, d>>
      BY <1>2, <1>4, <2>1, ConcatOnes, Zenon
    <3>2. FitList(a, <<c, d>>) /\ Modes(<<c, d>>) = {"local_reuse", "remote_fetch"}
      <4>1. (Fit(a, c) /\ Fit(a, d) /\ c.priority = 1 /\ d.priority = 2) => FitList(a, <<c, d>>)
        BY ShortFit, Zenon
      <4>2. Modes(<<c, d>>) = {c.mode, d.mode}
        BY ShortFit, Zenon
      <4> QED BY <1>2, <1>4, <2>1, <4>1, <4>2, ZenonT(30)
    <3>3. <<c, d>>[1] = c /\ <<c, d>> # <<>>
      BY ShortLists, Zenon
    <3> HIDE DEF both
    <3> QED BY <1>6, <1>7, <2>1, <3>1, <3>2, <3>3, ZenonT(30)
  <2>2. CASE copy /\ ~cached
    <3>1. both = <<c>>
      BY <1>2, <1>5, <2>2, WireLists, Zenon
    <3>2. <<c>>[1] = c /\ <<c>> # <<>>
      BY ShortLists, Zenon
    <3> HIDE DEF both
    <3> QED BY <1>2, <1>6, <1>7, <2>2, <3>1, <3>2, ZenonT(30)
  <2>3. CASE ~copy /\ cached
    <3>1. both = <<d>>
      BY <1>3, <1>4, <2>3, WireLists, Zenon
    <3>2. <<d>> # <<>>
      BY ShortLists, Zenon
    <3> HIDE DEF both
    <3> QED BY <1>4, <1>6, <1>7, <2>3, <3>1, <3>2, ZenonT(30)
  <2>4. CASE ~copy /\ ~cached
    <3>1. both = <<>>
      BY <1>3, <1>5, <2>4, WireLists, Zenon
    <3> HIDE DEF both
    <3> QED BY <1>3, <1>6, <1>7, <2>4, <3>1, Zenon
  <2> QED BY <2>1, <2>2, <2>3, <2>4, Zenon
<1>10. FitList(a, <<>>) /\ Modes(<<>>) = {}
  BY ShortFit, Zenon
<1> HIDE DEF both
<1> QED BY <1>6, <1>7, <1>8, <1>9, <1>10, ZenonT(30) DEF both, copies, caches, copy, cached, c

\* An answer that offers nothing, or fit candidates of which one has the mode it plans.
Sound(a, q) ==
    /\ FitList(a, q.candidates)
    /\ q.status = "RESOLVED" <=> q.plan \in Modes(q.candidates)
    /\ q.status = "RESOLVED" <=> q.candidates # <<>>

\* How the answers above are sound.
LEMMA SoundSays ==
    ASSUME NEW a, NEW q, NEW decision, NEW place, NEW node, NEW mode, NEW cs
    PROVE  /\ (/\ Says(q, "RESOLVED", decision, place, node, mode, cs)
               /\ FitList(a, cs) /\ mode \in Modes(cs) /\ cs # <<>>) => Sound(a, q)
           /\ (q.status # "RESOLVED" /\ q.candidates = <<>>) => Sound(a, q)
<1>1. FitList(a, <<>>) /\ Modes(<<>>) = {}
  BY ShortFit, Zenon
<1> QED BY <1>1 DEF Says, Sound

\* Every answer is one of the responses of the API and sound.
LEMMA AnswerSound ==
    ASSUME NEW b \in Binding, NEW a \in Artifact, NEW listed \in Seq(Source),
           NEW target \in Nodes \cup {""}
    PROVE  Sound(a, Received(b, a, listed, target))
<1> DEFINE q == Received(b, a, listed, target)
           copies == Copies(b, a, listed, target)
           caches == Caches(b, a, listed)
           copy == Copy(b, a, listed) # None
           cached == Cached(b, a, listed) # None
           producer == ProducerNode(b, a, listed)
<1>1. /\ FitList(a, copies) /\ Modes(copies) = (IF copy THEN {"local_reuse"} ELSE {})
      /\ FitList(a, caches) /\ Modes(caches) = (IF cached THEN {"remote_fetch"} ELSE {})
      /\ FitList(a, copies \o caches)
      /\ Modes(copies \o caches) = Modes(copies) \cup Modes(caches)
      /\ copies = <<>> <=> ~copy
      /\ caches = <<>> <=> ~cached
      /\ copies \o caches = <<>> <=> ~copy /\ ~cached
  BY ListFacts, ZenonT(30)
<1> DEFINE both == copies \o caches
<1> HIDE DEF both, copies, caches, copy, cached, producer
<1>2. CASE DigestMismatch(b, a)
  <2>1. Says(q, "DIGEST_MISMATCH", "unavailable", "none", "", "none", <<>>)
    BY <1>2, MismatchAnswer, Zenon
  <2> HIDE DEF q
  <2> QED BY <2>1, SoundSays, Zenon DEF Says, q
<1>3. CASE ~DigestMismatch(b, a) /\ target # ""
  <2>1. IF target = producer /\ copy
        THEN Says(q, "RESOLVED", "local_reuse", "preferred_node", producer, "local_reuse", both)
        ELSE IF b.policy = "SameNodeOnly"
        THEN Says(q, "POLICY_BLOCKED", "unavailable", "required_node", producer, "none", <<>>)
        ELSE IF ~cached
        THEN Says(q, "UNAVAILABLE", "unavailable", "none", "", "none", <<>>)
        ELSE Says(q, "RESOLVED", "remote_fetch", "none", "", "remote_fetch", caches)
    BY <1>3, CheckAnswer, Zenon DEF both, copies, caches, copy, cached, producer
  <2>2. /\ copy => FitList(a, both) /\ "local_reuse" \in Modes(both) /\ both # <<>>
        /\ cached => FitList(a, caches) /\ "remote_fetch" \in Modes(caches) /\ caches # <<>>
    BY <1>1, ZenonT(30) DEF both
  <2> HIDE DEF q
  <2>3. CASE target = producer /\ copy
    BY <2>1, <2>2, <2>3, SoundSays, ZenonT(30) DEF q
  <2>4. CASE ~(target = producer /\ copy) /\ b.policy = "SameNodeOnly"
    BY <2>1, <2>4, SoundSays, ZenonT(30) DEF Says, q
  <2>5. CASE ~(target = producer /\ copy) /\ b.policy # "SameNodeOnly" /\ ~cached
    BY <2>1, <2>5, SoundSays, ZenonT(30) DEF Says, q
  <2>6. CASE ~(target = producer /\ copy) /\ b.policy # "SameNodeOnly" /\ cached
    BY <2>1, <2>2, <2>6, SoundSays, ZenonT(30) DEF q
  <2> QED BY <2>3, <2>4, <2>5, <2>6, ZenonT(30)
<1>4. CASE ~DigestMismatch(b, a) /\ target = ""
  <2> DEFINE here == copy /\ producer # ""
             none == Says(q, "UNAVAILABLE", "unavailable", "none", "", "none", <<>>)
  <2>1. /\ b.policy = "SameNodeOnly" =>
              IF here
              THEN Says(q, "RESOLVED", "local_reuse", "required_node", producer, "local_reuse", copies)
              ELSE none
        /\ b.policy = "SameNodeThenRemote" =>
              IF ~here /\ ~cached THEN none
              ELSE IF ~here
              THEN Says(q, "RESOLVED", "remote_fetch", "none", "", "remote_fetch", caches)
              ELSE IF ~cached
              THEN Says(q, "RESOLVED", "local_reuse", "required_node", producer, "local_reuse", copies)
              ELSE Says(q, "RESOLVED", "remote_fetch", "preferred_node", producer, "remote_fetch", both)
        /\ b.policy = "RemoteOK" =>
              IF ~copy /\ ~cached THEN none
              ELSE Says(q, "RESOLVED", "remote_fetch", "none", "",
                        IF cached THEN "remote_fetch" ELSE "local_reuse", both)
    BY <1>4, PlanAnswer, Zenon DEF both, copies, caches, copy, cached, producer
  <2>2. /\ copy => FitList(a, copies) /\ "local_reuse" \in Modes(copies) /\ copies # <<>>
        /\ cached => FitList(a, caches) /\ "remote_fetch" \in Modes(caches) /\ caches # <<>>
        /\ copy => FitList(a, both) /\ "local_reuse" \in Modes(both) /\ both # <<>>
        /\ cached => FitList(a, both) /\ "remote_fetch" \in Modes(both) /\ both # <<>>
    BY <1>1, ZenonT(30) DEF both
  <2>3. none => Sound(a, q)
    BY SoundSays, Zenon DEF Says
  <2>4. b.policy \in ConsumePolicy
    BY ZenonT(30) DEF Binding
  <2> HIDE DEF q, none
  <2>5. CASE b.policy = "SameNodeOnly"
    BY <2>1, <2>2, <2>3, <2>5, SoundSays, ZenonT(30) DEF q
  <2>6. CASE b.policy = "SameNodeThenRemote"
    <3>1. CASE ~here /\ cached
      BY <2>1, <2>2, <2>6, <3>1, SoundSays, ZenonT(30) DEF q
    <3>2. CASE here /\ ~cached
      BY <2>1, <2>2, <2>6, <3>2, SoundSays, ZenonT(30) DEF q
    <3>3. CASE here /\ cached
      BY <2>1, <2>2, <2>6, <3>3, SoundSays, ZenonT(30) DEF q
    <3>4. CASE ~here /\ ~cached
      BY <2>1, <2>3, <2>6, <3>4, ZenonT(30) DEF q
    <3> QED BY <3>1, <3>2, <3>3, <3>4, ZenonT(30)
  <2>7. CASE b.policy = "RemoteOK"
    <3>1. CASE cached
      BY <2>1, <2>2, <2>7, <3>1, SoundSays, ZenonT(30) DEF q
    <3>2. CASE copy /\ ~cached
      BY <2>1, <2>2, <2>7, <3>2, SoundSays, ZenonT(30) DEF q
    <3>3. CASE ~copy /\ ~cached
      BY <2>1, <2>3, <2>7, <3>3, ZenonT(30) DEF q
    <3> QED BY <3>1, <3>2, <3>3, ZenonT(30)
  <2> QED BY <2>4, <2>5, <2>6, <2>7, ZenonT(30) DEF ConsumePolicy
<1> QED BY <1>2, <1>3, <1>4, Zenon

\* The answer without a plan.
LEMMA MismatchType == NoPlan("DIGEST_MISMATCH") \in ResolvedHandoff
BY DEF NoPlan, ResolvedHandoff, Status, Decision, Mode

\* Every answer is a response of the API.
LEMMA AnswerType ==
    ASSUME NEW b \in Binding, NEW a \in Artifact, NEW listed \in Seq(Source),
           NEW target \in Nodes \cup {""}
    PROVE  Received(b, a, listed, target) \in ResolveHandoffResponse
<1> DEFINE srcs == effectiveArtifactSources(b.key, a, listed)
           r == IF DigestMismatch(b, a) THEN NoPlan("DIGEST_MISMATCH")
                ELSE ResolveRegistered(b, target, a, srcs)
           q == Received(b, a, listed, target)
<1>1. SourceList(srcs)
  BY EffectiveType, Zenon DEF Binding
<1>2. r \in ResolvedHandoff
  <2>1. CASE DigestMismatch(b, a)
    BY <2>1, MismatchType, Zenon
  <2>2. CASE ~DigestMismatch(b, a)
    BY <1>1, <2>2, RegisteredAnswer, Zenon
  <2> QED BY <2>1, <2>2, Zenon
<1>3. q = [r EXCEPT !.candidates = grpcCandidatesFromDomain(@)]
  BY ZenonT(30) DEF Received
<1>4. q.candidates \in Seq(WireCandidate)
  BY AnswerSound, Zenon DEF Sound, FitList
<1> HIDE DEF r, q
<1> QED BY <1>2, <1>3, <1>4, Zenon DEF ResolvedHandoff, ResolveHandoffResponse, q

\* Node names filled in by the plan change no answer.
LEMMA ReceivedFilled ==
    ASSUME NEW b \in Binding, NEW a \in Artifact, NEW target
    PROVE  /\ Received(b, NodesFilled(a), <<>>, target) = Received(b, a, <<>>, target)
           /\ NodesFilled(a) \in Artifact
<1> DEFINE f == NodesFilled(a)
           srcs == effectiveArtifactSources(b.key, a, <<>>)
<1>1. f \in Artifact /\ f.digest = a.digest
  BY NodesFilledType
<1>2. f.node = a.node
  BY Zenon DEF NodesFilled, Artifact
<1>3. effectiveArtifactSources(b.key, f, <<>>) = srcs
  BY EffectiveFilled DEF Binding
<1> HIDE DEF f, srcs
<1>4. DigestMismatch(b, f) <=> DigestMismatch(b, a)
  BY <1>1 DEF DigestMismatch
<1>5. candidateEligibleArtifactSources(b.key, f, srcs) = candidateEligibleArtifactSources(b.key, a, srcs)
  BY <1>1, SMTT(20) DEF candidateEligibleArtifactSources, ValidateArtifactSourceForArtifact
<1>6. ASSUME NEW s, NEW cs
      PROVE  /\ localCandidates(b, f, s, target) = localCandidates(b, a, s, target)
             /\ remoteCandidates(b, f, s, cs) = remoteCandidates(b, a, s, cs)
             /\ producerNodeName(f, s) = producerNodeName(a, s)
  BY <1>1, <1>2 DEF localCandidates, remoteCandidates, producerNodeName, expectedDigest
<1>7. ResolveRegistered(b, target, f, srcs) = ResolveRegistered(b, target, a, srcs)
  BY <1>5, <1>6, Zenon DEF ResolveRegistered
<1>8. Received(b, f, <<>>, target) = Received(b, a, <<>>, target)
  BY <1>3, <1>4, <1>7 DEF Received, srcs
<1> QED BY <1>1, <1>8 DEF f

-----------------------------------------------------------------------------
(* The invariant: both answers are what the resolver would answer now.      *)

PlacementInv ==
    /\ binding \in Binding
    /\ situation \in [key : ArtifactKey, art : Artifact, listed : Seq(Source)]
    /\ landed \in Nodes \cup {""}
    /\ plan = None \/ plan = ResolveHandoff("")
    /\ answer = None \/ (plan # None /\ landed \in Nodes /\ answer = ResolveHandoff(landed))

\* The model's answer is the one the lemmas are about.
LEMMA ResolveIsReceived ==
    ASSUME NEW target
    PROVE  ResolveHandoff(target) = Received(binding, situation.art, situation.listed, target)
BY SMTT(20) DEF ResolveHandoff, Received

\* At first there is no answer to be wrong about.
LEMMA PlacementInvInit == PlacementInit => PlacementInv
<1> SUFFICES ASSUME PlacementInit PROVE PlacementInv
  OBVIOUS
<1>1. situation \in [key : ArtifactKey, art : Artifact, listed : Seq(Source)]
  BY PlacementAssumption, Zenon DEF PlacementInit
<1>2. binding \in Binding
  BY <1>1, Zenon DEF PlacementInit, Binding
<1> QED BY <1>1, <1>2, ZenonT(30) DEF PlacementInit, PlacementInv

\* A plan or an answer is computed from what is stored, and nothing else changes that.
LEMMA PlacementInvNext == PlacementInv /\ [PlacementNext]_placementVars => PlacementInv'
<1> SUFFICES ASSUME PlacementInv, [PlacementNext]_placementVars PROVE PlacementInv'
  OBVIOUS
<1>1. CASE PlanHandoff
  <2>1. plan = None /\ answer = None /\ answer' = None /\ plan' = ResolveHandoff("")
    BY <1>1, Zenon DEF PlanHandoff, PlacementInv
  <2>2. binding' = binding /\ landed' = landed
    BY <1>1, Zenon DEF PlanHandoff
  <2>3. CASE situation' = situation
    BY <2>1, <2>2, <2>3, ZenonT(30) DEF PlacementInv, ResolveHandoff
  <2>4. CASE situation.listed = <<>> /\ situation' = [situation EXCEPT !.art = NodesFilled(@)]
    <3>1. situation.art \in Artifact /\ binding \in Binding
      BY Zenon DEF PlacementInv
    <3>2. situation' \in [key : ArtifactKey, art : Artifact, listed : Seq(Source)]
      BY <2>4, <3>1, ReceivedFilled, Zenon DEF PlacementInv
    <3>3. situation'.art = NodesFilled(situation.art) /\ situation'.listed = <<>>
      BY <2>4, Zenon DEF PlacementInv
    <3>4. ResolveHandoff("")' = Received(binding, NodesFilled(situation.art), <<>>, "")
      BY <2>2, <3>3 DEF ResolveHandoff, Received
    <3>5. ResolveHandoff("") = Received(binding, situation.art, <<>>, "")
      BY <2>4, ResolveIsReceived, Zenon
    <3>6. plan' = ResolveHandoff("")'
      BY <2>1, <3>1, <3>4, <3>5, ReceivedFilled, ZenonT(30)
    <3> QED BY <2>1, <2>2, <3>2, <3>6, ZenonT(30) DEF PlacementInv
  <2> QED BY <1>1, <2>3, <2>4, Zenon DEF PlanHandoff
<1>2. ASSUME NEW n \in Nodes, CheckHandoff(n) PROVE PlacementInv'
  BY <1>2, Zenon DEF CheckHandoff, PlacementInv, ResolveHandoff
<1>3. CASE UNCHANGED placementVars
  BY <1>3, Zenon DEF placementVars, PlacementInv, ResolveHandoff
<1> QED BY <1>1, <1>2, <1>3 DEF PlacementNext

\* Both answers are, throughout, what the resolver would answer in the present state:
\* nothing that happens between plan and check, node names filled in by the plan
\* included, makes the plan out of date.
THEOREM AnswersCurrent == PlacementSpec => []PlacementInv
<1> QED BY PlacementInvInit, PlacementInvNext, PTL DEF PlacementSpec

-----------------------------------------------------------------------------
(* What the two answers have to do with each other.                         *)

\* A local candidate of an answer is the copy.
LEMMA LocalOnes ==
    ASSUME NEW b \in Binding, NEW a \in Artifact, NEW listed \in Seq(Source),
           NEW target \in Nodes \cup {""},
           NEW cs \in {<<>>, Copies(b, a, listed, target), Caches(b, a, listed),
                       Copies(b, a, listed, target) \o Caches(b, a, listed)},
           NEW i \in DOMAIN cs, cs[i].mode = "local_reuse"
    PROVE  Copy(b, a, listed) # None /\ cs[i] = WireCopy(a, Copy(b, a, listed), target)
<1> DEFINE c == WireCopy(a, Copy(b, a, listed), target)
           d == WireCached(a, Cached(b, a, listed), IF Copy(b, a, listed) = None THEN 1 ELSE 2)
           copy == Copy(b, a, listed) # None
<1>1. d.mode = "remote_fetch"
  BY ZenonT(30) DEF WireCached
<1>2. /\ Copies(b, a, listed, target) = IF copy THEN <<c>> ELSE <<>>
      /\ Caches(b, a, listed) \in {<<>>, <<d>>}
  BY Zenon DEF Copies, Caches
<1> HIDE DEF c, d, copy
<1>3. cs \in {<<>>, <<d>>} \/ (copy /\ cs \in {<<c>>, <<c, d>>})
  <2>1. /\ <<>> \o <<d>> = <<d>> /\ <<c>> \o <<>> = <<c>> /\ <<>> \o <<>> = <<>>
    BY WireLists, Zenon
  <2>2. <<c>> \o <<d>> = <<c, d>>
    BY ConcatOnes, Zenon
  <2> QED BY <1>2, <2>1, <2>2, ZenonT(30)
<1>4. CASE cs = <<>>
  BY <1>4, ShortLists, Zenon
<1>5. CASE cs = <<d>>
  <2>1. DOMAIN <<d>> = {1} /\ <<d>>[1] = d
    BY ShortLists, ZenonT(30)
  <2> QED BY <1>1, <1>5, <2>1, ZenonT(30)
<1>6. CASE copy /\ cs = <<c>>
  <2>1. DOMAIN <<c>> = {1} /\ <<c>>[1] = c
    BY ShortLists, Zenon
  <2> QED BY <1>6, <2>1, ZenonT(30) DEF copy, c
<1>7. CASE copy /\ cs = <<c, d>>
  <2>1. DOMAIN <<c, d>> = {1, 2} /\ <<c, d>>[1] = c /\ <<c, d>>[2] = d
    BY ShortLists, ZenonT(30)
  <2> QED BY <1>1, <1>7, <2>1, ZenonT(30) DEF copy, c
<1> QED BY <1>3, <1>4, <1>5, <1>6, <1>7, ZenonT(30)

\* A consumer that runs on the node of the copy reuses it, and no other consumer does.
LEMMA ReusedWhereItIs ==
    ASSUME NEW b \in Binding, NEW a \in Artifact, NEW listed \in Seq(Source), NEW n \in Nodes
    PROVE  LET q == Received(b, a, listed, n)
               s == Copy(b, a, listed)
           IN  /\ (s # None /\ n = ProducerNode(b, a, listed) /\ ~DigestMismatch(b, a)) =>
                     /\ q.status = "RESOLVED" /\ q.decision = "local_reuse"
                     /\ q.candidates[1].loc = s.loc
               /\ q.decision = "local_reuse" =>
                     q.candidates[1].loc.node \in {n, ""}
<1> DEFINE q == Received(b, a, listed, n)
           s == Copy(b, a, listed)
           both == Copies(b, a, listed, n) \o Caches(b, a, listed)
           producer == ProducerNode(b, a, listed)
<1>1. DigestMismatch(b, a) => q.decision # "local_reuse"
  BY MismatchAnswer, ZenonT(30) DEF Says
<1>2. ~DigestMismatch(b, a) =>
         IF n = producer /\ s # None
         THEN q.status = "RESOLVED" /\ q.decision = "local_reuse" /\ q.candidates = both
         ELSE q.decision # "local_reuse"
  <2>1. ~DigestMismatch(b, a) =>
           IF n = producer /\ s # None
           THEN Says(q, "RESOLVED", "local_reuse", "preferred_node", producer, "local_reuse", both)
           ELSE IF b.policy = "SameNodeOnly"
           THEN Says(q, "POLICY_BLOCKED", "unavailable", "required_node", producer, "none", <<>>)
           ELSE IF Cached(b, a, listed) = None
           THEN Says(q, "UNAVAILABLE", "unavailable", "none", "", "none", <<>>)
           ELSE Says(q, "RESOLVED", "remote_fetch", "none", "", "remote_fetch", Caches(b, a, listed))
    BY CheckAnswer, ZenonT(30)
  <2> HIDE DEF q, s, both, producer
  <2> QED BY <2>1, ZenonT(30) DEF Says
<1>3. s # None => both[1] = WireCopy(a, s, n)
  BY ListFacts, ZenonT(30)
<1>4. s # None => /\ s.loc.node \in Nodes \cup {""}
                  /\ s.loc.node # "" => producer = s.loc.node
  BY CopyFacts, ZenonT(30)
<1>5. WireCopy(a, s, n).loc = s.loc
  BY ZenonT(30) DEF WireCopy
<1> HIDE DEF q, s, both, producer
<1> QED BY <1>1, <1>2, <1>3, <1>4, <1>5, ZenonT(30) DEF q, s, producer

\* The local candidates of a plan, and where the plan places their consumer.
LEMMA PlannedCopy ==
    ASSUME NEW b \in Binding, NEW a \in Artifact, NEW listed \in Seq(Source),
           NEW i \in DOMAIN Received(b, a, listed, "").candidates,
           Received(b, a, listed, "").candidates[i].mode = "local_reuse"
    PROVE  LET q == Received(b, a, listed, "")
               s == Copy(b, a, listed)
           IN  /\ s # None /\ ~DigestMismatch(b, a)
               /\ q.candidates[i] = WireCopy(a, s, "")
               /\ q.place # "none" => q.node = ProducerNode(b, a, listed)
<1> DEFINE q == Received(b, a, listed, "")
           copies == Copies(b, a, listed, "")
           caches == Caches(b, a, listed)
<1>1. ~DigestMismatch(b, a)
  <2>1. DigestMismatch(b, a) => Says(q, "DIGEST_MISMATCH", "unavailable", "none", "", "none", <<>>)
    BY MismatchAnswer, ZenonT(30)
  <2>2. i \in DOMAIN q.candidates
    BY Zenon
  <2> HIDE DEF q
  <2> QED BY <2>1, <2>2, ShortLists, ZenonT(30) DEF Says
<1>2. b.policy \in ConsumePolicy
  BY ZenonT(30) DEF Binding
<1>3. /\ q.candidates \in {<<>>, copies, caches, copies \o caches}
      /\ q.place # "none" => q.node = ProducerNode(b, a, listed)
  <2>1. CASE b.policy = "SameNodeOnly"
    BY <1>1, <2>1, PlanAnswer, ZenonT(60) DEF Says
  <2>2. CASE b.policy = "SameNodeThenRemote"
    BY <1>1, <2>2, PlanAnswer, ZenonT(60) DEF Says
  <2>3. CASE b.policy = "RemoteOK"
    BY <1>1, <2>3, PlanAnswer, ZenonT(60) DEF Says
  <2> QED BY <1>2, <2>1, <2>2, <2>3, Zenon DEF ConsumePolicy
<1>4. Copy(b, a, listed) # None /\ q.candidates[i] = WireCopy(a, Copy(b, a, listed), "")
  BY <1>3, LocalOnes, Zenon
<1> QED BY <1>1, <1>3, <1>4, ZenonT(30)

\* The answers in the state.
LEMMA AnswersInState ==
    ASSUME PlacementInv
    PROVE  LET b == binding
               a == situation.art
               l == situation.listed
           IN  /\ b \in Binding /\ a \in Artifact /\ l \in Seq(Source)
               /\ plan # None => plan = Received(b, a, l, "")
               /\ answer # None => /\ plan # None /\ landed \in Nodes
                                   /\ answer = Received(b, a, l, landed)
BY ResolveIsReceived, Zenon DEF PlacementInv

-----------------------------------------------------------------------------
(* The theorems.                                                            *)

\* Every answer that ResolveHandoff gives, to a planner or to a consumer on its node, is
\* a well-formed response of the API.
THEOREM PlacementTypeCorrect == PlacementSpec => []PlacementTypeOK
<1>1. PlacementInv => PlacementTypeOK
  <2> SUFFICES ASSUME PlacementInv PROVE PlacementTypeOK
    OBVIOUS
  <2>1. plan # None => plan \in ResolveHandoffResponse
    BY AnswersInState, AnswerType, Zenon
  <2>2. answer # None => answer \in ResolveHandoffResponse
    BY AnswersInState, AnswerType, Zenon
  <2> QED BY <2>1, <2>2, Zenon DEF PlacementInv, PlacementTypeOK
<1> QED BY <1>1, AnswersCurrent, PTL

\* A same-node plan can be carried out, whatever the artifact and its sources: the
\* planning and the post-scheduling switch of ResolveHandoffCore agree.
THEOREM PlansAreHonoured == PlacementSpec => []PlanHonoured
<1>1. ASSUME PlacementInv, Planned, binding.policy # "RemoteOK"
      PROVE  /\ (plan.place = "required_node" => landed = plan.node) => answer.status = "RESOLVED"
             /\ (plan.place # "none" /\ landed = plan.node) => answer.decision = "local_reuse"
  <2> DEFINE b == binding
             a == situation.art
             l == situation.listed
             producer == ProducerNode(b, a, l)
             copy == Copy(b, a, l) # None
             cached == Cached(b, a, l) # None
  <2>1. /\ b \in Binding /\ a \in Artifact /\ l \in Seq(Source) /\ landed \in Nodes
        /\ plan = Received(b, a, l, "") /\ answer = Received(b, a, l, landed)
        /\ plan.status = "RESOLVED"
    BY <1>1, AnswersInState, Zenon DEF Planned
  <2>2. b.policy \in {"SameNodeOnly", "SameNodeThenRemote"}
    BY <1>1, <2>1, ZenonT(30) DEF Binding, ConsumePolicy
  <2> HIDE DEF b, a, l
  <2>3. ~DigestMismatch(b, a)
    <3>1. DigestMismatch(b, a) => Says(plan, "DIGEST_MISMATCH", "unavailable", "none", "", "none", <<>>)
      BY <2>1, MismatchAnswer, Zenon
    <3> QED BY <2>1, <3>1, Zenon DEF Says
  <2>4. IF landed = producer /\ copy
        THEN answer.status = "RESOLVED" /\ answer.decision = "local_reuse"
        ELSE (b.policy # "SameNodeOnly" /\ cached) => answer.status = "RESOLVED"
    <3>1. IF landed = producer /\ copy
          THEN Says(answer, "RESOLVED", "local_reuse", "preferred_node", producer, "local_reuse",
                    Copies(b, a, l, landed) \o Caches(b, a, l))
          ELSE (b.policy # "SameNodeOnly" /\ cached) =>
                  Says(answer, "RESOLVED", "remote_fetch", "none", "", "remote_fetch", Caches(b, a, l))
      BY <2>1, <2>3, CheckAnswer, Zenon
    <3> HIDE DEF producer, copy, cached
    <3> QED BY <3>1, Zenon DEF Says
  <2>5. CASE b.policy = "SameNodeOnly"
    <3>1. copy /\ plan.place = "required_node" /\ plan.node = producer
      BY <2>1, <2>3, <2>5, PlanAnswer, Zenon DEF Says
    <3> QED BY <2>4, <3>1, SMTT(20)
  <2>6. CASE b.policy = "SameNodeThenRemote"
    <3>1. \/ plan.place = "none" /\ cached
          \/ plan.place # "none" /\ plan.node = producer /\ copy
             /\ (plan.place = "required_node" \/ cached)
      BY <2>1, <2>3, <2>6, PlanAnswer, Zenon DEF Says
    <3> QED BY <2>4, <2>6, <3>1, SMTT(20)
  <2> QED BY <2>2, <2>5, <2>6
<1>2. PlacementInv => PlanHonoured
  BY <1>1 DEF PlanHonoured
<1> QED BY <1>2, AnswersCurrent, PTL

\* SameNodeOnly never leads to a remote fetch, and the consumer is let through on
\* exactly the node that the plan requires.
THEOREM SameNodeOnlyIsKept == PlacementSpec => []SameNodeOnlyStaysLocal
<1>1. ASSUME PlacementInv, answer # None, binding.policy = "SameNodeOnly"
      PROVE  /\ "remote_fetch" \notin {plan.plan, plan.decision, answer.plan, answer.decision}
             /\ answer.status = "RESOLVED" <=> (plan.status = "RESOLVED" /\ landed = plan.node)
  <2> DEFINE b == binding
             a == situation.art
             l == situation.listed
             producer == ProducerNode(b, a, l)
             copy == Copy(b, a, l) # None
  <2>1. /\ b \in Binding /\ a \in Artifact /\ l \in Seq(Source) /\ landed \in Nodes
        /\ plan = Received(b, a, l, "") /\ answer = Received(b, a, l, landed)
        /\ b.policy = "SameNodeOnly"
    BY <1>1, AnswersInState, Zenon
  <2>2. landed # ""
    BY <2>1, DomainAssumption, Zenon
  <2> HIDE DEF b, a, l
  <2>3. CASE DigestMismatch(b, a)
    <3>1. \A q \in {plan, answer} : Says(q, "DIGEST_MISMATCH", "unavailable", "none", "", "none", <<>>)
      BY <2>1, <2>3, MismatchAnswer, ZenonT(30)
    <3> QED BY <3>1, Zenon DEF Says
  <2>4. CASE ~DigestMismatch(b, a)
    <3>1. IF copy /\ producer # ""
          THEN Says(plan, "RESOLVED", "local_reuse", "required_node", producer, "local_reuse", Copies(b, a, l, ""))
          ELSE Says(plan, "UNAVAILABLE", "unavailable", "none", "", "none", <<>>)
      BY <2>1, <2>4, PlanAnswer, ZenonT(30)
    <3>2. IF landed = producer /\ copy
          THEN Says(answer, "RESOLVED", "local_reuse", "preferred_node", producer, "local_reuse",
                    Copies(b, a, l, landed) \o Caches(b, a, l))
          ELSE Says(answer, "POLICY_BLOCKED", "unavailable", "required_node", producer, "none", <<>>)
      BY <2>1, <2>4, CheckAnswer, Zenon
    <3> HIDE DEF producer, copy
    <3> QED BY <2>2, <3>1, <3>2, ZenonT(30) DEF Says
  <2> QED BY <2>3, <2>4
<1>2. PlacementInv => SameNodeOnlyStaysLocal
  BY <1>1 DEF SameNodeOnlyStaysLocal
<1> QED BY <1>2, AnswersCurrent, PTL

\* Whatever the artifact, its sources and the allowlists, the candidates of an answer
\* can be used as they are received.
THEOREM CandidatesAreUsable == PlacementSpec => []CandidatesUsable
<1>1. ASSUME PlacementInv, NEW r \in {plan, answer} \ {None}
      PROVE  Sound(situation.art, r)
  <2> DEFINE b == binding
             a == situation.art
             l == situation.listed
  <2>1. /\ b \in Binding /\ a \in Artifact /\ l \in Seq(Source)
        /\ \E target \in Nodes \cup {""} : r = Received(b, a, l, target)
    BY <1>1, AnswersInState, Zenon
  <2> QED BY <2>1, AnswerSound, Zenon
<1>2. ASSUME PlacementInv, answer # None, answer.decision = "local_reuse"
      PROVE  answer.candidates[1].loc.node \in {landed, ""}
  <2> DEFINE b == binding
             a == situation.art
             l == situation.listed
  <2>1. /\ b \in Binding /\ a \in Artifact /\ l \in Seq(Source) /\ landed \in Nodes
        /\ answer = Received(b, a, l, landed)
    BY <1>2, AnswersInState, ZenonT(30)
  <2> HIDE DEF b, a, l
  <2>2. LET q == Received(b, a, l, landed)
        IN  q.decision = "local_reuse" => q.candidates[1].loc.node \in {landed, ""}
    BY <2>1, ReusedWhereItIs, ZenonT(30)
  <2> QED BY <1>2, <2>1, <2>2, Zenon
<1>3. ASSUME PlacementInv, NEW r \in {plan, answer} \ {None}
      PROVE  /\ \A i \in DOMAIN r.candidates :
                   /\ Fit(situation.art, r.candidates[i])
                   /\ \A j \in DOMAIN r.candidates :
                         i < j => r.candidates[i].priority < r.candidates[j].priority
             /\ r.status = "RESOLVED" <=> r.plan \in {r.candidates[i].mode : i \in DOMAIN r.candidates}
             /\ r.status = "RESOLVED" <=> r.candidates # <<>>
             /\ (r = answer /\ r.decision = "local_reuse") => r.candidates[1].loc.node \in {landed, ""}
  <2>1. Sound(situation.art, r)
    BY <1>1, <1>3
  <2>2. (r = answer /\ r.decision = "local_reuse") => r.candidates[1].loc.node \in {landed, ""}
    BY <1>2, <1>3, Zenon
  <2> QED BY <2>1, <2>2, Zenon DEF Sound, FitList, Modes
<1>4. PlacementInv => CandidatesUsable
  BY <1>3, ZenonT(60) DEF CandidatesUsable, Fit
<1> QED BY <1>4, AnswersCurrent, PTL

\* A plan that offers a local copy says where it is, and a consumer that runs there
\* reuses that copy.
THEOREM PlannedCopiesAreFound == PlacementSpec => []PlannedCopyIsFound
<1>1. ASSUME PlacementInv, plan # None, NEW i \in DOMAIN plan.candidates,
             plan.candidates[i].mode = "local_reuse"
      PROVE  LET c == plan.candidates[i]
             IN  /\ c.loc.node # "" => c.onNode = c.loc.node
                 /\ (c.onNode # "" /\ plan.place # "none") => c.onNode = plan.node
                 /\ (answer # None /\ c.onNode # "" /\ landed = c.onNode) =>
                       answer.decision = "local_reuse" /\ answer.candidates[1].loc = c.loc
  <2> DEFINE b == binding
             a == situation.art
             l == situation.listed
             s == Copy(b, a, l)
             c == plan.candidates[i]
             producer == ProducerNode(b, a, l)
  <2>1. /\ b \in Binding /\ a \in Artifact /\ l \in Seq(Source)
        /\ plan = Received(b, a, l, "")
        /\ answer # None => landed \in Nodes /\ answer = Received(b, a, l, landed)
    BY <1>1, AnswersInState, ZenonT(30)
  <2>2. /\ s # None /\ ~DigestMismatch(b, a)
        /\ c = WireCopy(a, s, "")
        /\ plan.place # "none" => plan.node = producer
    BY <1>1, <2>1, PlannedCopy, ZenonT(30)
  <2>3. s.loc.node # "" => producer = s.loc.node
    BY <2>1, <2>2, CopyFacts, ZenonT(30)
  <2> HIDE DEF b, a, l
  <2>4. (answer # None /\ landed = producer) =>
            answer.decision = "local_reuse" /\ answer.candidates[1].loc = s.loc
    <3>1. ASSUME NEW n \in Nodes, n = producer
          PROVE  /\ Received(b, a, l, n).decision = "local_reuse"
                 /\ Received(b, a, l, n).candidates[1].loc = s.loc
      <4>1. b \in Binding /\ a \in Artifact /\ l \in Seq(Source)
        BY <2>1, Zenon
      <4>2. s # None /\ ~DigestMismatch(b, a)
        BY <2>2, Zenon
      <4> QED BY ONLY <3>1, <4>1, <4>2, ReusedWhereItIs, ZenonT(60)
    <3> HIDE DEF s, producer
    <3>2. SUFFICES ASSUME answer # None, landed = producer
                   PROVE  answer.decision = "local_reuse" /\ answer.candidates[1].loc = s.loc
      OBVIOUS
    <3>3. landed \in Nodes /\ answer = Received(b, a, l, landed)
      BY <2>1, <3>2, ZenonT(30)
    <3> QED BY ONLY <3>1, <3>2, <3>3, Zenon
  <2> HIDE DEF s, producer, c
  <2>5. c.loc = s.loc /\ c.onNode = s.loc.node
    BY <2>2, ZenonT(30) DEF WireCopy
  <2> QED BY <2>2, <2>3, <2>4, <2>5, Zenon DEF c
<1>2. PlacementInv => PlannedCopyIsFound
  BY <1>1, Zenon DEF PlannedCopyIsFound
<1> QED BY <1>2, AnswersCurrent, PTL
=============================================================================
