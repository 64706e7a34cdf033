------------------------------- MODULE Server -------------------------------
(***************************************************************************)
(* The process of cmd/artifact-handoff-resolver: main opens the store,      *)
(* starts both servers in goroutines, waits for a signal or a server error, *)
(* and shuts down within five seconds, HTTP first, then gRPC, and the store *)
(* last (a deferred call).                                                  *)
(*                                                                          *)
(* A request is accepted while its server serves, makes its store calls and *)
(* is answered; a handler may also hang.  It is cut when its connection or  *)
(* the process goes away before the answer.                                 *)
(***************************************************************************)
EXTENDS Integers

CONSTANTS HTTPRequests, GRPCRequests    \* requests that may be in flight, by transport

ASSUME ServerAssumption == HTTPRequests \cap GRPCRequests = {}

Requests == HTTPRequests \cup GRPCRequests

VARIABLES
    main, exitBy,      \* where main is, how the process ended
    store,             \* the handle main opened
    sigCh, errCh,      \* whether a signal is waiting, how many errors are
    ctx, grpcDone,     \* the shutdown context, and the goroutine of GracefulStop
    http, grpc,        \* the servers
    req                \* the requests

channels == <<sigCh, errCh, ctx, grpcDone>>
servers == <<http, grpc>>
serverVars == <<main, exitBy, store, channels, servers, req>>

ServerState == {"new", "serving", "stopped"}
Request == [st : {"none", "running", "answered", "cut"}, failed : BOOLEAN]

\* The types of the process, its channels, its servers and the requests.  errCh has room
\* for two errors, so neither serving goroutine ever waits to send its own.
ServerTypeOK ==
    /\ main \in {"start", "notify", "select", "httpShutdown", "grpcStop", "closeStore", "return", "exited"}
    /\ exitBy \in {"none", "fatal", "signal", "return"}
    /\ store \in {"closed", "open"}
    /\ sigCh \in BOOLEAN /\ errCh \in 0 .. 2
    /\ ctx \in {"none", "running", "done"}
    /\ grpcDone \in {"none", "draining", "done"}
    /\ http \in ServerState /\ grpc \in ServerState
    /\ req \in [Requests -> Request]

NotReceived == [st |-> "none", failed |-> FALSE]

ServerInit ==
    /\ main = "start" /\ exitBy = "none"
    /\ store = "closed"
    /\ sigCh = FALSE /\ errCh = 0
    /\ ctx = "none" /\ grpcDone = "none"
    /\ http = "new" /\ grpc = "new"
    /\ req = [r \in Requests |-> NotReceived]

Idle(rs) == \A r \in rs : req[r].st # "running"

\* The connections of rs go away.  What their handlers still do reaches nobody.
Cut(rs) == [r \in Requests |-> IF r \in rs /\ req[r].st = "running" THEN [req[r] EXCEPT !.st = "cut"]
                               ELSE req[r]]

\* The process ends, and with it every request.
Exit(how) ==
    /\ main' = "exited" /\ exitBy' = how
    /\ http' = "stopped" /\ grpc' = "stopped"
    /\ req' = Cut(Requests)

-----------------------------------------------------------------------------
(* Start.                                                                   *)

\* Mutant: closeStore is called where it should be deferred.
StartWithoutDefer ==
    /\ main = "start"
    /\ main' = "notify"
    /\ UNCHANGED <<exitBy, store, channels, servers, req>>

\* OpenStore, NewService and net.Listen.
Start ==
    /\ main = "start"
    /\ main' = "notify"
    /\ store' = "open"
    /\ UNCHANGED <<exitBy, channels, servers, req>>

\* One of the three fails: log.Fatal, which runs no deferred call.
StartFails ==
    /\ main = "start"
    /\ store' \in {"closed", "open"}
    /\ Exit("fatal")
    /\ UNCHANGED channels

\* Mutant: the goroutine serves again after an error.
ServeHTTPAgain ==
    /\ main \notin {"start", "exited"}
    /\ \/ http = "new" /\ http' = "serving" /\ UNCHANGED errCh
       \/ http # "stopped" /\ http' = "new" /\ errCh' = errCh + 1
    /\ UNCHANGED <<main, exitBy, store, sigCh, ctx, grpcDone, grpc, req>>

\* The two goroutines.  A server shut down before does not serve (nobody reads what Serve
\* then returns); one that cannot listen, or fails later, sends its error.
ServeHTTP ==
    /\ main \notin {"start", "exited"}
    /\ \/ http = "new" /\ http' = "serving" /\ UNCHANGED errCh
       \/ http # "stopped" /\ http' = "stopped" /\ errCh' = errCh + 1
    /\ UNCHANGED <<main, exitBy, store, sigCh, ctx, grpcDone, grpc, req>>

ServeGRPC ==
    /\ main \notin {"start", "exited"}
    /\ \/ grpc = "new" /\ grpc' = "serving" /\ UNCHANGED errCh
       \/ grpc # "stopped" /\ grpc' = "stopped" /\ errCh' = errCh + 1
    /\ UNCHANGED <<main, exitBy, store, sigCh, ctx, grpcDone, http, req>>

Notify ==
    /\ main = "notify"
    /\ main' = "select"
    /\ UNCHANGED <<exitBy, store, channels, servers, req>>

\* SIGINT or SIGTERM: until signal.Notify it ends the process.
Signal ==
    \/ /\ main \in {"start", "notify"}
       /\ Exit("signal")
       /\ UNCHANGED <<store, channels>>
    \/ /\ main \notin {"start", "notify", "exited"}
       /\ sigCh' = TRUE
       /\ UNCHANGED <<main, exitBy, store, errCh, ctx, grpcDone, servers, req>>

-----------------------------------------------------------------------------
(* Shutdown.                                                                *)

\* The five seconds start, and HTTP stops accepting.
SelectSignal ==
    /\ main = "select" /\ sigCh
    /\ main' = "httpShutdown"
    /\ sigCh' = FALSE /\ ctx' = "running"
    /\ http' = "stopped"
    /\ UNCHANGED <<exitBy, store, errCh, grpcDone, grpc, req>>

\* log.Fatal: nothing is drained and the store is not closed.
SelectError ==
    /\ main = "select" /\ errCh > 0
    /\ Exit("fatal")
    /\ UNCHANGED <<store, channels>>

\* Mutant: Shutdown gets a context without a deadline.
ShutdownReturnsIdle == Idle(HTTPRequests)

ShutdownReturns == Idle(HTTPRequests) \/ ctx = "done"

HTTPShutdown ==
    /\ main = "httpShutdown" /\ ShutdownReturns
    /\ main' = "grpcStop"
    /\ UNCHANGED <<exitBy, store, channels, servers, req>>

\* The goroutine started then.  gRPC has accepted requests until here.
GracefulStop ==
    /\ main \in {"grpcStop", "closeStore", "return"}
    /\ \/ grpcDone = "none" /\ grpcDone' = "draining" /\ grpc' = "stopped"
       \/ grpcDone = "draining" /\ Idle(GRPCRequests) /\ grpcDone' = "done" /\ UNCHANGED grpc
    /\ UNCHANGED <<main, exitBy, store, sigCh, errCh, ctx, http, req>>

SelectGRPCDone ==
    /\ main = "grpcStop" /\ grpcDone = "done"
    /\ main' = "closeStore"
    /\ UNCHANGED <<exitBy, store, channels, servers, req>>

\* Mutant: Stop where GracefulStop should have its time.
SelectDefault ==
    /\ main = "grpcStop"
    /\ main' = "closeStore"
    /\ grpc' = "stopped"
    /\ req' = Cut(GRPCRequests)
    /\ UNCHANGED <<exitBy, store, channels, http>>

\* Stop closes every gRPC connection.
SelectCtxDone ==
    /\ main = "grpcStop" /\ ctx = "done"
    /\ main' = "closeStore"
    /\ grpc' = "stopped"
    /\ req' = Cut(GRPCRequests)
    /\ UNCHANGED <<exitBy, store, channels, http>>

\* The deferred closeStore, then the end of main; HTTP handlers that outlived the
\* shutdown may still run between the two.
Return ==
    \/ /\ main = "closeStore"
       /\ main' = "return"
       /\ store' = "closed"
       /\ UNCHANGED <<exitBy, channels, servers, req>>
    \/ /\ main = "return"
       /\ Exit("return")
       /\ UNCHANGED <<store, channels>>

\* Five seconds have passed.
CtxDone ==
    /\ main # "exited" /\ ctx = "running"
    /\ ctx' = "done"
    /\ UNCHANGED <<main, exitBy, store, sigCh, errCh, grpcDone, servers, req>>

\* The process is started again.
StartAgain ==
    /\ main = "exited"
    /\ main' = "start" /\ exitBy' = "none"
    /\ store' = "closed"
    /\ sigCh' = FALSE /\ errCh' = 0
    /\ ctx' = "none" /\ grpcDone' = "none"
    /\ http' = "new" /\ grpc' = "new"
    /\ req' = [r \in Requests |-> NotReceived]

-----------------------------------------------------------------------------
(* Requests.                                                                *)

Accept(r) ==
    /\ IF r \in HTTPRequests THEN http = "serving" ELSE grpc = "serving"
    /\ req[r].st \in {"none", "answered"}
    /\ req' = [req EXCEPT ![r] = [st |-> "running", failed |-> FALSE]]
    /\ UNCHANGED <<main, exitBy, store, channels, servers>>

\* A closed store answers no call.
CallFails == store = "closed"

\* A handler makes any number of store calls; it returns the error of one that fails.
HandlerStoreCall(r) ==
    /\ req[r].st = "running" /\ ~req[r].failed
    /\ req' = [req EXCEPT ![r].failed = CallFails]
    /\ UNCHANGED <<main, exitBy, store, channels, servers>>

HandlerReturns(r) ==
    /\ req[r].st = "running"
    /\ req' = [req EXCEPT ![r].st = "answered"]
    /\ UNCHANGED <<main, exitBy, store, channels, servers>>

-----------------------------------------------------------------------------

MainStep ==
    \/ Start \/ StartFails \/ Notify
    \/ SelectSignal \/ SelectError
    \/ HTTPShutdown \/ SelectGRPCDone \/ SelectCtxDone \/ Return

ServerNext ==
    \/ MainStep
    \/ ServeHTTP \/ ServeGRPC \/ GracefulStop \/ CtxDone
    \/ Signal \/ StartAgain
    \/ \E r \in Requests : Accept(r) \/ HandlerStoreCall(r) \/ HandlerReturns(r)

(***************************************************************************)
(* main and the timer go on.  A handler may hang for ever, clients may keep *)
(* sending, and nothing makes a server fail or a signal arrive.             *)
(***************************************************************************)
ServerSpec ==
    /\ ServerInit
    /\ [][ServerNext]_serverVars
    /\ WF_serverVars(MainStep)
    /\ WF_serverVars(CtxDone)

-----------------------------------------------------------------------------
(* Properties.                                                              *)

(***************************************************************************)
(* A shutdown on a signal cuts no request before its five seconds are over, *)
(* on either transport, even one accepted after the signal: main waits for  *)
(* both drains, and gRPC still accepts while HTTP drains.                   *)
(***************************************************************************)
CutOnlyPastDeadline ==
    (exitBy \in {"none", "return"} /\ \E r \in Requests : req[r].st = "cut") => ctx = "done"

(***************************************************************************)
(* No handler meets a closed store before the five seconds are over:        *)
(* closeStore is deferred past both drains.                                 *)
(***************************************************************************)
StoreOutlivesHandlers == (\E r \in Requests : req[r].failed) => ctx = "done"

(***************************************************************************)
(* A signal that main waits for ends the process, though handlers may hang  *)
(* on both transports: each of the two waits ends with ctx at the latest.   *)
(***************************************************************************)
SignalEndsProcess == (main = "select" /\ sigCh) ~> (main = "exited")
=============================================================================
