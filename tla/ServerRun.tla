----------------------------- MODULE ServerRun ------------------------------
(***************************************************************************)
(* The life of rtbh-server: its configuration is validated, NewServer      *)
(* picks the policy store, and Server.Run (internal/runtime/server.go)     *)
(* starts the BGP engine, the listeners and up to five goroutines, waits   *)
(* for a signal or for the first goroutine to end, and takes everything    *)
(* down again.                                                             *)
(*                                                                         *)
(* Each goroutine sends its result to errCh once, and Run receives at most *)
(* one of them.  acceptSync runs one policy-sync handler at a time and     *)
(* waits for it when it replaces it and when it ends; Run waits for the    *)
(* handlers too, through a WaitGroup that acceptSync may still add to.  A  *)
(* handler lets acceptSync go on (close(done)) before it leaves the        *)
(* WaitGroup, and a WaitGroup that is added to after its counter reached   *)
(* zero and before Wait has returned panics: the program ends.             *)
(***************************************************************************)
EXTENDS Naturals, Sequences

CONSTANTS
    MaxRequests,    \* bound: dashboard requests at the same time
    MaxHandlers,    \* bound: policy-sync connections accepted
    MaxFailures     \* bound: listeners that fail while they serve

ASSUME RunBounds ==
    MaxRequests \in Nat /\ MaxHandlers \in Nat /\ MaxFailures \in Nat

VARIABLES
    pc,          \* where main and Run are
    mode,        \* what the configuration has settled: dry-run, database
    asked,       \* a signal has cancelled ctx
    cancelled,   \* cancelRun has been called
    engine,      \* the BGP engine runs
    listener,    \* are the two listeners open?
    errCh,       \* results of goroutines, sent and not received
    worker,      \* the goroutines Run starts
    handler,     \* handleSync up to close(done): none, running, told to end
    leaving,     \* handlers past close(done) that have not called Done
    late,        \* history: this handler started after workers.Wait
    requests,    \* dashboard requests being served
    timedOut,    \* history: Shutdown gave up on its requests
    runErr,      \* the error Run will return
    used         \* how much of each bound is used

startVars == <<mode, asked>>
syncVars == <<handler, leaving, late>>
workerVars == <<errCh, worker, syncVars, requests>>
vars == <<pc, startVars, cancelled, engine, listener, workerVars, timedOut,
          runErr, used>>

-----------------------------------------------------------------------------
(* Configuration.                                                          *)

(* What decides the store and the goroutines.  A policy file is a JSON     *)
(* file or, by its suffix, a database.  common and server stand for the    *)
(* checks of the other values, which decide nothing later.                 *)
Config == [common : BOOLEAN, server : BOOLEAN, dryRun : BOOLEAN,
           policyFile : {"", "json", "db"}, dbDriver : {"", "sqlite"},
           dbDSN : {"", "dsn"}]

ValidateCommon(c) ==
    c.common /\ (c.dryRun \/ c.policyFile # "" \/ c.dbDSN # "")
ValidateServer(c) == c.server

(* NewServer's choice: a database needs a driver, or a policy file that    *)
(* names one; a DSN alone selects nothing.                                 *)
UsesSQL(c) == c.dbDriver # "" \/ c.policyFile = "db"

Unset == [dryRun |-> TRUE, sql |-> FALSE]
AllWorkers == {"http", "accept", "expiry", "feeds", "sql"}

(* The goroutines this configuration has. *)
Workers == {w \in AllWorkers : /\ w = "expiry" => ~mode.dryRun
                               /\ w = "sql" => mode.sql}

(* Mutant: errCh is made for one result. *)
ErrChCapOne == 1

(* The capacity of errCh. *)
ErrChCap == 5

Init ==
    /\ pc = "load" /\ mode = Unset /\ asked = FALSE /\ cancelled = FALSE
    /\ engine = FALSE /\ listener = [http |-> FALSE, sync |-> FALSE]
    /\ errCh = <<>> /\ worker = [w \in AllWorkers |-> "off"]
    /\ handler = "none" /\ leaving = 0 /\ late = FALSE /\ requests = 0 /\ timedOut = FALSE
    /\ runErr = "nil" /\ used = [handlers |-> 0, failures |-> 0]

(* LoadServerConfig and NewServer's own validation. *)
LoadConfig ==
    /\ pc = "load"
    /\ \E c \in Config :
         \/ /\ ValidateCommon(c) /\ ValidateServer(c)
            /\ pc' = "open"
            /\ mode' = [dryRun |-> c.dryRun, sql |-> UsesSQL(c)]
         \/ /\ ~(ValidateCommon(c) /\ ValidateServer(c))
            /\ pc' = "refused" /\ UNCHANGED mode
    /\ UNCHANGED <<asked, cancelled, engine, listener, workerVars, timedOut,
                   runErr, used>>

(* NewServer opens the stores, the cursor file and the feed file; one that *)
(* cannot be opened ends the program.                                      *)
NewServer ==
    /\ pc = "open"
    /\ pc' \in {"engine", "refused"}
    /\ UNCHANGED <<startVars, cancelled, engine, listener, workerVars, timedOut,
                   runErr, used>>

-----------------------------------------------------------------------------
(* Run.                                                                    *)

(* SIGINT or SIGTERM, at any time from NotifyContext on. *)
Signal ==
    /\ pc \notin {"load", "open", "refused", "returned", "panicked"} /\ ~asked
    /\ asked' = TRUE
    /\ UNCHANGED <<pc, mode, cancelled, engine, listener, workerVars, timedOut,
                   runErr, used>>

(* runCtx is cancelled by Run, or with the context it derives from. *)
RunCtxDone == cancelled \/ asked

(* engine.Start. *)
StartEngine ==
    /\ pc = "engine"
    /\ \/ pc' = "reconcile" /\ engine' = TRUE /\ UNCHANGED <<cancelled, runErr>>
       \/ /\ pc' = "returned" /\ cancelled' = TRUE /\ runErr' = "error"
          /\ UNCHANGED engine
    /\ UNCHANGED <<startVars, listener, workerVars, timedOut, used>>

(* An early return of Run: what was started is stopped. *)
GiveUp ==
    /\ pc' = "returned" /\ cancelled' = TRUE /\ runErr' = "error"
    /\ engine' = FALSE /\ listener' = [http |-> FALSE, sync |-> FALSE]

(* The routes of the stored policy. *)
Reconcile ==
    /\ pc = "reconcile"
    /\ \/ pc' = "listenHttp" /\ UNCHANGED <<cancelled, engine, listener, runErr>>
       \/ GiveUp
    /\ UNCHANGED <<startVars, workerVars, timedOut, used>>

(* Mutant: the dashboard is served before the other listener is open. *)
ListenHttpServes ==
    /\ pc = "listenHttp"
    /\ \/ /\ pc' = "listenSync" /\ listener' = [listener EXCEPT !.http = TRUE]
          /\ worker' = [worker EXCEPT !["http"] = "run"]
          /\ UNCHANGED <<cancelled, engine, runErr>>
       \/ GiveUp /\ UNCHANGED worker
    /\ UNCHANGED <<startVars, errCh, syncVars, requests, timedOut, used>>

(* net.Listen for the dashboard. *)
ListenHttp ==
    /\ pc = "listenHttp"
    /\ \/ /\ pc' = "listenSync" /\ listener' = [listener EXCEPT !.http = TRUE]
          /\ UNCHANGED <<cancelled, engine, runErr>>
       \/ GiveUp
    /\ UNCHANGED <<startVars, workerVars, timedOut, used>>

(* net.Listen for policy-sync; with both open the goroutines start. *)
ListenSync ==
    /\ pc = "listenSync"
    /\ \/ /\ pc' = "serve" /\ listener' = [listener EXCEPT !.sync = TRUE]
          /\ worker' = [w \in AllWorkers |-> IF w \in Workers THEN "run" ELSE "off"]
          /\ UNCHANGED <<cancelled, engine, runErr>>
       \/ GiveUp /\ UNCHANGED worker
    /\ UNCHANGED <<startVars, errCh, syncVars, requests, timedOut, used>>

(* The select: a signal, or the first result. *)
Select ==
    /\ pc = "serve"
    /\ \/ asked /\ UNCHANGED <<errCh, runErr>>
       \/ /\ errCh # <<>>
          /\ runErr' = Head(errCh) /\ errCh' = Tail(errCh)
    /\ pc' = "closeSync" /\ cancelled' = TRUE
    /\ UNCHANGED <<startVars, engine, listener, worker, syncVars, requests,
                   timedOut, used>>

(* syncListener.Close, whose error counts if there is no earlier one. *)
CloseSync ==
    /\ pc = "closeSync"
    /\ pc' = "closeHttp" /\ listener' = [listener EXCEPT !.sync = FALSE]
    /\ runErr' \in {runErr, "error"}
    /\ UNCHANGED <<startVars, cancelled, engine, workerVars, timedOut, used>>

(* httpServer.Shutdown closes the listener at once. *)
CloseHttp ==
    /\ pc = "closeHttp"
    /\ pc' = "drain" /\ listener' = [listener EXCEPT !.http = FALSE]
    /\ UNCHANGED <<startVars, cancelled, engine, workerVars, timedOut, runErr, used>>

(* Mutant: Shutdown has no deadline. *)
DrainForever ==
    /\ pc = "drain" /\ requests = 0
    /\ pc' = "wait"
    /\ UNCHANGED <<startVars, cancelled, engine, listener, workerVars, timedOut,
                   runErr, used>>

(* Then it waits for the requests, for ShutdownTimeout at most. *)
Drain ==
    /\ pc = "drain"
    /\ pc' = "wait"
    /\ \/ requests = 0 /\ UNCHANGED <<timedOut, runErr>>
       \/ requests > 0 /\ timedOut' = TRUE /\ runErr' = "error"
    /\ UNCHANGED <<startVars, cancelled, engine, listener, workerVars, used>>

(* The counter of the WaitGroup. *)
Counter == leaving + (IF handler = "none" THEN 0 ELSE 1)

(* Mutant: Run does not wait for the handlers. *)
WaitWorkersNot ==
    /\ pc = "wait"
    /\ pc' = "stop"
    /\ UNCHANGED <<startVars, cancelled, engine, listener, workerVars, timedOut,
                   runErr, used>>

(* workers.Wait is called; it returns at once if nothing is counted. *)
WaitWorkers ==
    /\ pc = "wait"
    /\ pc' = IF Counter = 0 THEN "stop" ELSE "waiting"
    /\ UNCHANGED <<startVars, cancelled, engine, listener, workerVars, timedOut,
                   runErr, used>>

(* The Done that made the counter zero has released it, and it looks at    *)
(* the counter once more.                                                  *)
WaitReturns ==
    /\ pc = "woken"
    /\ pc' = IF Counter = 0 THEN "stop" ELSE "panicked"
    /\ UNCHANGED <<startVars, cancelled, engine, listener, workerVars, timedOut,
                   runErr, used>>

(* engine.Stop, whose error is returned if there is no earlier one. *)
StopEngine ==
    /\ pc = "stop"
    /\ pc' = "returned" /\ engine' = FALSE
    /\ runErr' \in {runErr, "error"}
    /\ UNCHANGED <<startVars, cancelled, listener, workerVars, timedOut, used>>

Run ==
    \/ StartEngine \/ Reconcile \/ ListenHttp \/ ListenSync \/ Select
    \/ CloseSync \/ CloseHttp \/ Drain \/ WaitWorkers \/ WaitReturns \/ StopEngine

-----------------------------------------------------------------------------
(* The goroutines.                                                         *)

(* Run's variables but pc, in a program that has not panicked; and pc. *)
Alive ==
    /\ pc # "panicked"
    /\ UNCHANGED <<startVars, cancelled, engine, listener, timedOut, runErr>>
RunOnly == Alive /\ UNCHANGED pc

Ends(w, result) == worker' = [worker EXCEPT ![w] = result]

(* RunExpiry, feedMgr.Run and runSQLFeedSync return nil when runCtx ends,  *)
(* which is sent at once; it blocks while errCh is full.                   *)
LoopEnds(w) ==
    /\ w \in {"expiry", "feeds", "sql"} /\ worker[w] = "run"
    /\ RunCtxDone /\ Len(errCh) < ErrChCap
    /\ errCh' = Append(errCh, "nil")
    /\ Ends(w, "done")
    /\ RunOnly /\ UNCHANGED <<syncVars, requests, used>>

(* Mutant: normalizeServerError swallows every error. *)
HttpEndsQuietly ==
    /\ worker["http"] = "run"
    /\ \/ ~listener.http /\ UNCHANGED used
       \/ /\ listener.http /\ used.failures < MaxFailures
          /\ used' = [used EXCEPT !.failures = @ + 1]
    /\ Ends("http", "nil")
    /\ RunOnly /\ UNCHANGED <<errCh, syncVars, requests>>

(* Serve returns: nil after normalizeServerError when the listener was     *)
(* closed, or its error.                                                   *)
HttpEnds ==
    /\ worker["http"] = "run"
    /\ \/ ~listener.http /\ Ends("http", "nil") /\ UNCHANGED used
       \/ /\ listener.http /\ used.failures < MaxFailures
          /\ used' = [used EXCEPT !.failures = @ + 1]
          /\ Ends("http", "error")
    /\ RunOnly /\ UNCHANGED <<errCh, syncVars, requests>>

(* Accept returns a connection; closeActive tells the running handler to   *)
(* end and waits for it.                                                   *)
Accept ==
    /\ worker["accept"] = "run" /\ listener.sync
    /\ used.handlers < MaxHandlers
    /\ used' = [used EXCEPT !.handlers = @ + 1]
    /\ Ends("accept", "replace")
    /\ handler' = IF handler = "running" THEN "told" ELSE handler
    /\ RunOnly /\ UNCHANGED <<errCh, leaving, late, requests>>

(* workers.Add, and the next handler starts.  After a Done that reached    *)
(* zero and released Wait, Add panics itself if it still finds the waiter; *)
(* if not, Wait will find the counter raised.                              *)
StartHandler ==
    /\ worker["accept"] = "replace" /\ handler = "none"
    /\ handler' = "running" /\ late' = (pc \in {"stop", "returned"})
    /\ pc' \in IF pc = "woken" /\ Counter = 0 THEN {"woken", "panicked"} ELSE {pc}
    /\ Ends("accept", "run")
    /\ Alive /\ UNCHANGED <<errCh, leaving, requests, used>>

(* Accept fails: the listener was closed, or an error, which counts only   *)
(* while runCtx lives; the deferred closeActive tells the handler to end.  *)
AcceptFails ==
    /\ worker["accept"] = "run"
    /\ \/ ~listener.sync /\ Ends("accept", "closingNil") /\ UNCHANGED used
       \/ /\ listener.sync /\ used.failures < MaxFailures
          /\ used' = [used EXCEPT !.failures = @ + 1]
          /\ Ends("accept", IF RunCtxDone THEN "closingNil" ELSE "closingError")
    /\ handler' = IF handler = "running" THEN "told" ELSE handler
    /\ RunOnly /\ UNCHANGED <<errCh, leaving, late, requests>>

(* acceptSync returns once the handler is done. *)
AcceptEnds ==
    /\ worker["accept"] \in {"closingNil", "closingError"} /\ handler = "none"
    /\ Ends("accept", IF worker["accept"] = "closingNil" THEN "nil" ELSE "error")
    /\ RunOnly /\ UNCHANGED <<errCh, syncVars, requests, used>>

(* handleSync returns: its agent is gone, or its context is cancelled; its *)
(* connection and done are closed, which is what acceptSync waits for.     *)
HandlerEnds ==
    /\ handler # "none"
    /\ handler' = "none" /\ leaving' = leaving + 1
    /\ RunOnly /\ UNCHANGED <<errCh, worker, late, requests, used>>

(* Mutant: Done is called twice, and panics below zero. *)
HandlerDoneTwice ==
    /\ leaving > 0
    /\ leaving' = leaving - 1
    /\ pc' = IF Counter = 1 THEN "panicked" ELSE pc
    /\ Alive /\ UNCHANGED <<errCh, worker, handler, late, requests, used>>

(* The last of its deferred calls, workers.Done. *)
HandlerDone ==
    /\ leaving > 0
    /\ leaving' = leaving - 1
    /\ pc' = IF pc = "waiting" /\ Counter = 1 THEN "woken" ELSE pc
    /\ Alive /\ UNCHANGED <<errCh, worker, handler, late, requests, used>>

(* The dashboard's and acceptSync's results; blocks while errCh is full. *)
Send(w) ==
    /\ worker[w] \in {"nil", "error"} /\ Len(errCh) < ErrChCap
    /\ errCh' = Append(errCh, worker[w])
    /\ Ends(w, "done")
    /\ RunOnly /\ UNCHANGED <<syncVars, requests, used>>

(* Dashboard requests come and go. *)
RequestStarts ==
    /\ worker["http"] = "run" /\ listener.http /\ requests < MaxRequests
    /\ requests' = requests + 1
    /\ RunOnly /\ UNCHANGED <<errCh, worker, syncVars, used>>

RequestEnds ==
    /\ requests > 0
    /\ requests' = requests - 1
    /\ RunOnly /\ UNCHANGED <<errCh, worker, syncVars, used>>

Goroutine ==
    \/ HttpEnds \/ Accept \/ StartHandler \/ AcceptFails \/ AcceptEnds
    \/ \E w \in AllWorkers : LoopEnds(w) \/ Send(w)

-----------------------------------------------------------------------------
Next ==
    \/ LoadConfig \/ NewServer \/ Signal \/ Run \/ Goroutine
    \/ HandlerEnds \/ HandlerDone \/ RequestStarts \/ RequestEnds

Spec == Init /\ [][Next]_vars

HandlerTold == (handler = "told" \/ RunCtxDone) /\ HandlerEnds

(* Run goes on; a goroutine whose context is cancelled or whose listener   *)
(* is closed ends and sends; a handler that is told to end does.  Signals, *)
(* requests, connections and failures need not come.                       *)
Fairness ==
    /\ WF_vars(Run) /\ WF_vars(HandlerTold) /\ WF_vars(HandlerDone)
    /\ WF_vars(~listener.http /\ HttpEnds) /\ WF_vars(~listener.sync /\ AcceptFails)
    /\ WF_vars(StartHandler) /\ WF_vars(AcceptEnds)
    /\ \A w \in AllWorkers : WF_vars(LoopEnds(w)) /\ WF_vars(Send(w))

FairSpec == Spec /\ Fairness

-----------------------------------------------------------------------------
(* Every variable keeps its type, and nothing runs before it is started.   *)
TypeOK ==
    /\ pc \in {"load", "open", "refused", "engine", "reconcile", "listenHttp",
               "listenSync", "serve", "closeSync", "closeHttp", "drain", "wait",
               "waiting", "woken", "stop", "returned", "panicked"}
    /\ mode \in [dryRun : BOOLEAN, sql : BOOLEAN]
    /\ asked \in BOOLEAN /\ cancelled \in BOOLEAN /\ engine \in BOOLEAN
    /\ listener \in [http : BOOLEAN, sync : BOOLEAN]
    /\ errCh \in Seq({"nil", "error"})
    /\ worker \in [AllWorkers -> {"off", "run", "replace", "closingNil",
                                  "closingError", "nil", "error", "done"}]
    /\ handler \in {"none", "running", "told"} /\ leaving \in Nat /\ late \in BOOLEAN
    /\ requests \in Nat /\ timedOut \in BOOLEAN /\ runErr \in {"nil", "error"}
    /\ used \in [handlers : Nat, failures : Nat]
    /\ pc \in {"load", "open", "engine", "reconcile", "listenHttp", "listenSync"} =>
          \A w \in AllWorkers : worker[w] = "off"

(* When Run has returned, whichever way, the engine is stopped and both    *)
(* listeners are closed.  A dashboard request outlives it only if Shutdown *)
(* ran into its timeout, and a policy-sync handler only if acceptSync had  *)
(* taken its connection before the shutdown and adds it to the WaitGroup   *)
(* after Run has waited for it.                                            *)
ReturnIsClean ==
    pc = "returned" =>
        /\ ~engine /\ ~listener.http /\ ~listener.sync
        /\ requests = 0 \/ timedOut
        /\ handler = "none" \/ late

(* Run returns nil, and the program exits with 0, only after a signal: a   *)
(* part that fails on its own is never mistaken for an orderly stop.       *)
NilOnlyWhenAsked == pc = "returned" /\ runErr = "nil" => asked

(* Once started, the server stops when it is asked to, though perhaps by   *)
(* the panic of its WaitGroup.                                             *)
StopsWhenAsked == asked ~> pc \in {"returned", "panicked"}

(* The panic needs two agents, or two connections of one: when the policy- *)
(* sync listener closes and acceptSync does not hold a connection that is  *)
(* to replace a handler still counted, Run does return.                    *)
OrderlyStop ==
    pc = "closeHttp" /\ ~(worker["accept"] = "replace" /\ Counter > 0) ~>
        pc = "returned"

(* The goroutines Run started all end, although it receives at most one    *)
(* of their results.                                                       *)
GoroutinesEnd ==
    pc = "returned" ~> \A w \in AllWorkers : worker[w] \in {"off", "done"}
=============================================================================
