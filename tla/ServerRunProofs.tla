-------------------------- MODULE ServerRunProofs ---------------------------
(***************************************************************************)
(* Theorems about ServerRun, for all bounds: however many requests are     *)
(* served, connections accepted and listeners fail.                        *)
(***************************************************************************)
EXTENDS ServerRun, TLAPS

Starting == {"load", "open", "engine", "reconcile", "listenHttp", "listenSync"}
Closing == {"closeSync", "closeHttp", "drain", "wait", "waiting", "woken",
            "stop", "returned", "panicked"}

(* Before Run serves, nothing that it will have to take down exists. *)
StartInv ==
    /\ pc \in Starting => /\ ~cancelled /\ errCh = <<>> /\ handler = "none"
                          /\ requests = 0 /\ runErr = "nil"
    /\ pc \in {"load", "open", "engine", "refused"} => ~engine
    /\ pc \in Starting \cup {"refused"} => ~listener.sync
    /\ pc \in (Starting \ {"listenSync"}) \cup {"refused"} => ~listener.http
    /\ pc = "listenSync" => listener.http

(* Nobody has a result of nil to send, or has sent one. *)
NoNil ==
    /\ \A w \in AllWorkers : worker[w] \notin {"nil", "closingNil"}
    /\ \A i \in 1..Len(errCh) : errCh[i] = "error"

(* While Run serves and no signal has come, its context is alive and both  *)
(* listeners are open, so whatever ends has failed.                        *)
ServeInv ==
    pc = "serve" => /\ ~cancelled /\ runErr = "nil"
                    /\ listener.http /\ listener.sync
                    /\ ~asked => NoNil

(* What each step of the shutdown has already made sure of. *)
CloseInv ==
    /\ pc \in Closing => (runErr = "nil" => asked)
    /\ pc \in Closing \ {"closeSync"} => ~listener.sync
    /\ pc \in Closing \ {"closeSync", "closeHttp"} => ~listener.http
    /\ pc \in Closing \ {"closeSync", "closeHttp", "drain"} => requests = 0 \/ timedOut
    /\ pc \in {"stop", "returned"} => handler = "none" \/ late
    /\ pc = "returned" => ~engine

RunInv == TypeOK /\ StartInv /\ ServeInv /\ CloseInv

-----------------------------------------------------------------------------
(* Init is a state of RunInv. *)
LEMMA RunInit == Init => RunInv
<1> SUFFICES ASSUME Init
             PROVE  RunInv
  OBVIOUS
<1>1. mode \in [dryRun : BOOLEAN, sql : BOOLEAN]
  BY DEF Init, Unset
<1>2. worker \in [AllWorkers -> {"off", "run", "replace", "closingNil",
                                "closingError", "nil", "error", "done"}]
  BY DEF Init
<1>3. listener \in [http : BOOLEAN, sync : BOOLEAN]
  BY DEF Init
<1>4. errCh \in Seq({"nil", "error"}) /\ used \in [handlers : Nat, failures : Nat]
  BY DEF Init
<1>5. /\ asked \in BOOLEAN /\ cancelled \in BOOLEAN /\ engine \in BOOLEAN
      /\ late \in BOOLEAN /\ timedOut \in BOOLEAN
  BY DEF Init
<1>6. \A w \in AllWorkers : worker[w] = "off"
  BY DEF Init
<1>7. pc = "load" /\ handler = "none" /\ leaving \in Nat /\ requests \in Nat
      /\ runErr = "nil"
  BY DEF Init
<1>8. TypeOK
  BY <1>1, <1>2, <1>3, <1>4, <1>5, <1>6, <1>7 DEF TypeOK
<1>9. StartInv
  BY DEF Init, StartInv, Starting
<1>10. ServeInv /\ CloseInv
  BY DEF Init, ServeInv, CloseInv, Closing
<1> QED
  BY <1>8, <1>9, <1>10 DEF RunInv

(* Every step keeps the types. *)
LEMMA TypeStep == RunInv /\ [Next]_vars => TypeOK'
<1> USE DEF RunInv, TypeOK
<1>1. RunInv /\ LoadConfig => TypeOK'
  <2>1. \A c \in Config : UsesSQL(c) \in BOOLEAN /\ c.dryRun \in BOOLEAN
    BY DEF Config, UsesSQL
  <2>2. RunInv /\ LoadConfig => mode' \in [dryRun : BOOLEAN, sql : BOOLEAN]
    BY <2>1 DEF LoadConfig
  <2> QED
    BY <2>2 DEF LoadConfig, workerVars, syncVars
<1>2. RunInv /\ NewServer => TypeOK'
  BY DEF NewServer, startVars, workerVars, syncVars
<1>3. RunInv /\ Signal => TypeOK'
  BY DEF Signal, workerVars, syncVars
<1>4. RunInv /\ StartEngine => TypeOK'
  BY DEF StartEngine, startVars, workerVars, syncVars
<1>5. RunInv /\ Reconcile => TypeOK'
  <2>1. RunInv /\ Reconcile /\ GiveUp => TypeOK'
    <3>1. GiveUp => listener' \in [http : BOOLEAN, sync : BOOLEAN]
      BY DEF GiveUp
    <3> QED
      BY <3>1 DEF Reconcile, GiveUp, startVars, workerVars, syncVars
  <2>2. RunInv /\ Reconcile /\ ~GiveUp => TypeOK'
    BY DEF Reconcile, startVars, workerVars, syncVars
  <2> QED
    BY <2>1, <2>2
<1>6. RunInv /\ ListenHttp => TypeOK'
  <2>1. RunInv /\ ListenHttp /\ GiveUp => TypeOK'
    <3>1. GiveUp => listener' \in [http : BOOLEAN, sync : BOOLEAN]
      BY DEF GiveUp
    <3> QED
      BY <3>1 DEF ListenHttp, GiveUp, startVars, workerVars, syncVars
  <2>2. RunInv /\ ListenHttp /\ ~GiveUp => TypeOK'
    BY DEF ListenHttp, startVars, workerVars, syncVars
  <2> QED
    BY <2>1, <2>2
<1>7. RunInv /\ ListenSync => TypeOK'
  <2>1. RunInv /\ ListenSync /\ GiveUp => TypeOK'
    <3>1. GiveUp => listener' \in [http : BOOLEAN, sync : BOOLEAN]
      BY DEF GiveUp
    <3> QED
      BY <3>1 DEF ListenSync, GiveUp, startVars, syncVars
  <2>2. RunInv /\ ListenSync /\ ~GiveUp => TypeOK'
    BY DEF ListenSync, syncVars, startVars
  <2> QED
    BY <2>1, <2>2
<1>8. RunInv /\ Select => TypeOK'
  <2>0. ASSUME NEW s \in Seq({"nil", "error"}), s # <<>>
        PROVE  Head(s) \in {"nil", "error"} /\ Tail(s) \in Seq({"nil", "error"})
    BY <2>0
  <2>1. RunInv /\ Select =>
          errCh' \in Seq({"nil", "error"}) /\ runErr' \in {"nil", "error"}
    BY <2>0 DEF Select
  <2>2. RunInv /\ Select => cancelled' \in BOOLEAN /\ pc' = "closeSync"
    BY DEF Select
  <2>3. RunInv /\ Select =>
          UNCHANGED <<mode, asked, engine, listener, worker, handler, leaving, late,
                      requests, timedOut, used>>
    BY DEF Select, syncVars, startVars
  <2> QED
    BY <2>1, <2>2, <2>3
<1>9. RunInv /\ CloseSync => TypeOK'
  BY DEF CloseSync, startVars, workerVars, syncVars
<1>10. RunInv /\ CloseHttp => TypeOK'
  BY DEF CloseHttp, startVars, workerVars, syncVars
<1>11. RunInv /\ Drain => TypeOK'
  BY DEF Drain, startVars, workerVars, syncVars
<1>12. RunInv /\ WaitWorkers => TypeOK'
  BY DEF WaitWorkers, Counter, startVars, workerVars, syncVars
<1>13. RunInv /\ WaitReturns => TypeOK'
  BY DEF WaitReturns, Counter, startVars, workerVars, syncVars
<1>14. RunInv /\ StopEngine => TypeOK'
  BY DEF StopEngine, startVars, workerVars, syncVars
<1>15. RunInv /\ HttpEnds => TypeOK'
  BY DEF HttpEnds, syncVars, Ends, RunOnly, Alive, startVars, AllWorkers
<1>16. RunInv /\ Accept => TypeOK'
  BY DEF Accept, Ends, RunOnly, Alive, startVars, AllWorkers
<1>17. RunInv /\ StartHandler => TypeOK'
  BY DEF StartHandler, Counter, Ends, RunOnly, Alive, startVars, AllWorkers
<1>18. RunInv /\ AcceptFails => TypeOK'
  BY DEF AcceptFails, Ends, RunOnly, Alive, startVars, AllWorkers
<1>19. RunInv /\ AcceptEnds => TypeOK'
  BY DEF AcceptEnds, syncVars, Ends, RunOnly, Alive, startVars, AllWorkers
<1>20. \A w \in AllWorkers : RunInv /\ LoopEnds(w) => TypeOK'
  BY DEF LoopEnds, syncVars, Ends, RunOnly, Alive, startVars, AllWorkers
<1>21. \A w \in AllWorkers : RunInv /\ Send(w) => TypeOK'
  BY DEF Send, syncVars, Ends, RunOnly, Alive, startVars
<1>22. RunInv /\ HandlerEnds => TypeOK'
  BY DEF HandlerEnds, RunOnly, Alive, startVars
<1>23. RunInv /\ HandlerDone => TypeOK'
  BY DEF HandlerDone, Counter, Alive, startVars
<1>24. RunInv /\ RequestStarts => TypeOK'
  BY DEF RequestStarts, syncVars, RunOnly, Alive, startVars
<1>25. RunInv /\ RequestEnds => TypeOK'
  BY DEF RequestEnds, syncVars, RunOnly, Alive, startVars
<1>26. RunInv /\ UNCHANGED vars => TypeOK'
  BY DEF vars, startVars, workerVars, syncVars
<1> HIDE DEF RunInv, TypeOK
<1> QED
  BY <1>1, <1>2, <1>3, <1>4, <1>5, <1>6, <1>7, <1>8, <1>9, <1>10, <1>11, <1>12,
     <1>13, <1>14, <1>15, <1>16, <1>17, <1>18, <1>19, <1>20, <1>21, <1>22, <1>23,
     <1>24, <1>25, <1>26 DEF Next, Run, Goroutine

(* Before Run serves, no goroutine runs that could disturb StartInv. *)
LEMMA StartStep == RunInv /\ [Next]_vars => StartInv'
<1> USE DEF RunInv, TypeOK, StartInv, Starting
<1>1. RunInv /\ LoadConfig => StartInv'
  BY DEF LoadConfig, workerVars, syncVars
<1>2. RunInv /\ NewServer => StartInv'
  BY DEF NewServer, startVars, workerVars, syncVars
<1>3. RunInv /\ Signal => StartInv'
  BY DEF Signal, workerVars, syncVars
<1>4. RunInv /\ StartEngine => StartInv'
  BY DEF StartEngine, startVars, workerVars, syncVars
<1>5. RunInv /\ Reconcile => StartInv'
  BY DEF Reconcile, GiveUp, startVars, workerVars, syncVars
<1>6. RunInv /\ ListenHttp => StartInv'
  BY DEF ListenHttp, GiveUp, startVars, workerVars, syncVars
<1>7. RunInv /\ ListenSync => StartInv'
  BY DEF ListenSync, syncVars, GiveUp, startVars
<1>8. RunInv /\ Select => StartInv'
  BY DEF Select, syncVars, startVars
<1>9. RunInv /\ CloseSync => StartInv'
  BY DEF CloseSync, startVars, workerVars, syncVars
<1>10. RunInv /\ CloseHttp => StartInv'
  BY DEF CloseHttp, startVars, workerVars, syncVars
<1>11. RunInv /\ Drain => StartInv'
  BY DEF Drain, startVars, workerVars, syncVars
<1>12. RunInv /\ WaitWorkers => StartInv'
  BY DEF WaitWorkers, Counter, startVars, workerVars, syncVars
<1>13. RunInv /\ WaitReturns => StartInv'
  BY DEF WaitReturns, Counter, startVars, workerVars, syncVars
<1>14. RunInv /\ StopEngine => StartInv'
  BY DEF StopEngine, startVars, workerVars, syncVars
<1>15. RunInv /\ HttpEnds => StartInv'
  BY DEF HttpEnds, syncVars, Ends, RunOnly, Alive, startVars, AllWorkers
<1>16. RunInv /\ Accept => StartInv'
  BY DEF Accept, Ends, RunOnly, Alive, startVars, AllWorkers
<1>17. RunInv /\ StartHandler => StartInv'
  BY DEF StartHandler, Counter, Ends, RunOnly, Alive, startVars, AllWorkers
<1>18. RunInv /\ AcceptFails => StartInv'
  BY DEF AcceptFails, Ends, RunOnly, Alive, startVars, AllWorkers
<1>19. RunInv /\ AcceptEnds => StartInv'
  BY DEF AcceptEnds, syncVars, Ends, RunOnly, Alive, startVars, AllWorkers
<1>20. \A w \in AllWorkers : RunInv /\ LoopEnds(w) => StartInv'
  BY DEF LoopEnds, syncVars, Ends, RunOnly, Alive, startVars, AllWorkers
<1>21. \A w \in AllWorkers : RunInv /\ Send(w) => StartInv'
  BY DEF Send, syncVars, Ends, RunOnly, Alive, startVars
<1>22. RunInv /\ HandlerEnds => StartInv'
  BY DEF HandlerEnds, RunOnly, Alive, startVars
<1>23. RunInv /\ HandlerDone => StartInv'
  BY DEF HandlerDone, Counter, Alive, startVars
<1>24. RunInv /\ RequestStarts => StartInv'
  BY DEF RequestStarts, syncVars, RunOnly, Alive, startVars, AllWorkers
<1>25. RunInv /\ RequestEnds => StartInv'
  BY DEF RequestEnds, syncVars, RunOnly, Alive, startVars
<1>26. RunInv /\ UNCHANGED vars => StartInv'
  BY DEF vars, startVars, workerVars, syncVars
<1> HIDE DEF RunInv, TypeOK, StartInv, Starting
<1> QED
  BY <1>1, <1>2, <1>3, <1>4, <1>5, <1>6, <1>7, <1>8, <1>9, <1>10, <1>11, <1>12,
     <1>13, <1>14, <1>15, <1>16, <1>17, <1>18, <1>19, <1>20, <1>21, <1>22, <1>23,
     <1>24, <1>25, <1>26 DEF Next, Run, Goroutine

(* While Run serves and no signal has come, what ends has failed. *)
LEMMA ServeStep == RunInv /\ [Next]_vars => ServeInv'
<1> USE DEF RunInv, TypeOK, ServeInv, NoNil
<1>1. RunInv /\ LoadConfig => ServeInv'
  BY DEF LoadConfig, workerVars, syncVars
<1>2. RunInv /\ NewServer => ServeInv'
  BY DEF NewServer, startVars, workerVars, syncVars
<1>3. RunInv /\ Signal => ServeInv'
  BY DEF Signal, workerVars, syncVars
<1>4. RunInv /\ StartEngine => ServeInv'
  BY DEF StartEngine, startVars, workerVars, syncVars
<1>5. RunInv /\ Reconcile => ServeInv'
  BY DEF Reconcile, GiveUp, startVars, workerVars, syncVars
<1>6. RunInv /\ ListenHttp => ServeInv'
  BY DEF ListenHttp, GiveUp, startVars, workerVars, syncVars
<1>7. RunInv /\ ListenSync => ServeInv'
  <2>1. RunInv /\ ListenSync /\ GiveUp => ServeInv'
    BY DEF GiveUp
  <2>2. RunInv /\ ListenSync /\ ~GiveUp => listener'.http /\ listener'.sync
    BY DEF ListenSync, syncVars, StartInv, Starting
  <2>3. RunInv /\ ListenSync /\ ~GiveUp => NoNil'
    BY DEF ListenSync, syncVars, StartInv, Starting
  <2>4. RunInv /\ ListenSync /\ ~GiveUp => ~cancelled' /\ runErr' = "nil"
    BY DEF ListenSync, syncVars, StartInv, Starting
  <2> QED
    BY <2>1, <2>2, <2>3, <2>4
<1>8. RunInv /\ Select => ServeInv'
  BY DEF Select, syncVars, startVars
<1>9. RunInv /\ CloseSync => ServeInv'
  BY DEF CloseSync, startVars, workerVars, syncVars
<1>10. RunInv /\ CloseHttp => ServeInv'
  BY DEF CloseHttp, startVars, workerVars, syncVars
<1>11. RunInv /\ Drain => ServeInv'
  BY DEF Drain, startVars, workerVars, syncVars
<1>12. RunInv /\ WaitWorkers => ServeInv'
  BY DEF WaitWorkers, Counter, startVars, workerVars, syncVars
<1>13. RunInv /\ WaitReturns => ServeInv'
  BY DEF WaitReturns, Counter, startVars, workerVars, syncVars
<1>14. RunInv /\ StopEngine => ServeInv'
  BY DEF StopEngine, startVars, workerVars, syncVars
<1>15. RunInv /\ HttpEnds => ServeInv'
  BY DEF HttpEnds, syncVars, Ends, RunOnly, Alive, startVars
<1>16. RunInv /\ Accept => ServeInv'
  BY DEF Accept, Ends, RunOnly, Alive, startVars
<1>17. RunInv /\ StartHandler => ServeInv'
  BY DEF StartHandler, Counter, Ends, RunOnly, Alive, startVars
<1>18. RunInv /\ AcceptFails => ServeInv'
  BY DEF AcceptFails, Ends, RunOnly, Alive, startVars, RunCtxDone
<1>19. RunInv /\ AcceptEnds => ServeInv'
  BY DEF AcceptEnds, syncVars, Ends, RunOnly, Alive, startVars, AllWorkers
<1>20. \A w \in AllWorkers : RunInv /\ LoopEnds(w) => ServeInv'
  BY DEF LoopEnds, syncVars, Ends, RunOnly, Alive, startVars, RunCtxDone
<1>21. \A w \in AllWorkers : RunInv /\ Send(w) => ServeInv'
  BY DEF Send, syncVars, Ends, RunOnly, Alive, startVars
<1>22. RunInv /\ HandlerEnds => ServeInv'
  BY DEF HandlerEnds, RunOnly, Alive, startVars
<1>23. RunInv /\ HandlerDone => ServeInv'
  BY DEF HandlerDone, Counter, Alive, startVars
<1>24. RunInv /\ RequestStarts => ServeInv'
  BY DEF RequestStarts, syncVars, RunOnly, Alive, startVars
<1>25. RunInv /\ RequestEnds => ServeInv'
  BY DEF RequestEnds, syncVars, RunOnly, Alive, startVars
<1>26. RunInv /\ UNCHANGED vars => ServeInv'
  BY DEF vars, startVars, workerVars, syncVars
<1> HIDE DEF RunInv, TypeOK, ServeInv, NoNil
<1> QED
  BY <1>1, <1>2, <1>3, <1>4, <1>5, <1>6, <1>7, <1>8, <1>9, <1>10, <1>11, <1>12,
     <1>13, <1>14, <1>15, <1>16, <1>17, <1>18, <1>19, <1>20, <1>21, <1>22, <1>23,
     <1>24, <1>25, <1>26 DEF Next, Run, Goroutine

(* Each step of the shutdown adds its part. *)
LEMMA CloseStep == RunInv /\ [Next]_vars => CloseInv'
<1> USE DEF RunInv, TypeOK, CloseInv, Closing
<1>1. RunInv /\ LoadConfig => CloseInv'
  BY DEF LoadConfig, workerVars, syncVars
<1>2. RunInv /\ NewServer => CloseInv'
  BY DEF NewServer, startVars, workerVars, syncVars
<1>3. RunInv /\ Signal => CloseInv'
  BY DEF Signal, workerVars, syncVars
<1>4. RunInv /\ StartEngine => CloseInv'
  BY DEF StartEngine, startVars, workerVars, syncVars, StartInv, Starting
<1>5. RunInv /\ Reconcile => CloseInv'
  BY DEF Reconcile, GiveUp, startVars, workerVars, syncVars, StartInv, Starting
<1>6. RunInv /\ ListenHttp => CloseInv'
  BY DEF ListenHttp, GiveUp, startVars, workerVars, syncVars, StartInv, Starting
<1>7. RunInv /\ ListenSync => CloseInv'
  BY DEF ListenSync, syncVars, GiveUp, startVars, StartInv, Starting
<1>8. RunInv /\ Select => CloseInv'
  BY DEF Select, syncVars, startVars, ServeInv, NoNil
<1>9. RunInv /\ CloseSync => CloseInv'
  BY DEF CloseSync, startVars, workerVars, syncVars
<1>10. RunInv /\ CloseHttp => CloseInv'
  BY DEF CloseHttp, startVars, workerVars, syncVars
<1>11. RunInv /\ Drain => CloseInv'
  BY DEF Drain, startVars, workerVars, syncVars
<1>12. RunInv /\ WaitWorkers => CloseInv'
  BY DEF WaitWorkers, Counter, startVars, workerVars, syncVars
<1>13. RunInv /\ WaitReturns => CloseInv'
  BY DEF WaitReturns, Counter, startVars, workerVars, syncVars
<1>14. RunInv /\ StopEngine => CloseInv'
  BY DEF StopEngine, startVars, workerVars, syncVars
<1>15. RunInv /\ HttpEnds => CloseInv'
  BY DEF HttpEnds, syncVars, Ends, RunOnly, Alive, startVars
<1>16. RunInv /\ Accept => CloseInv'
  BY DEF Accept, Ends, RunOnly, Alive, startVars
<1>17. RunInv /\ StartHandler => CloseInv'
  <2>1. RunInv /\ StartHandler /\ pc \in {"stop", "returned"} => late'
    BY DEF StartHandler
  <2> QED
    BY <2>1 DEF StartHandler, Counter, Ends, RunOnly, Alive, startVars
<1>18. RunInv /\ AcceptFails => CloseInv'
  BY DEF AcceptFails, Ends, RunOnly, Alive, startVars
<1>19. RunInv /\ AcceptEnds => CloseInv'
  BY DEF AcceptEnds, syncVars, Ends, RunOnly, Alive, startVars
<1>20. \A w \in AllWorkers : RunInv /\ LoopEnds(w) => CloseInv'
  BY DEF LoopEnds, syncVars, Ends, RunOnly, Alive, startVars
<1>21. \A w \in AllWorkers : RunInv /\ Send(w) => CloseInv'
  BY DEF Send, syncVars, Ends, RunOnly, Alive, startVars
<1>22. RunInv /\ HandlerEnds => CloseInv'
  BY DEF HandlerEnds, RunOnly, Alive, startVars
<1>23. RunInv /\ HandlerDone => CloseInv'
  BY DEF HandlerDone, Counter, Alive, startVars
<1>24. RunInv /\ RequestStarts => CloseInv'
  BY DEF RequestStarts, syncVars, RunOnly, Alive, startVars
<1>25. RunInv /\ RequestEnds => CloseInv'
  BY DEF RequestEnds, syncVars, RunOnly, Alive, startVars
<1>26. RunInv /\ UNCHANGED vars => CloseInv'
  BY DEF vars, startVars, workerVars, syncVars
<1> HIDE DEF RunInv, TypeOK, CloseInv, Closing
<1> QED
  BY <1>1, <1>2, <1>3, <1>4, <1>5, <1>6, <1>7, <1>8, <1>9, <1>10, <1>11, <1>12,
     <1>13, <1>14, <1>15, <1>16, <1>17, <1>18, <1>19, <1>20, <1>21, <1>22, <1>23,
     <1>24, <1>25, <1>26 DEF Next, Run, Goroutine

(* RunInv is inductive. *)
LEMMA RunInvariant == Spec => []RunInv
<1>1. RunInv /\ [Next]_vars => RunInv'
  BY TypeStep, StartStep, ServeStep, CloseStep DEF RunInv
<1> QED
  BY <1>1, RunInit, PTL DEF Spec

-----------------------------------------------------------------------------
(* Run's variables keep their types, and no goroutine runs before Run      *)
(* starts it.                                                              *)
THEOREM RunTypeCorrect == Spec => []TypeOK
<1>1. RunInv => TypeOK
  BY DEF RunInv
<1> QED
  BY <1>1, RunInvariant, PTL

(* Whichever way Run returns, the engine is stopped, the listeners are     *)
(* closed, and a request or a handler is left only as the code provides:   *)
(* after the timeout of Shutdown, or added after workers.Wait.             *)
THEOREM ReturnIsCleanHolds == Spec => []ReturnIsClean
<1>1. RunInv => ReturnIsClean
  BY DEF RunInv, CloseInv, Closing, ReturnIsClean
<1> QED
  BY <1>1, RunInvariant, PTL

(* Run returns nil only after a signal. *)
THEOREM NilOnlyWhenAskedHolds == Spec => []NilOnlyWhenAsked
<1>1. RunInv => NilOnlyWhenAsked
  BY DEF RunInv, CloseInv, Closing, NilOnlyWhenAsked
<1> QED
  BY <1>1, RunInvariant, PTL
=============================================================================
