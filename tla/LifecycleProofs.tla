-------------------------- MODULE LifecycleProofs --------------------------
(***************************************************************************)
(* Proofs about Lifecycle, for every configuration of workers and any      *)
(* number of API requests: what a stop of zaman-core may cut off.          *)
(***************************************************************************)
EXTENDS Lifecycle, TLAPS

RequestStates == {"none", "serving", "answered", "refused", "cut"}

LifeTypeOK == /\ at \in [Workers -> {"bind", "select", "busy", "top", "blocked",
                                     "serve", "done"}]
              /\ request \in [Requests -> RequestStates]
              /\ shutdown \in {"waiting", "draining", "done"}
              /\ exited \in BOOLEAN
              /\ cancelled \in BOOLEAN

Api == at["apiWorker"]

\* CutOnlyWhileDraining is not inductive.  It needs what is behind it: requests
\* are being served only by a server that listens or that drains; after
\* srv.Shutdown was called the server does not listen again; and requests are cut
\* only by an exit.
ServedByServer == (\E r \in Requests : request[r] = "serving")
                      => Api = "serve" \/ shutdown = "draining"
ClosedForGood  == shutdown # "waiting" => Api = "done"
CutByExit      == (\E r \in Requests : request[r] = "cut") => exited

LifeInv == /\ LifeTypeOK
           /\ ServedByServer
           /\ ClosedForGood
           /\ CutByExit
           /\ CutOnlyWhileDraining
-----------------------------------------------------------------------------
\* The API is always configured, and is not one of the other kinds of worker.
LEMMA ApiWorker == /\ "apiWorker" \in Workers
                   /\ "apiWorker" \in Listeners
                   /\ "apiWorker" \notin Tickers \cup Pollers
  BY LifecycleAssumption DEF Tickers, Listeners, Pollers

\* Before main starts its workers.
LEMMA LifeInit == Init => LifeInv
<1>1. SUFFICES ASSUME Init PROVE LifeInv
  OBVIOUS
<1>2. LifeTypeOK
  BY <1>1 DEF Init, LifeTypeOK, RequestStates
<1>3. \A r \in Requests : request[r] = "none"
  BY <1>1 DEF Init
<1> QED
  BY <1>1, <1>2, <1>3
     DEF Init, LifeInv, ServedByServer, ClosedForGood, CutByExit, CutOnlyWhileDraining

\* The steps that move one worker and touch nothing else.
Moves(w) == \/ Step(w) \/ TickerFires(w) \/ TickerFinishes(w)
            \/ TickerStops(w) \/ Arrives(w)

\* What such a step does, and what it does to the API's worker.
LEMMA MovesEffect ==
    ASSUME LifeInv, NEW w \in Workers, Moves(w)
    PROVE  /\ UNCHANGED <<cancelled, request, shutdown, exited>>
           /\ at' \in [Workers -> {"bind", "select", "busy", "top", "blocked",
                                   "serve", "done"}]
           /\ \/ Api' = Api
              \/ Api = "bind" /\ Api' \in {"serve", "done"}
<1>1. PICK from, to \in {"bind", "select", "busy", "top", "blocked", "serve", "done"} :
           /\ Move(w, from, to)
           /\ w = "apiWorker" => from = "bind" /\ to \in {"serve", "done"}
  <2> USE ApiWorker
  <2>1. CASE TickerFires(w) \/ TickerFinishes(w) \/ TickerStops(w)
    BY <2>1 DEF TickerFires, TickerFinishes, TickerStops
  <2>2. CASE Binds(w) \/ BindFails(w)
    BY <2>2 DEF Binds, BindFails
  <2>3. CASE LooksAtDone(w) \/ Arrives(w) \/ DeadlinePasses(w)
    BY <2>3 DEF LooksAtDone, Arrives, DeadlinePasses
  <2> QED
    BY <2>1, <2>2, <2>3 DEF Moves, Step
<1> QED
  BY <1>1, ApiWorker DEF Move, Api, LifeInv, LifeTypeOK

\* A step of one worker keeps the invariant.
LEMMA MovesInv ==
    ASSUME LifeInv, NEW w \in Workers, Moves(w)
    PROVE  LifeInv'
<1>1. /\ UNCHANGED <<cancelled, request, shutdown, exited>>
      /\ Api' = Api \/ (Api = "bind" /\ Api' \in {"serve", "done"})
  BY MovesEffect
<1>2. LifeTypeOK'
  BY <1>1, MovesEffect DEF LifeInv, LifeTypeOK
<1>3. ServedByServer'
  BY <1>1 DEF LifeInv, ServedByServer, ClosedForGood
<1>4. ClosedForGood'
  BY <1>1 DEF LifeInv, ClosedForGood
<1>5. CutByExit' /\ CutOnlyWhileDraining'
  BY <1>1 DEF LifeInv, CutByExit, CutOnlyWhileDraining
<1> QED
  BY <1>2, <1>3, <1>4, <1>5 DEF LifeInv

\* A request arrives or is answered.
LEMMA RequestInv ==
    ASSUME LifeInv, NEW r \in Requests, RequestArrives(r) \/ RequestAnswered(r)
    PROVE  LifeInv'
<1>1. PICK s \in RequestStates :
           /\ request' = [request EXCEPT ![r] = s]
           /\ s # "cut"
           /\ s = "serving" => Api = "serve"
  BY DEF RequestArrives, RequestAnswered, RequestStates, Api
<1>2. UNCHANGED <<cancelled, at, shutdown, exited>> /\ Api' = Api
  BY DEF RequestArrives, RequestAnswered, Api
<1>3. LifeTypeOK'
  BY <1>1, <1>2 DEF LifeInv, LifeTypeOK
<1>4. ServedByServer'
  BY <1>1, <1>2 DEF LifeInv, LifeTypeOK, ServedByServer
<1>5. ClosedForGood'
  BY <1>2 DEF LifeInv, ClosedForGood
<1>6. CutByExit' /\ CutOnlyWhileDraining'
  BY <1>1, <1>2 DEF LifeInv, LifeTypeOK, CutByExit, CutOnlyWhileDraining
<1> QED
  BY <1>3, <1>4, <1>5, <1>6 DEF LifeInv

\* srv.Shutdown is called, and returns.
LEMMA ShutdownInv ==
    ASSUME LifeInv, ShutdownStarts \/ ShutdownFinishes
    PROVE  LifeInv'
<1>1. CASE ShutdownStarts
  <2>1. LifeTypeOK' /\ Api' = "done"
    BY <1>1, ApiWorker DEF LifeInv, LifeTypeOK, ShutdownStarts, Api
  <2> QED
    BY <1>1, <2>1 DEF LifeInv, ServedByServer, ClosedForGood, CutByExit,
                      CutOnlyWhileDraining, ShutdownStarts
<1>2. CASE ShutdownFinishes
  <2>1. LifeTypeOK' /\ Api' = Api
    BY <1>2 DEF LifeInv, LifeTypeOK, ShutdownFinishes, Api
  <2>2. \A r \in Requests : request[r] # "serving" /\ request[r] # "cut"
    BY <1>2 DEF LifeInv, CutByExit, ShutdownFinishes
  <2> QED
    BY <1>2, <2>1, <2>2 DEF LifeInv, ServedByServer, ClosedForGood, CutByExit,
                            CutOnlyWhileDraining, ShutdownFinishes
<1> QED
  BY <1>1, <1>2

\* main returns: every worker has returned, so what is still served is drained.
LEMMA ExitInv ==
    ASSUME LifeInv, Exit
    PROVE  LifeInv'
<1>1. Api = "done" /\ Api' = "done"
  BY ApiWorker DEF Exit, Api
<1>2. LifeTypeOK'
  BY DEF LifeInv, LifeTypeOK, RequestStates, Exit
<1>3. \A r \in Requests : request'[r] # "serving"
  BY DEF LifeInv, LifeTypeOK, Exit
<1>4. \A r \in Requests : request'[r] = "cut" => shutdown = "draining"
  BY <1>1 DEF LifeInv, LifeTypeOK, ServedByServer, CutOnlyWhileDraining, Exit
<1> QED
  BY <1>1, <1>2, <1>3, <1>4 DEF LifeInv, ServedByServer, ClosedForGood, CutByExit,
                                CutOnlyWhileDraining, Exit

\* Every step keeps the invariant.
LEMMA LifeStep == LifeInv /\ [Next]_vars => LifeInv'
<1>1. SUFFICES ASSUME LifeInv, [Next]_vars PROVE LifeInv'
  OBVIOUS
<1>2. ASSUME NEW w \in Workers, Moves(w) PROVE LifeInv'
  BY <1>1, <1>2, MovesInv
<1>3. ASSUME NEW r \in Requests, RequestArrives(r) \/ RequestAnswered(r)
      PROVE  LifeInv'
  BY <1>1, <1>3, RequestInv
<1>4. CASE ShutdownStarts \/ ShutdownFinishes
  BY <1>1, <1>4, ShutdownInv
<1>5. CASE Exit
  BY <1>1, <1>5, ExitInv
<1>6. CASE Cancel \/ UNCHANGED vars
  BY <1>1, <1>6 DEF Cancel, vars, LifeInv, LifeTypeOK, ServedByServer, ClosedForGood,
                    CutByExit, CutOnlyWhileDraining, Api
<1> QED
  BY <1>1, <1>2, <1>3, <1>4, <1>5, <1>6 DEF Next, Moves

\* Whatever the workers, and however many requests come while zaman-core stops
\* (core-go/main.go, api.go): a request that was being served is lost only
\* because main returned while srv.Shutdown still waited for it.
THEOREM StopCutsOnlyDraining == Spec => []CutOnlyWhileDraining
<1>1. LifeInv => CutOnlyWhileDraining
  BY DEF LifeInv
<1> QED
  BY LifeInit, LifeStep, <1>1, PTL DEF Spec
=============================================================================
