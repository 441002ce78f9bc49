---------------------------- MODULE MCProcesses -----------------------------
(***************************************************************************)
(* The two kinds of process, for TLC: how workers go on, stop and start    *)
(* again, and how the API process does.  The worker meets requests of the  *)
(* API only as what they leave in the database and in the queue, which is  *)
(* OrderSystem's; when the API process starts and stops is Server's.  Each *)
(* of the two is explored with the other at rest.                          *)
(***************************************************************************)
EXTENDS MCOrderSystem, Server

CONSTANT OrderFaults  \* bound: failures while the workers are explored

VARIABLE part         \* the one that is explored

apiVars ==
    <<env, clients, main, quit, listener, request, exit, cut, early, disturbed>>
systemVars == <<orders, queue, checkoutVars, paymentVars, workerVars>>

StartsToPoll == (\E w \in Workers : Start(w)) /\ UNCHANGED <<checkoutVars, paymentVars>>

PartsInit ==
    /\ part \in {"orders", "server"}
    /\ Init /\ ServerInit

PartsNext ==
    \/ /\ part = "orders" /\ Next
       /\ faults' <= OrderFaults
       /\ UNCHANGED <<part, apiVars>>
    \/ part = "server" /\ ServerNext /\ UNCHANGED <<part, systemVars>>
    \/ part = "server" /\ StartsToPoll /\ UNCHANGED <<part, apiVars>>

(* A server that is off asks for nothing, and neither do workers that poll *)
(* an empty queue: the fairness of the one at rest is no condition.        *)
PartsSpec ==
    /\ PartsInit /\ [][PartsNext]_<<vars, apiVars, part>>
    /\ Fairness /\ ServerFairness
=============================================================================
