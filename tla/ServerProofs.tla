---------------------------- MODULE ServerProofs ----------------------------
(***************************************************************************)
(* That the API process stops with nothing in hand, for any environment    *)
(* and any number of connections, failures, signals and kills.             *)
(***************************************************************************)
EXTENDS Server, TLAPS

(* Where the process can be, and what it can have then: it is asked for    *)
(* nothing before it listens, it listens only once it can be told to stop, *)
(* and it leaves the draining with no request left.                        *)
ServerTypeOK ==
    /\ FaultsTypeOK
    /\ env \in SUBSET (Required \cup Optional)
    /\ clients \in SUBSET Optional
    /\ main \in {"off", "setup", "connect", "migrate", "wire", "waiting",
                 "draining", "exiting"}
    /\ quit \in BOOLEAN
    /\ listener \in {"none", "starting", "open", "closed"}
    /\ request \in [Connections -> {"none", "handling"}]
    /\ exit \in {"none", "failed", "signal", "timeout", "stopped", "killed"}
    /\ cut \in SUBSET Connections
    /\ early \in BOOLEAN /\ disturbed \in BOOLEAN

ServerInv ==
    /\ ServerTypeOK
    /\ StopsWithNothingInHand
    /\ main \in {"off", "setup", "connect", "migrate", "wire"} =>
           listener = "none" /\ InHand = {} /\ ~ quit
    /\ main = "waiting" => listener \in {"starting", "open"}
    /\ main = "draining" => listener = "closed"
    /\ (main = "exiting" /\ ~ early) => listener = "closed" /\ InHand = {}
    /\ main # "off" => exit = "none"
    /\ listener \in {"none", "starting"} => InHand = {}

LEMMA NobodyHandled ==
    [c \in Connections |-> "none"] \in [Connections -> {"none", "handling"}]
OBVIOUS

LEMMA ServerInvInit == ASSUME ServerInit PROVE ServerInv
<1>1. ServerTypeOK
  <2>1. FaultsTypeOK BY FaultsAssumption DEF ServerInit, FaultsInit, FaultsTypeOK
  <2>2. request \in [Connections -> {"none", "handling"}] BY NobodyHandled DEF ServerInit
  <2>3. QED BY <2>1, <2>2 DEF ServerInit, ServerTypeOK
<1>2. InHand = {} BY DEF ServerInit, InHand
<1>3. QED BY <1>1, <1>2 DEF ServerInit, ServerInv, StopsWithNothingInHand

(* However the process ends, it is off, with nothing open. *)
LEMMA EndsKeeps ==
    ASSUME ServerInv, NEW how \in {"failed", "signal", "timeout", "stopped", "killed"},
           Ends(how), FaultsTypeOK', disturbed' \in BOOLEAN,
           (how \in {"stopped", "signal"} /\ InHand # {}) => early
    PROVE  ServerInv'
<1>1. ServerTypeOK' BY NobodyHandled DEF ServerInv, ServerTypeOK, Ends, InHand
<1>2. InHand' = {} BY DEF Ends, InHand
<1>3. QED BY <1>1, <1>2 DEF ServerInv, Ends, StopsWithNothingInHand

LEMMA FaultTyped ==
    ASSUME FaultsTypeOK, NEW k, Fault(k) \/ UNCHANGED faults
    PROVE  FaultsTypeOK'
BY FaultsAssumption DEF FaultsTypeOK, Fault

(* A step of the main goroutine that ends nothing. *)
LEMMA HandlingKept == ASSUME UNCHANGED request PROVE InHand' = InHand
BY DEF InHand

LEMMA StartKeeps == ASSUME ServerInv, StartServer PROVE ServerInv'
BY HandlingKept DEF StartServer, ServerInv, ServerTypeOK, FaultsTypeOK, StopsWithNothingInHand

LEMMA FailureKeeps == ASSUME ServerInv, NEW k, FailsByFault(k) PROVE ServerInv'
<1>1. FaultsTypeOK' BY FaultTyped DEF FailsByFault, ServerInv, ServerTypeOK
<1>2. QED BY <1>1, EndsKeeps DEF FailsByFault

LEMMA SetupEnvKeeps == ASSUME ServerInv, SetupEnv PROVE ServerInv'
<1>1. FaultsTypeOK'
  BY FaultTyped DEF SetupEnv, Goes, NoFault, FailsByFault, ServerInv, ServerTypeOK
<1>2. CASE Ends("failed") /\ NoFault /\ UNCHANGED disturbed
  BY <1>1, <1>2, EndsKeeps DEF ServerInv, ServerTypeOK
<1>3. CASE FailsByFault("client") BY <1>3, FailureKeeps
<1>4. CASE /\ main = "setup" /\ main' = "connect" /\ clients' \in SUBSET Optional
           /\ UNCHANGED <<env, quit, listener, request, history, disturbed>>
  BY <1>1, <1>4, HandlingKept DEF ServerInv, ServerTypeOK, StopsWithNothingInHand, history
<1>5. QED BY <1>2, <1>3, <1>4 DEF SetupEnv, Goes, Configured

LEMMA MainKeeps == ASSUME ServerInv, Main PROVE ServerInv'
<1>1. CASE SetupEnv BY <1>1, SetupEnvKeeps
<1>2. CASE Connect \/ Up
  <2>1. FaultsTypeOK' BY <1>2, FaultTyped DEF Connect, Up, Goes, NoFault, FailsByFault, ServerInv, ServerTypeOK
  <2>2. CASE \E k : FailsByFault(k) BY <2>2, FailureKeeps
  <2>3. CASE /\ Goes("connect", "migrate") \/ Goes("migrate", "wire")
             /\ UNCHANGED <<clients, quit, listener>>
    BY <2>1, <2>3, HandlingKept
    DEF Goes, ServerInv, ServerTypeOK, StopsWithNothingInHand, history
  <2>4. QED BY <1>2, <2>2, <2>3 DEF Connect, Up
<1>3. CASE Notify
  BY <1>3, HandlingKept
  DEF Notify, Goes, NoFault, FaultsTypeOK, ServerInv, ServerTypeOK, StopsWithNothingInHand, history
<1>4. CASE Shutdown
  BY <1>4, HandlingKept
  DEF Shutdown, Goes, NoFault, FaultsTypeOK, ServerInv, ServerTypeOK, StopsWithNothingInHand, history
<1>5. CASE Drain
  BY <1>5, HandlingKept
  DEF Drain, Drained, Goes, NoFault, FaultsTypeOK, ServerInv, ServerTypeOK,
      StopsWithNothingInHand, history
<1>6. CASE Exit
  BY <1>6, EndsKeeps DEF Exit, ServerInv, ServerTypeOK, FaultsTypeOK
<1>7. QED BY <1>1, <1>2, <1>3, <1>4, <1>5, <1>6 DEF Main

LEMMA ListenKeeps == ASSUME ServerInv, Listen PROVE ServerInv'
<1>1. CASE FailsByFault("listen") BY <1>1, FailureKeeps
<1>2. CASE /\ listener = "starting" /\ listener' = "open" /\ NoFault
           /\ UNCHANGED <<env, clients, main, quit, request, history, disturbed>>
  BY <1>2, HandlingKept
  DEF NoFault, FaultsTypeOK, ServerInv, ServerTypeOK, StopsWithNothingInHand, history
<1>3. QED BY <1>1, <1>2 DEF Listen

LEMMA RequestKeeps ==
    ASSUME ServerInv, NEW c \in Connections, Accept(c) \/ Respond(c)
    PROVE  ServerInv'
<1>1. request' \in [Connections -> {"none", "handling"}]
  BY DEF Accept, Respond, ServerInv, ServerTypeOK
<1>2. InHand = {} => listener = "open" \/ UNCHANGED request
  BY DEF Accept, Respond, InHand
<1>3. Respond(c) => InHand' \subseteq InHand
  BY DEF Respond, InHand, ServerInv, ServerTypeOK
<1>4. QED
  BY <1>1, <1>3
  DEF Accept, Respond, FaultsTypeOK, ServerInv, ServerTypeOK, StopsWithNothingInHand, history

LEMMA SignalKeeps == ASSUME ServerInv, SignalServer PROVE ServerInv'
<1>1. FaultsTypeOK' BY FaultTyped DEF SignalServer, ServerInv, ServerTypeOK
<1>2. CASE ~ Caught /\ Ends("signal") /\ disturbed' = TRUE
  <2>1. InHand = {} BY <1>2 DEF SignalServer, Caught, ServerInv, ServerTypeOK
  <2>2. QED BY <1>1, <1>2, <2>1, EndsKeeps
<1>3. CASE /\ Caught /\ quit' = TRUE /\ disturbed' = TRUE
           /\ UNCHANGED <<env, clients, main, listener, request, history>>
  BY <1>1, <1>3, HandlingKept
  DEF Caught, ServerInv, ServerTypeOK, StopsWithNothingInHand, history
<1>4. QED BY <1>2, <1>3 DEF SignalServer

LEMMA ServerInvStep == ASSUME ServerInv, [ServerNext]_serverVars PROVE ServerInv'
<1>1. CASE StartServer BY <1>1, StartKeeps
<1>2. CASE Main BY <1>2, MainKeeps
<1>3. CASE Listen BY <1>3, ListenKeeps
<1>4. CASE DrainTimeout
  BY <1>4, EndsKeeps DEF DrainTimeout, ServerInv, ServerTypeOK, FaultsTypeOK
<1>5. CASE SignalServer BY <1>5, SignalKeeps
<1>6. CASE Kill
  <2>1. FaultsTypeOK' BY <1>6, FaultTyped DEF Kill, ServerInv, ServerTypeOK
  <2>2. QED BY <1>6, <2>1, EndsKeeps DEF Kill
<1>7. CASE \E c \in Connections : Accept(c) \/ Respond(c) BY <1>7, RequestKeeps
<1>8. CASE UNCHANGED serverVars
  BY <1>8, HandlingKept
  DEF serverVars, FaultsTypeOK, ServerInv, ServerTypeOK, StopsWithNothingInHand
<1>9. QED BY <1>1, <1>2, <1>3, <1>4, <1>5, <1>6, <1>7, <1>8 DEF ServerNext

(* Whatever fails and however often it is started again, the API process   *)
(* has its type, and ends by a signal only with every request answered, or *)
(* told to stop before it listened.                                        *)
THEOREM NothingInHand == ServerSpec => []StopsWithNothingInHand
<1>1. ServerInv => StopsWithNothingInHand BY DEF ServerInv
<1>2. QED BY <1>1, ServerInvInit, ServerInvStep, PTL DEF ServerSpec
=============================================================================
