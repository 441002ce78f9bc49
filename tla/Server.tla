------------------------------- MODULE Server -------------------------------
(***************************************************************************)
(* The API process: configuration, database and migrations, routes, the    *)
(* goroutine that listens, and the main goroutine that waits for a signal  *)
(* and then drains.  Whoever runs it starts it again when it has ended,    *)
(* possibly with another environment.                                      *)
(***************************************************************************)
EXTENDS Faults

CONSTANTS
    Required,     \* environment variables the process cannot do without
    Optional,     \* those that switch a service on: S3, SQS, payOS
    Connections   \* connections to the server

VARIABLES
    env,          \* the environment variables that are set
    clients,      \* the optional services that there is a client of
    main,         \* where the main goroutine is
    quit,         \* is a signal in the channel
    listener,     \* the socket of the goroutine that listens
    request,      \* connection -> the request on it
    exit,         \* history: how the last process ended
    cut,          \* history: the requests it left without an answer
    early,        \* history: this process was told to stop before it listened
    disturbed     \* history: a signal reached this process, or a call of it failed

serverVars == <<env, clients, main, quit, listener, request, exit, cut, early, disturbed, faults>>
history == <<exit, cut, early>>

InHand == {c \in Connections : request[c] = "handling"}

(* The process ends, and its requests with it. *)
Ends(how) ==
    /\ main' = "off" /\ exit' = how
    /\ cut' = InHand
    /\ request' = [c \in Connections |-> "none"]
    /\ listener' = "none" /\ quit' = FALSE /\ clients' = {}
    /\ UNCHANGED <<env, early>>

(* A call fails, and the process ends with exit code 1. *)
FailsByFault(kind) == Fault(kind) /\ Ends("failed") /\ disturbed' = TRUE

Goes(from, to) ==
    /\ main = from /\ main' = to
    /\ NoFault
    /\ UNCHANGED <<env, request, history, disturbed>>

(***************************************************************************)
(* The start                                                               *)
(***************************************************************************)
StartServer ==
    /\ main = "off" /\ main' = "setup"
    /\ env' \in SUBSET (Required \cup Optional)
    /\ exit' = "none" /\ cut' = {} /\ early' = FALSE /\ disturbed' = FALSE
    /\ UNCHANGED <<clients, quit, listener, request, faults>>

Sufficient_All == Required \cup Optional \subseteq env    \* a variant

(* Only the variables for the address, the database, the tokens and the    *)
(* mail are looked for.                                                    *)
Sufficient == Required \subseteq env

(* A client of an optional service that cannot be made is left out like    *)
(* one that is not configured.                                             *)
Configured == env \cap Optional

SetupEnv ==
    \/ /\ Goes("setup", "connect")
       /\ Sufficient
       /\ clients' = Configured
       /\ UNCHANGED <<quit, listener>>
    \/ /\ main = "setup" /\ main' = "connect"
       /\ Sufficient
       /\ \E s \in Configured : clients' = Configured \ {s}
       /\ Fault("client")
       /\ UNCHANGED <<env, quit, listener, request, history, disturbed>>
    \/ /\ main = "setup"
       /\ ~ Sufficient
       /\ Ends("failed") /\ NoFault /\ UNCHANGED disturbed
    \/ main = "setup" /\ Sufficient /\ FailsByFault("client")

Connect ==
    \/ Goes("connect", "migrate") /\ UNCHANGED <<clients, quit, listener>>
    \/ main = "connect" /\ FailsByFault("dbread")

(* database.Up, whose steps are in the module Migrator. *)
Up ==
    \/ Goes("migrate", "wire") /\ UNCHANGED <<clients, quit, listener>>
    \/ main = "migrate" /\ FailsByFault("dbwrite")

(* The routes, signal.Notify, and the goroutine that is to listen. *)
Notify ==
    /\ Goes("wire", "waiting")
    /\ listener' = "starting"
    /\ UNCHANGED <<clients, quit>>

(* The goroutine has a life of its own: it opens its socket when it gets   *)
(* to it.  A port that is taken, or a socket that breaks, ends everything. *)
Listen ==
    \/ /\ listener = "starting"
       /\ listener' = "open" /\ NoFault
       /\ UNCHANGED <<env, clients, main, quit, request, history, disturbed>>
    \/ listener \in {"starting", "open"} /\ FailsByFault("listen")

(***************************************************************************)
(* The requests                                                            *)
(***************************************************************************)
Accept(c) ==
    /\ listener = "open" /\ request[c] = "none"
    /\ request' = [request EXCEPT ![c] = "handling"]
    /\ UNCHANGED <<env, clients, main, quit, listener, history, disturbed, faults>>

Respond(c) ==
    /\ request[c] = "handling"
    /\ request' = [request EXCEPT ![c] = "none"]
    /\ UNCHANGED <<env, clients, main, quit, listener, history, disturbed, faults>>

(***************************************************************************)
(* The end                                                                 *)
(***************************************************************************)
Caught_Once == main = "waiting"       \* a variant: Notify is undone by the first signal

(* From signal.Notify on, a signal goes into the channel, which holds one; *)
(* more are dropped.  Before it, a signal ends the process.                *)
Caught == main \in {"waiting", "draining", "exiting"}

SignalServer ==
    /\ main # "off"
    /\ Fault("signal")
    /\ \/ /\ Caught
          /\ quit' = TRUE /\ disturbed' = TRUE
          /\ UNCHANGED <<env, clients, main, listener, request, history>>
       \/ ~ Caught /\ Ends("signal") /\ disturbed' = TRUE

(* The signal is read, and the shutdown closes the socket; if there is     *)
(* none yet, it has nothing to wait for.                                   *)
Shutdown ==
    /\ quit /\ quit' = FALSE
    /\ IF listener = "open"
       THEN Goes("waiting", "draining") /\ listener' = "closed"
       ELSE main = "waiting" /\ main' = "exiting" /\ early' = TRUE /\ NoFault
            /\ UNCHANGED <<env, listener, request, exit, cut, disturbed>>
    /\ UNCHANGED clients

Drained_Anyway == TRUE                \* a variant: Shutdown does not wait

Drained == InHand = {}

Drain == Drained /\ Goes("draining", "exiting") /\ UNCHANGED <<clients, quit, listener>>

TooLong_Never == FALSE                \* a variant: Shutdown has no timeout

(* Ten seconds are over, and a request is not. *)
TooLong == main = "draining" /\ InHand # {}

DrainTimeout ==
    /\ TooLong
    /\ Ends("timeout")
    /\ UNCHANGED <<disturbed, faults>>

(* main returns. *)
Exit ==
    /\ main = "exiting"
    /\ Ends("stopped")
    /\ UNCHANGED <<disturbed, faults>>

(* SIGKILL, or the machine goes down. *)
Kill == main # "off" /\ Fault("crash") /\ Ends("killed") /\ disturbed' = TRUE

ServerInit ==
    /\ FaultsInit
    /\ env = {} /\ clients = {}
    /\ main = "off" /\ quit = FALSE /\ listener = "none"
    /\ request = [c \in Connections |-> "none"]
    /\ exit = "none" /\ cut = {}
    /\ early = FALSE /\ disturbed = FALSE

Main == SetupEnv \/ Connect \/ Up \/ Notify \/ Shutdown \/ Drain \/ Exit

ServerNext ==
    \/ StartServer \/ Main \/ Listen \/ DrainTimeout \/ SignalServer \/ Kill
    \/ \E c \in Connections : Accept(c) \/ Respond(c)

(* Go runs a goroutine that is not blocked, and a timer goes off.  That a  *)
(* request is answered is not assumed: a handler has no timeout.           *)
ServerFairness == WF_serverVars(Main) /\ WF_serverVars(Listen) /\ WF_serverVars(DrainTimeout)

ServerSpec == ServerInit /\ [][ServerNext]_serverVars /\ ServerFairness

(***************************************************************************)
(* Properties                                                              *)
(***************************************************************************)

(* A process that stops on a signal has answered every request it accepted; *)
(* further signals do not cut the draining short.  The one exception is a   *)
(* signal that comes before the goroutine listens: the shutdown finds no    *)
(* socket to close, and the socket is opened after it.                      *)
StopsWithNothingInHand ==
    (exit \in {"stopped", "signal"} /\ cut # {}) => early

(* A signal ends the process, whether or not its requests do. *)
SignalEnds ==
    (quit \/ main = "draining") ~> (main = "off")

(* A process that has the required variables serves, with or without the    *)
(* optional services, unless something disturbs it: "Optional services      *)
(* start as nil - the server starts normally" (src/README.md:173).          *)
StartsWithoutOptional ==
    (main = "setup" /\ Required \subseteq env) ~> (listener = "open" \/ disturbed)
=============================================================================
