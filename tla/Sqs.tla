-------------------------------- MODULE Sqs --------------------------------
(***************************************************************************)
(* The order-events queue: a standard SQS queue with a dead-letter queue,  *)
(* as the client in pkg/queue uses it.  Delivery is at least once and in   *)
(* any order.  A received message is hidden, not gone: it reappears when   *)
(* its visibility timeout runs out, however far its reader has got, and    *)
(* after MaxReceive receives it moves to the dead-letter queue.            *)
(*                                                                         *)
(* A receipt handle belongs to one receive of one message.  A delete with  *)
(* the handle of an earlier receive succeeds without promising that the    *)
(* message is gone.                                                        *)
(***************************************************************************)
EXTENDS Faults, Orders

CONSTANTS
    MaxMsgs,      \* bound: messages ever sent
    MaxReceive,   \* the redrive policy's maxReceiveCount
    SqsEnabled    \* the API has a queue configured (sqsClient is not nil)

ASSUME SqsAssumption ==
    /\ MaxMsgs \in Nat
    /\ MaxReceive \in Nat \ {0}
    /\ SqsEnabled \in BOOLEAN

VARIABLE queue    \* message id -> message

MsgIds == 1 .. MaxMsgs

(* ORDER_PLACED and ORDER_PAID are the two events the code publishes.  The *)
(* others are bodies only somebody else can have sent: an event type       *)
(* without a handler, a body that is not JSON, and no body at all.         *)
ForeignBodies == {"UNKNOWN", "MALFORMED", "NIL"}
Events == {"ORDER_PLACED", "ORDER_PAID"}

Message == [state : {"unsent", "visible", "inflight", "deleted", "dead"},
            type : Events \cup ForeignBodies,
            order : OrderIds \cup {0},
            receives : 0 .. MaxReceive]

Receipt == [msg : MsgIds, receive : 0 .. MaxReceive]

QueueTypeOK == queue \in [MsgIds -> Message]

Sent(m) == queue[m].state # "unsent"
Settled(m) == queue[m].state \in {"deleted", "dead"}
IsEvent(m, type, o) == Sent(m) /\ queue[m].type = type /\ queue[m].order = o

NextMsg(m) ==
    /\ m \in MsgIds
    /\ ~ Sent(m)
    /\ \A k \in MsgIds : k < m => Sent(k)

Enqueue(m, type, o) ==
    queue' = [queue EXCEPT ![m] = [state |-> "visible", type |-> type,
                                   order |-> o, receives |-> 0]]

(* PublishOrderEvent: one SendMessage.  On an error the caller cannot tell *)
(* whether the message was stored.                                         *)
PublishOrderEvent(type, o) ==
    \/ /\ \E m \in MsgIds : NextMsg(m) /\ Enqueue(m, type, o)
       /\ NoFault
    \/ /\ Fault("publish")
       /\ \/ UNCHANGED queue
          \/ \E m \in MsgIds : NextMsg(m) /\ Enqueue(m, type, o)

(* What a ReceiveMessage may return: any of the visible messages that have *)
(* receives left.                                                          *)
Receivable == {m \in MsgIds : /\ queue[m].state = "visible"
                              /\ queue[m].receives < MaxReceive}

(* The messages of B are handed out: hidden, and counted. *)
HandOut(B) ==
    queue' = [m \in MsgIds |->
        IF m \in B
        THEN [queue[m] EXCEPT !.state = "inflight", !.receives = @ + 1]
        ELSE queue[m]]

(* The receipts that come with them. *)
ReceiptsOf(B) == {[msg |-> m, receive |-> queue[m].receives + 1] : m \in B}

Current(r) == queue[r.msg].receives = r.receive

(* DeleteMessage by receipt handle.  The handle is of this queue, so it    *)
(* does not reach a message that was moved to the dead-letter queue.       *)
DeleteMessage(r) ==
    \/ /\ queue[r.msg].state # "dead"
       /\ queue' = [queue EXCEPT ![r.msg].state = "deleted"]
    \/ /\ ~ Current(r) \/ queue[r.msg].state = "dead"
       /\ UNCHANGED queue

(* The visibility timeout of m runs out. *)
VisibilityTimeout(m) ==
    /\ queue[m].state = "inflight"
    /\ queue' = [queue EXCEPT ![m].state = "visible"]
    /\ NoFault

(* The redrive policy moves m to the dead-letter queue. *)
Redrive(m) ==
    /\ queue[m].state = "visible"
    /\ queue[m].receives >= MaxReceive
    /\ queue' = [queue EXCEPT ![m].state = "dead"]
    /\ NoFault

(* A body that no publisher of this program sends. *)
ForeignMessage(body) ==
    /\ Fault("foreign")
    /\ \E m \in MsgIds : NextMsg(m) /\ Enqueue(m, body, 0)

QueueInit ==
    queue = [m \in MsgIds |-> [state |-> "unsent", type |-> "NIL",
                               order |-> 0, receives |-> 0]]

QueueStep ==
    \/ \E m \in MsgIds : VisibilityTimeout(m) \/ Redrive(m)
    \/ \E body \in ForeignBodies : ForeignMessage(body)
=============================================================================
