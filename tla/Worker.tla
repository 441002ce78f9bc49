------------------------------- MODULE Worker -------------------------------
(***************************************************************************)
(* The worker process: a loop that receives a batch of messages, handles   *)
(* one after the other, and deletes a message only after its handler       *)
(* succeeded.  Several workers may run against the same queue.             *)
(***************************************************************************)
EXTENDS Orders, Sqs, FiniteSets

CONSTANTS
    Workers,       \* worker processes
    MaxBatch,      \* how many messages one receive returns at most
    Undeliverable  \* users whose address the mail client refuses

ASSUME WorkerAssumption ==
    /\ MaxBatch \in Nat \ {0}
    /\ Undeliverable \subseteq Users

VARIABLES
    wpc,           \* where each worker is
    batch,         \* the receipts of its batch it has still to handle
    cur,           \* the receipt it is handling
    shutdown,      \* it was told to stop
    placedMails,   \* history: orders whose confirmation was mailed
    paidMails      \* history: order -> worker -> payment mails sent

workerVars == <<wpc, batch, cur, shutdown, placedMails, paidMails>>

Pcs == {"stopped", "poll", "backoff", "next", "load", "confirm", "mail", "delete"}

NoReceipt == [msg |-> 0, receive |-> 0]

WorkerTypeOK ==
    /\ wpc \in [Workers -> Pcs]
    /\ batch \in [Workers -> SUBSET Receipt]
    /\ cur \in [Workers -> Receipt \cup {NoReceipt}]
    /\ shutdown \in [Workers -> BOOLEAN]
    /\ placedMails \in SUBSET OrderIds
    /\ paidMails \in [OrderIds -> [Workers -> Nat]]

CurType(w) == queue[cur[w].msg].type
CurOrder(w) == queue[cur[w].msg].order

WGoTo(w, pc) == wpc' = [wpc EXCEPT ![w] = pc]

(* The message is done with, one way or the other: on to the next. *)
DoneWith(w) ==
    /\ WGoTo(w, "next")
    /\ cur' = [cur EXCEPT ![w] = NoReceipt]

(***************************************************************************)
(* Run: the poll loop.  The shutdown signal is looked at between batches   *)
(* and during the backoff, nowhere else.                                   *)
(***************************************************************************)
Stop_InBackoff(w) ==                  \* a variant: the loop does not look
    /\ shutdown[w]
    /\ wpc[w] = "backoff"
    /\ WGoTo(w, "stopped")
    /\ UNCHANGED <<batch, cur, shutdown, placedMails, paidMails, orders, queue, faults>>

Stop(w) ==
    /\ shutdown[w]
    /\ wpc[w] \in {"poll", "backoff"}
    /\ WGoTo(w, "stopped")
    /\ UNCHANGED <<batch, cur, shutdown, placedMails, paidMails, orders, queue, faults>>

Batches == {B \in SUBSET Receivable : B # {} /\ Cardinality(B) <= MaxBatch}

Receive(w) ==
    /\ wpc[w] = "poll"
    /\ ~ shutdown[w]
    /\ \E B \in Batches :
        /\ HandOut(B)
        /\ batch' = [batch EXCEPT ![w] = ReceiptsOf(B)]
    /\ WGoTo(w, "next")
    /\ NoFault
    /\ UNCHANGED <<cur, shutdown, placedMails, paidMails, orders>>

(* A long poll that ends with nothing. *)
EmptyReceive(w) ==
    /\ wpc[w] = "poll"
    /\ ~ shutdown[w]
    /\ UNCHANGED <<workerVars, orders, queue, faults>>

ReceiveFails(w) ==
    /\ wpc[w] = "poll"
    /\ ~ shutdown[w]
    /\ UNCHANGED queue \/ \E B \in Batches : HandOut(B)
    /\ WGoTo(w, "backoff")
    /\ Fault("receive")
    /\ UNCHANGED <<batch, cur, shutdown, placedMails, paidMails, orders>>

BackoffEnds_Never(w) == FALSE         \* a variant: no timer in the select

BackoffEnds(w) ==
    /\ wpc[w] = "backoff"
    /\ WGoTo(w, "poll")
    /\ UNCHANGED <<batch, cur, shutdown, placedMails, paidMails, orders, queue, faults>>

(***************************************************************************)
(* processOnce: the next message of the batch, by what its body is         *)
(***************************************************************************)
AfterPick(type) ==
    CASE type \in Events -> "load"
      [] type = "NIL" -> "next"                      \* skipped, not deleted
      [] type \in {"MALFORMED", "UNKNOWN"} -> "delete"

Pick(w) ==
    /\ wpc[w] = "next"
    /\ \E r \in batch[w] :
        /\ batch' = [batch EXCEPT ![w] = @ \ {r}]
        /\ WGoTo(w, AfterPick(queue[r.msg].type))
        /\ cur' = [cur EXCEPT ![w] = IF queue[r.msg].type = "NIL" THEN NoReceipt ELSE r]
    /\ UNCHANGED <<shutdown, placedMails, paidMails, orders, queue, faults>>

BatchDone(w) ==
    /\ wpc[w] = "next"
    /\ batch[w] = {}
    /\ WGoTo(w, "poll")
    /\ UNCHANGED <<batch, cur, shutdown, placedMails, paidMails, orders, queue, faults>>

(***************************************************************************)
(* handleOrderPlaced and handleOrderPaid                                   *)
(***************************************************************************)

HandlerFails_Deletes(w) == WGoTo(w, "delete") /\ UNCHANGED cur   \* a variant

(* The handler failed: the message is left for SQS to deliver again. *)
HandlerFails(w) == DoneWith(w)

AlreadyHandled_Never(w) == FALSE      \* a variant: no guard
AlreadyHandled_Paid(w) == CurType(w) = "ORDER_PAID" /\ Paid(CurOrder(w))

(* Idempotency guard of handleOrderPaid; handleOrderPlaced has none. *)
AlreadyHandled(w) == CurType(w) = "ORDER_PAID" /\ Confirmed(CurOrder(w))

FirstStep_Mail(type) == "mail"        \* a variant: nothing is confirmed

(* handleOrderPaid confirms before it mails; handleOrderPlaced only mails. *)
FirstStep(type) == IF type = "ORDER_PAID" THEN "confirm" ELSE "mail"

Load(w) ==
    /\ wpc[w] = "load"
    /\ \/ /\ WGoTo(w, IF AlreadyHandled(w) THEN "delete" ELSE FirstStep(CurType(w)))
          /\ NoFault
          /\ UNCHANGED cur
       \/ HandlerFails(w) /\ Fault("dbread")
    /\ UNCHANGED <<batch, shutdown, placedMails, paidMails, orders, queue>>

Confirm(w) ==
    /\ wpc[w] = "confirm"
    /\ \/ /\ SetConfirmed(CurOrder(w))
          /\ WGoTo(w, "mail")
          /\ NoFault
          /\ UNCHANGED cur
       \/ /\ UNCHANGED orders \/ SetConfirmed(CurOrder(w))
          /\ HandlerFails(w)
          /\ Fault("dbwrite")
    /\ UNCHANGED <<batch, shutdown, placedMails, paidMails, queue>>

(* One mail goes out to the order's customer. *)
SendEmail(w) ==
    IF CurType(w) = "ORDER_PAID"
    THEN /\ paidMails' = [paidMails EXCEPT ![CurOrder(w)][w] = @ + 1]
         /\ UNCHANGED placedMails
    ELSE /\ placedMails' = placedMails \cup {CurOrder(w)}
         /\ UNCHANGED paidMails

(* An address that does not validate fails every time; a delivery error    *)
(* may be reported for a mail that went out.                               *)
Mail(w) ==
    /\ wpc[w] = "mail"
    /\ \/ /\ orders[CurOrder(w)].user \notin Undeliverable
          /\ SendEmail(w)
          /\ WGoTo(w, "delete")
          /\ NoFault
          /\ UNCHANGED cur
       \/ /\ orders[CurOrder(w)].user \in Undeliverable
          /\ HandlerFails(w)
          /\ NoFault
          /\ UNCHANGED <<placedMails, paidMails>>
       \/ /\ orders[CurOrder(w)].user \notin Undeliverable
          /\ UNCHANGED <<placedMails, paidMails>> \/ SendEmail(w)
          /\ HandlerFails(w)
          /\ Fault("email")
    /\ UNCHANGED <<batch, shutdown, orders, queue>>

(* deleteQuietly: a failure is logged, the message will come back. *)
Delete(w) ==
    /\ wpc[w] = "delete"
    /\ \/ DeleteMessage(cur[w]) /\ NoFault
       \/ Fault("delete") /\ (UNCHANGED queue \/ DeleteMessage(cur[w]))
    /\ DoneWith(w)
    /\ UNCHANGED <<batch, shutdown, placedMails, paidMails, orders>>

(***************************************************************************)
(* The process itself                                                      *)
(***************************************************************************)
Signal(w) ==
    /\ wpc[w] # "stopped"
    /\ ~ shutdown[w]
    /\ shutdown' = [shutdown EXCEPT ![w] = TRUE]
    /\ Fault("signal")
    /\ UNCHANGED <<wpc, batch, cur, placedMails, paidMails, orders, queue>>

Crash(w) ==
    /\ wpc[w] # "stopped"
    /\ WGoTo(w, "stopped")
    /\ batch' = [batch EXCEPT ![w] = {}]
    /\ cur' = [cur EXCEPT ![w] = NoReceipt]
    /\ Fault("crash")
    /\ UNCHANGED <<shutdown, placedMails, paidMails, orders, queue>>

Start(w) ==
    /\ wpc[w] = "stopped"
    /\ WGoTo(w, "poll")
    /\ shutdown' = [shutdown EXCEPT ![w] = FALSE]
    /\ UNCHANGED <<batch, cur, placedMails, paidMails, orders, queue, faults>>

WorkerInit ==
    /\ wpc = [w \in Workers |-> "stopped"]
    /\ batch = [w \in Workers |-> {}]
    /\ cur = [w \in Workers |-> NoReceipt]
    /\ shutdown = [w \in Workers |-> FALSE]
    /\ placedMails = {}
    /\ paidMails = [o \in OrderIds |-> [w \in Workers |-> 0]]

(* What a worker does by itself, without the outside failing it. *)
WorkerStep(w) ==
    \/ Stop(w) \/ Receive(w) \/ EmptyReceive(w) \/ ReceiveFails(w) \/ BackoffEnds(w)
    \/ Pick(w) \/ BatchDone(w)
    \/ Load(w) \/ Confirm(w) \/ Mail(w) \/ Delete(w)
    \/ Signal(w) \/ Crash(w) \/ Start(w)

(***************************************************************************)
(* Properties                                                              *)
(***************************************************************************)
(* A worker that deleted an event has done its work: the order of an        *)
(* ORDER_PAID is confirmed, the customer of an ORDER_PLACED has the mail.   *)
DeletedMeansDone ==
    \A m \in MsgIds : queue[m].state = "deleted" =>
        /\ queue[m].type = "ORDER_PAID" => Confirmed(queue[m].order)
        /\ queue[m].type = "ORDER_PLACED" => queue[m].order \in placedMails

(* One worker process, restarted and fed duplicates as it may be, mails     *)
(* "payment received" for an order at most once.                            *)
OncePerWorker == \A o \in OrderIds, w \in Workers : paidMails[o][w] <= 1

(* A deleted ORDER_PAID left no work undone: the customer was mailed.       *)
DeletedMeansMailed ==
    \A m \in MsgIds :
        (queue[m].state = "deleted" /\ queue[m].type = "ORDER_PAID") =>
            \E w \in Workers : paidMails[queue[m].order][w] > 0

(* A published ORDER_PAID is never just lost: its order gets confirmed, or  *)
(* the message ends in the dead-letter queue for somebody to look at.       *)
PaidGetsConfirmed ==
    \A m \in MsgIds, o \in OrderIds :
        IsEvent(m, "ORDER_PAID", o) ~> (Confirmed(o) \/ queue[m].state = "dead")

(* No message stays in the queue for ever, poison or not. *)
QueueDrains == \A m \in MsgIds : Sent(m) ~> Settled(m)

(* A worker that was told to stop does stop. *)
ShutdownEnds == \A w \in Workers : shutdown[w] ~> ~ shutdown[w]
=============================================================================
