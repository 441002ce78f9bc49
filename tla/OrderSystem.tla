---------------------------- MODULE OrderSystem ----------------------------
(***************************************************************************)
(* The whole path of an order: the API's checkout and payment halves, the  *)
(* queue, and the workers.  The API and the workers are processes of their *)
(* own; they meet in the orders table and in the queue.                    *)
(***************************************************************************)
EXTENDS Checkout, Payment, Worker

vars == <<orders, queue, faults, checkoutVars, paymentVars, workerVars>>

Init ==
    /\ FaultsInit /\ OrdersInit /\ QueueInit
    /\ CheckoutInit /\ PaymentInit /\ WorkerInit

(* The API process is killed and restarted: its requests are gone, and     *)
(* what they committed stays.                                              *)
ApiCrash ==
    /\ Fault("crash")
    /\ DropRequests /\ DropPayments
    /\ UNCHANGED <<products, carts, rows, late, links, orders, queue, workerVars>>

Shopping == CheckoutStep /\ UNCHANGED <<paymentVars, workerVars>>
Paying == PaymentStep /\ UNCHANGED <<checkoutVars, workerVars>>
Working(w) == WorkerStep(w) /\ UNCHANGED <<checkoutVars, paymentVars>>
Queueing ==
    QueueStep /\ UNCHANGED <<orders, checkoutVars, paymentVars, workerVars>>

Next ==
    \/ Shopping
    \/ Paying
    \/ \E w \in Workers : Working(w)
    \/ Queueing
    \/ ApiCrash

Spec == Init /\ [][Next]_vars

(***************************************************************************)
(* Fairness.  A worker keeps running its loop, and is started again when   *)
(* it stopped; a webhook request runs to its end; payOS keeps calling for  *)
(* a link until it is answered; SQS ends visibility timeouts and redrives. *)
(* Nothing makes a customer shop, pay, or ask for a link.                  *)
(***************************************************************************)
Progress(w) ==
    \/ Stop(w) \/ Receive(w) \/ BackoffEnds(w) \/ Pick(w) \/ BatchDone(w)
    \/ Load(w) \/ Confirm(w) \/ Mail(w) \/ Delete(w) \/ Start(w)

Fairness ==
    /\ \A w \in Workers :
          WF_vars(Progress(w) /\ UNCHANGED <<checkoutVars, paymentVars>>)
    /\ \A h \in Hooks : WF_vars(HookStep(h) /\ UNCHANGED <<checkoutVars, workerVars>>)
    /\ \A l \in LinkIds :
          WF_vars((\E h \in Hooks : Deliver(h, l)) /\ UNCHANGED <<checkoutVars, workerVars>>)
    /\ \A m \in MsgIds :
          WF_vars(/\ VisibilityTimeout(m) \/ Redrive(m)
                  /\ UNCHANGED <<orders, checkoutVars, paymentVars, workerVars>>)

FairSpec == Spec /\ Fairness

(***************************************************************************)
(* Properties                                                              *)
(***************************************************************************)

(* An order's row: its items are cart lines, its link is one of payOS's. *)
Order == [user : Users, status : {"pending", "confirmed"},
          payment : {"pending", "paid"}, total : Nat,
          link : LinkIds \cup {0}, items : SUBSET OrderLine]

(* Every variable has its type, in every component of the system. *)
TypeOK ==
    /\ FaultsTypeOK /\ QueueTypeOK
    /\ CheckoutTypeOK /\ PaymentTypeOK /\ WorkerTypeOK
    /\ orders \in [OrderIds -> Order \cup {NoOrder}]

(* The order a worker confirms has been paid for: no ORDER_PAID message, no *)
(* redelivery, crash or second worker gets an order to confirmed before     *)
(* HandlePayOSWebhook has written paid.                                     *)
PaidBeforeConfirmed == \A o \in OrderIds : Confirmed(o) => Paid(o)

=============================================================================
