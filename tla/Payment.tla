------------------------------ MODULE Payment ------------------------------
(***************************************************************************)
(* The paying half of the API: CreatePaymentLink, and the webhook payOS    *)
(* calls when a customer has paid; with them payOS itself, as far as the   *)
(* code relies on it.  payOS repeats a webhook until it is answered 2xx,   *)
(* and may run several calls at once.                                      *)
(***************************************************************************)
EXTENDS Orders, Sqs, Money

CONSTANTS
    PayReqs,      \* concurrent CreatePaymentLink requests
    Hooks,        \* concurrent webhook requests
    MaxLinks,     \* bound: payment links payOS ever issues
    Slips         \* by how many dong a customer may get the amount wrong

ASSUME PaymentAssumption ==
    /\ MaxLinks \in Nat
    /\ Slips \subseteq Int

VARIABLES
    links,        \* payOS: link id -> payment link
    pay,          \* CreatePaymentLink requests
    hook          \* webhook requests

paymentVars == <<links, pay, hook>>

LinkIds == 1 .. MaxLinks

(* A link is open until the customer pays, paid until payOS has seen its   *)
(* webhook answered 2xx, then acked.  asked and got are in dong.           *)
PaymentLink == [state : {"none", "open", "paid", "acked"},
                order : OrderIds \cup {0}, asked : Int, got : Int]
NoLink == [state |-> "none", order |-> 0, asked |-> 0, got |-> 0]

PayReq == [pc : {"idle", "call", "save"}, order : OrderIds \cup {0},
           asked : Int, link : LinkIds \cup {0}]
IdlePay == [pc |-> "idle", order |-> 0, asked |-> 0, link |-> 0]

(* link = 0 is the ping for an order that does not exist. *)
HookReq == [pc : {"idle", "load", "credit", "publish", "answer"},
            link : LinkIds \cup {0}]
IdleHook == [pc |-> "idle", link |-> 0]

PaymentTypeOK ==
    /\ links \in [LinkIds -> PaymentLink]
    /\ pay \in [PayReqs -> PayReq]
    /\ hook \in [Hooks -> HookReq]

(***************************************************************************)
(* CreatePaymentLink                                                       *)
(***************************************************************************)

(* The order is loaded and checked: its owner asks, and it is not paid. *)
RequestLink(t, o, u) ==
    /\ pay[t].pc = "idle"
    /\ Exists(o)
    /\ orders[o].user = u
    /\ ~ Paid(o)
    /\ pay' = [pay EXCEPT ![t] = [pc |-> "call", order |-> o, link |-> 0,
                                  asked |-> Dong(orders[o].total)]]
    /\ UNCHANGED <<links, hook, orders, queue, faults>>

NextLink(l) ==
    /\ l \in LinkIds
    /\ links[l].state = "none"
    /\ \A k \in LinkIds : k < l => links[k].state # "none"

IssueLink(l, o, asked) ==
    links' = [links EXCEPT ![l] = [state |-> "open", order |-> o,
                                   asked |-> asked, got |-> 0]]

(* The HTTP call to payOS.  When it fails, or payOS refuses the order      *)
(* code, a link may exist all the same.                                    *)
CallPayOS(t) ==
    /\ pay[t].pc = "call"
    /\ \E l \in LinkIds :
        /\ NextLink(l)
        /\ \/ /\ IssueLink(l, pay[t].order, pay[t].asked)
              /\ pay' = [pay EXCEPT ![t].pc = "save", ![t].link = l]
              /\ NoFault
           \/ /\ UNCHANGED links \/ IssueLink(l, pay[t].order, pay[t].asked)
              /\ pay' = [pay EXCEPT ![t] = IdlePay]
              /\ Fault("payos")
    /\ UNCHANGED <<hook, orders, queue>>

(* payment_intent_id is saved; a failure is only logged. *)
SaveLink(t) ==
    /\ pay[t].pc = "save"
    /\ \/ SetLink(pay[t].order, pay[t].link) /\ NoFault
       \/ Fault("dbwrite") /\ (UNCHANGED orders \/ SetLink(pay[t].order, pay[t].link))
    /\ pay' = [pay EXCEPT ![t] = IdlePay]
    /\ UNCHANGED <<links, hook, queue>>

(***************************************************************************)
(* payOS: the customer pays, and the webhook is called and called again    *)
(***************************************************************************)
Transfer(l, slip) ==
    /\ links[l].state = "open"
    /\ links' = [links EXCEPT ![l].state = "paid", ![l].got = links[l].asked - slip]
    /\ UNCHANGED <<pay, hook, orders, queue, faults>>

Deliver(h, l) ==
    /\ hook[h].pc = "idle"
    /\ links[l].state = "paid"
    /\ hook' = [hook EXCEPT ![h] = [pc |-> "load", link |-> l]]
    /\ UNCHANGED <<links, pay, orders, queue, faults>>

Ping(h) ==
    /\ hook[h].pc = "idle"
    /\ hook' = [hook EXCEPT ![h] = [pc |-> "load", link |-> 0]]
    /\ Fault("ping")
    /\ UNCHANGED <<links, pay, orders, queue>>

(***************************************************************************)
(* HandlePayOSWebhook, after the signature was found good                  *)
(***************************************************************************)
HookGoTo(h, pc) == hook' = [hook EXCEPT ![h].pc = pc]
HookOrder(h) == links[hook[h].link].order

AmountMatches_AtMost(l) ==            \* a variant: an underpayment passes
    links[l].got <= Dong(orders[links[l].order].total)

(* Guard against amount mismatch. *)
AmountMatches(l) == links[l].got = Dong(orders[links[l].order].total)

Creditable_OnceOnly(h) ==             \* a variant: a paid order needs no webhook
    hook[h].link # 0 /\ AmountMatches(hook[h].link) /\ ~ Paid(HookOrder(h))

(* The webhook is about an order that exists, and the amount is right. *)
Creditable(h) == hook[h].link # 0 /\ AmountMatches(hook[h].link)

(* Whatever the lookup's error is, the webhook is answered 200, as it is   *)
(* for an unknown order and for a wrong amount.                            *)
HookLoad(h) ==
    /\ hook[h].pc = "load"
    /\ \/ /\ Creditable(h)
          /\ HookGoTo(h, "credit")
          /\ NoFault
       \/ /\ ~ Creditable(h)
          /\ HookGoTo(h, "answer")
          /\ NoFault
       \/ /\ HookGoTo(h, "answer")
          /\ Fault("dbread")
    /\ UNCHANGED <<links, pay, orders, queue>>

CreditFails_Answers200(h) == HookGoTo(h, "answer")   \* a variant
CreditFails_Publishes(h) == HookGoTo(h, "publish")   \* a variant

(* The error is answered 400: payOS will come back.                        *)
CreditFails(h) == hook' = [hook EXCEPT ![h] = IdleHook]

(* The order is marked paid. *)
HookCredit(h) ==
    /\ hook[h].pc = "credit"
    /\ \/ /\ SetPaid(HookOrder(h))
          /\ HookGoTo(h, IF SqsEnabled THEN "publish" ELSE "answer")
          /\ NoFault
       \/ /\ UNCHANGED orders \/ SetPaid(HookOrder(h))
          /\ CreditFails(h)
          /\ Fault("dbwrite")
    /\ UNCHANGED <<links, pay, queue>>

HookPublish(h) ==
    /\ hook[h].pc = "publish"
    /\ PublishOrderEvent("ORDER_PAID", HookOrder(h))
    /\ HookGoTo(h, "answer")
    /\ UNCHANGED <<links, pay, orders>>

(* 200: payOS takes the webhook off its list, unless the answer is lost. *)
HookAnswer(h) ==
    /\ hook[h].pc = "answer"
    /\ hook' = [hook EXCEPT ![h] = IdleHook]
    /\ \/ /\ links' = [l \in LinkIds |->
                          IF l = hook[h].link THEN [links[l] EXCEPT !.state = "acked"]
                                              ELSE links[l]]
          /\ NoFault
       \/ Fault("reply") /\ UNCHANGED links
    /\ UNCHANGED <<pay, orders, queue>>

PaymentInit ==
    /\ links = [l \in LinkIds |-> NoLink]
    /\ pay = [t \in PayReqs |-> IdlePay]
    /\ hook = [h \in Hooks |-> IdleHook]

LinkStep(t) ==
    \/ \E o \in OrderIds, u \in Users : RequestLink(t, o, u)
    \/ CallPayOS(t) \/ SaveLink(t)

HookStep(h) == HookLoad(h) \/ HookCredit(h) \/ HookPublish(h) \/ HookAnswer(h)

DropPayments ==
    /\ pay' = [t \in PayReqs |-> IdlePay]
    /\ hook' = [h \in Hooks |-> IdleHook]

PaymentStep ==
    \/ \E t \in PayReqs : LinkStep(t)
    \/ \E l \in LinkIds, slip \in Slips : Transfer(l, slip)
    \/ \E h \in Hooks, l \in LinkIds : Deliver(h, l)
    \/ \E h \in Hooks : Ping(h) \/ HookStep(h)

(***************************************************************************)
(* Properties                                                              *)
(***************************************************************************)
(* The order's amount was transferred on one of its own links. *)
SettledBy(o) ==
    \E l \in LinkIds : /\ links[l].state \in {"paid", "acked"}
                       /\ links[l].order = o
                       /\ links[l].got = Dong(orders[o].total)

(* An order is paid only when the customer transferred exactly the amount   *)
(* of the order on one of its own links, whatever webhooks were repeated,   *)
(* crossed or concerned somebody else's order.                              *)
PaidOnlyIfSettled ==
    \A o \in OrderIds : Paid(o) => SettledBy(o)

(* What was transferred on a link, less what its order's lines cost.       *)
OffBy(l) == 1000 * links[l].got - SumOfLines(orders[links[l].order].items)

(* What a paid order brought in, in mills, differs from the sum of its      *)
(* lines by no more than the two roundings of PlaceOrder and of             *)
(* CreatePaymentLink can make.                                              *)
PaidAmountCoversItems ==
    \A l \in LinkIds :
        (links[l].state = "acked" /\ AmountMatches(l) /\ Paid(links[l].order)) =>
            OffBy(l) \in -505 .. 505

(* Once payOS has its 200 for a transfer of the right amount, the order is  *)
(* paid: no more webhook will come for it.                                  *)
AckedMeansPaid ==
    \A l \in LinkIds :
        (links[l].state = "acked" /\ AmountMatches(l)) => Paid(links[l].order)

Told(o) == \E m \in MsgIds : IsEvent(m, "ORDER_PAID", o)

(* Once payOS has its 200 for a transfer of the right amount, ORDER_PAID    *)
(* was sent for the order: when the API dies between the write of paid and  *)
(* the publish, payOS calls again, and HandlePayOSWebhook publishes for an  *)
(* order that is paid already.  It holds where SendMessage works: a publish *)
(* that fails is answered 200 all the same.                                 *)
AckedMeansTold ==
    \A l \in LinkIds :
        (links[l].state = "acked" /\ AmountMatches(l)) => Told(links[l].order)

(* A customer who transferred the right amount ends with a paid order.      *)
SettledGetsPaid == \A o \in OrderIds : SettledBy(o) ~> Paid(o)
=============================================================================
