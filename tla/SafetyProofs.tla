---------------------------- MODULE SafetyProofs ----------------------------
(***************************************************************************)
(* The safety properties of an order from the cart through payment, queue  *)
(* and workers, and that the system implements OrderLifecycle and, for     *)
(* users with one tab each, AtomicCheckout, for all values of the          *)
(* constants: any number of customers, tabs, links, concurrent webhooks,   *)
(* messages, redeliveries, workers, crashes and failures.  Four theorems   *)
(* allow less than that, and say so.                                       *)
(*                                                                         *)
(* The first part says once what a step can do to an order's columns and   *)
(* to the queue.  Each property then has its inductive invariant, taken    *)
(* from OrderInvariants, and needs only a look at the steps that write     *)
(* what it speaks of.                                                      *)
(***************************************************************************)
EXTENDS TypingProofs

(***************************************************************************)
(* What a step does to the orders table                                    *)
(***************************************************************************)

(* The only statements that write the table, with who runs them when. *)
OrdersStep ==
    \/ UNCHANGED orders
    \/ \E o \in OrderIds : \E u, n, lines : NextOrder(o) /\ CreateOrder(o, u, n, lines)
    \/ \E o, l : IsOrder(o) /\ SetLink(o, l)
    \/ \E h \in Hooks : hook[h].pc = "credit" /\ SetPaid(HookOrder(h))
    \/ \E w \in Workers : wpc[w] = "confirm" /\ SetConfirmed(CurOrder(w))

LEMMA ShoppingOrders ==
    ASSUME Shopping
    PROVE  \/ UNCHANGED orders
           \/ \E o \in OrderIds : \E u, n, lines : NextOrder(o) /\ CreateOrder(o, u, n, lines)
BY DEF Shopping, CheckoutStep, Shop, Place, Sell, BeginAdd, FindCart, MakeCart, FindItem,
   InsertItem, UpdateItem, RemoveFromCart, ReadCart, PlaceCreate, PlaceClear, PlacePublish

LEMMA PayingOrders ==
    ASSUME Typed, Paying
    PROVE  OrdersStep
<1>1. PayReqsRefer BY DEF Typed, WellFormed
<1>2. ASSUME NEW t \in PayReqs, LinkStep(t)
      PROVE  OrdersStep
  <2>1. pay[t].pc = "save" => IsOrder(pay[t].order) BY <1>1 DEF PayReqsRefer
  <2>2. QED BY <1>2, <2>1 DEF LinkStep, RequestLink, CallPayOS, SaveLink, OrdersStep
<1>3. ASSUME NEW h \in Hooks, HookStep(h)
      PROVE  OrdersStep
  BY <1>3 DEF HookStep, HookLoad, HookCredit, HookPublish, HookAnswer, OrdersStep
<1>4. ASSUME \/ \E l \in LinkIds, slip \in Slips : Transfer(l, slip)
             \/ \E h \in Hooks, l \in LinkIds : Deliver(h, l)
             \/ \E h \in Hooks : Ping(h)
      PROVE  OrdersStep
  BY <1>4 DEF Transfer, Deliver, Ping, OrdersStep
<1>5. QED BY <1>2, <1>3, <1>4 DEF Paying, PaymentStep

LEMMA WorkingOrders ==
    ASSUME NEW w \in Workers, Working(w)
    PROVE  OrdersStep
BY DEF Working, WorkerStep, workerVars, Stop, Receive, EmptyReceive, ReceiveFails,
   BackoffEnds, Pick, BatchDone, Load, Confirm, Mail, Delete, Signal, Crash, Start,
   OrdersStep

LEMMA StepOrders ==
    ASSUME Typed, [Next]_vars
    PROVE  OrdersStep
<1>1. ASSUME Queueing \/ ApiCrash \/ UNCHANGED vars
      PROVE  UNCHANGED orders
  BY <1>1 DEF Queueing, ApiCrash, vars
<1>2. QED
  BY <1>1, ShoppingOrders, PayingOrders, WorkingOrders DEF Next, OrdersStep

(* The columns after a step: the bill of an order never changes, paid and  *)
(* confirmed are never taken back, and each has one writer.                *)
OrdersFollow ==
    \A o \in OrderIds :
        /\ Exists(o) => /\ Exists(o)'
                        /\ orders'[o].user = orders[o].user
                        /\ orders'[o].total = orders[o].total
                        /\ orders'[o].items = orders[o].items
        /\ Paid(o) => Paid(o)'
        /\ Confirmed(o) => Confirmed(o)'
        /\ Paid(o)' => Paid(o) \/ \E h \in Hooks : hook[h].pc = "credit" /\ HookOrder(h) = o
        /\ Confirmed(o)' =>
               Confirmed(o) \/ \E w \in Workers : wpc[w] = "confirm" /\ CurOrder(w) = o

LEMMA OrdersFollowStep ==
    ASSUME Typed, OrdersStep
    PROVE  OrdersFollow
<1>1. OrdersTypeOK BY DEF Typed, TypeOK, OrdersTypeOK
<1>2. CASE UNCHANGED orders
  BY <1>2 DEF OrdersFollow, Exists, Paid, Confirmed
<1>3. ASSUME NEW o \in OrderIds, NEW u, NEW n, NEW lines,
             NextOrder(o), CreateOrder(o, u, n, lines)
      PROVE  OrdersFollow
  <2>1. orders[o] = NoOrder BY <1>1, <1>3 DEF NextOrder, OrdersTypeOK, Exists, Order
  <2>2. QED
    BY <1>1, <1>3, <2>1 DEF CreateOrder, OrdersTypeOK, OrdersFollow, Exists, Paid, Confirmed,
       NoOrder, Order
<1>4. ASSUME NEW o, NEW l, IsOrder(o), SetLink(o, l)
      PROVE  OrdersFollow
  BY <1>1, <1>4 DEF SetLink, OrdersTypeOK, OrdersFollow, Exists, Paid, Confirmed, IsOrder,
     NoOrder, Order
<1>5. ASSUME NEW h \in Hooks, hook[h].pc = "credit", SetPaid(HookOrder(h))
      PROVE  OrdersFollow
  BY <1>1, <1>5 DEF SetPaid, OrdersTypeOK, OrdersFollow, Exists, Paid, Confirmed, NoOrder,
     Order
<1>6. ASSUME NEW w \in Workers, wpc[w] = "confirm", SetConfirmed(CurOrder(w))
      PROVE  OrdersFollow
  <2>1. WorkerRefers(w) /\ MessagesRefer
    BY DEF Typed, WellFormed, WorkersRefer
  <2>2. IsOrder(CurOrder(w))
    BY <1>6, <2>1 DEF WorkerRefers, Handling, MessagesRefer, CurType, CurOrder, Receipt
  <2>3. QED
    BY <1>1, <1>6, <2>2 DEF SetConfirmed, OrdersTypeOK, OrdersFollow, Exists, Paid,
       Confirmed, IsOrder, NoOrder, Order
<1>7. QED BY <1>2, <1>3, <1>4, <1>5, <1>6 DEF OrdersStep

LEMMA StepFollows ==
    ASSUME Typed, [Next]_vars
    PROVE  OrdersFollow
BY StepOrders, OrdersFollowStep

(***************************************************************************)
(* What a step does to the queue                                           *)
(***************************************************************************)

(* ORDER_PAID has one publisher, and a message is deleted by a worker that *)
(* is about to delete it.                                                  *)
QueueFollow ==
    \A m \in MsgIds :
        /\ Sent(m)' => \/ Sent(m)
                       \/ queue'[m].type # "ORDER_PAID"
                       \/ \E h \in Hooks : /\ hook[h].pc = "publish"
                                           /\ queue'[m].order = HookOrder(h)
        /\ queue'[m].state = "deleted" =>
               \/ queue[m].state = "deleted"
               \/ \E w \in Workers : wpc[w] = "delete" /\ cur[w].msg = m

LEMMA QueueKept ==
    ASSUME UNCHANGED queue
    PROVE  QueueFollow
BY DEF QueueFollow, Sent

(* Publishing sends one visible message. *)
LEMMA PublishFollows ==
    ASSUME Typed, NEW type \in Events, NEW o \in OrderIds, PublishOrderEvent(type, o),
           \/ type # "ORDER_PAID"
           \/ \E h \in Hooks : hook[h].pc = "publish" /\ o = HookOrder(h)
    PROVE  QueueFollow
<1>1. QueueTypeOK /\ FaultsTypeOK BY DEF Typed, TypeOK
<1>2. \A k \in MsgIds : Sent(k)' =>
          Sent(k) \/ (queue'[k].type = type /\ queue'[k].order = o)
  BY <1>1, PublishTyped
<1>3. \A k \in MsgIds : queue'[k].state = "deleted" => queue[k].state = "deleted"
  BY <1>1 DEF PublishOrderEvent, Enqueue, NextMsg, QueueTypeOK
<1>4. QED BY <1>2, <1>3 DEF QueueFollow

LEMMA ShoppingQueue ==
    ASSUME Typed, Shopping
    PROVE  QueueFollow
<1>1. ASSUME ~ UNCHANGED queue
      PROVE  \E t \in Tabs : PlacePublish(t)
  BY <1>1 DEF Shopping, CheckoutStep, Shop, Place, Sell, BeginAdd, FindCart, MakeCart,
     FindItem, InsertItem, UpdateItem, RemoveFromCart, ReadCart, PlaceCreate, PlaceClear
<1>2. ASSUME NEW t \in Tabs, PlacePublish(t)
      PROVE  QueueFollow
  <2>1. req[t].order \in OrderIds
    BY <1>2 DEF PlacePublish, At, Typed, WellFormed, RequestsRefer, IsOrder
  <2>2. "ORDER_PLACED" \in Events /\ "ORDER_PLACED" # "ORDER_PAID" BY DEF Events
  <2>3. QED BY <1>2, <2>1, <2>2, PublishFollows DEF PlacePublish
<1>3. QED BY <1>1, <1>2, QueueKept, SMTT(30)

LEMMA PayingQueue ==
    ASSUME Typed, Paying
    PROVE  QueueFollow
<1>1. ASSUME ~ UNCHANGED queue
      PROVE  \E h \in Hooks : HookPublish(h)
  BY <1>1 DEF Paying, PaymentStep, LinkStep, RequestLink, CallPayOS, SaveLink, Transfer,
     Deliver, Ping, HookStep, HookLoad, HookCredit, HookAnswer
<1>2. ASSUME NEW h \in Hooks, HookPublish(h)
      PROVE  QueueFollow
  <2>1. HookOrder(h) \in OrderIds /\ hook[h].pc = "publish"
    BY <1>2 DEF HookPublish, HookOrder, Typed, WellFormed, HooksRefer, Transferred, LinksRefer,
       IsOrder
  <2>2. "ORDER_PAID" \in Events BY DEF Events
  <2>3. QED BY <1>2, <2>1, <2>2, PublishFollows DEF HookPublish
<1>3. QED BY <1>1, <1>2, QueueKept

LEMMA WorkingQueue ==
    ASSUME Typed, NEW w \in Workers, Working(w)
    PROVE  QueueFollow
<1>1. QueueTypeOK BY DEF Typed, TypeOK
<1>2. ASSUME NEW B \in Batches, HandOut(B)
      PROVE  QueueFollow
  <2>1. \A k \in MsgIds : Sent(k)' => Sent(k)
    BY <1>1, <1>2, HandOutTyped DEF Batches
  <2>2. \A k \in MsgIds : queue'[k].state = "deleted" => queue[k].state = "deleted"
    BY <1>1, <1>2 DEF HandOut, QueueTypeOK, Message
  <2>3. QED BY <2>1, <2>2 DEF QueueFollow
<1>3. ASSUME wpc[w] = "delete", DeleteMessage(cur[w])
      PROVE  QueueFollow
  <2>1. cur[w].msg \in MsgIds /\ Sent(cur[w].msg)
    BY <1>3 DEF Typed, WellFormed, WorkersRefer, WorkerRefers, Receipt
  <2>2. CASE UNCHANGED queue BY <2>2, QueueKept
  <2>3. CASE queue' = [queue EXCEPT ![cur[w].msg].state = "deleted"]
    BY <1>1, <1>3, <2>1, <2>3 DEF QueueTypeOK, Message, Sent, QueueFollow
  <2>4. QED BY <1>3, <2>2, <2>3 DEF DeleteMessage
<1>4. \/ UNCHANGED queue
      \/ \E B \in Batches : HandOut(B)
      \/ wpc[w] = "delete" /\ DeleteMessage(cur[w])
  BY DEF Working, WorkerStep, workerVars, Stop, Receive, EmptyReceive, ReceiveFails,
     BackoffEnds, Pick, BatchDone, Load, Confirm, Mail, Delete, Signal, Crash, Start
<1>5. QED BY <1>2, <1>3, <1>4, QueueKept

LEMMA QueueingQueue ==
    ASSUME Typed, Queueing
    PROVE  QueueFollow
<1>1. QueueTypeOK BY DEF Typed, TypeOK
<1>2. ASSUME NEW m \in MsgIds, VisibilityTimeout(m) \/ Redrive(m)
      PROVE  QueueFollow
  BY <1>1, <1>2 DEF VisibilityTimeout, Redrive, QueueTypeOK, Message, Sent, QueueFollow
<1>3. ASSUME NEW body \in ForeignBodies, ForeignMessage(body)
      PROVE  QueueFollow
  <2>1. body # "ORDER_PAID" BY DEF ForeignBodies
  <2>2. QED
    BY <1>1, <1>3, <2>1 DEF ForeignMessage, NextMsg, Enqueue, QueueTypeOK, Message, Sent,
       QueueFollow
<1>4. QED BY <1>2, <1>3 DEF Queueing, QueueStep

LEMMA StepQueue ==
    ASSUME Typed, [Next]_vars
    PROVE  QueueFollow
<1>1. ASSUME ApiCrash \/ UNCHANGED vars
      PROVE  UNCHANGED queue
  BY <1>1 DEF ApiCrash, vars
<1>2. QED
  BY <1>1, ShoppingQueue, PayingQueue, WorkingQueue, QueueingQueue, QueueKept DEF Next

(***************************************************************************)
(* What a step does to webhooks and links                                  *)
(***************************************************************************)

(* A webhook credits after it saw the amount, and publishes after it wrote *)
(* paid; a transfer is never forgotten or changed.                         *)
HooksFollow ==
    \A h \in Hooks :
        /\ hook'[h].pc = "credit" =>
              /\ hook'[h].link = hook[h].link
              /\ hook[h].pc = "credit" \/ Creditable(h)
        /\ hook'[h].pc = "publish" =>
              /\ hook'[h].link = hook[h].link
              /\ \/ hook[h].pc = "publish"
                 \/ hook[h].pc = "credit" /\ SetPaid(HookOrder(h))

LinksFollow ==
    \A l : Transferred(l) => /\ Transferred(l)'
                             /\ links'[l].order = links[l].order
                             /\ links'[l].got = links[l].got

LEMMA HooksIdle ==
    ASSUME UNCHANGED <<hook, links>>
    PROVE  HooksFollow /\ LinksFollow
BY DEF HooksFollow, LinksFollow, Transferred

LEMMA LinkStepFollows ==
    ASSUME Typed, NEW t \in PayReqs, LinkStep(t)
    PROVE  HooksFollow /\ LinksFollow
<1>1. links \in [LinkIds -> PaymentLink] /\ UNCHANGED hook
  BY DEF Typed, TypeOK, PaymentTypeOK, LinkStep, RequestLink, CallPayOS, SaveLink
<1>2. UNCHANGED links \/ \E l \in LinkIds : \E o, n : NextLink(l) /\ IssueLink(l, o, n)
  BY DEF LinkStep, RequestLink, CallPayOS, SaveLink
<1>3. LinksFollow
  BY <1>1, <1>2 DEF NextLink, IssueLink, LinksFollow, Transferred
<1>4. QED BY <1>1, <1>3 DEF HooksFollow

LEMMA PayOSStepFollows ==
    ASSUME Typed,
           \/ \E l \in LinkIds, slip \in Slips : Transfer(l, slip)
           \/ \E h \in Hooks, l \in LinkIds : Deliver(h, l)
           \/ \E h \in Hooks : Ping(h)
    PROVE  HooksFollow /\ LinksFollow
<1>1. links \in [LinkIds -> PaymentLink] /\ hook \in [Hooks -> HookReq]
  BY DEF Typed, TypeOK, PaymentTypeOK
<1>2. ASSUME NEW l \in LinkIds, NEW slip \in Slips, Transfer(l, slip)
      PROVE  HooksFollow /\ LinksFollow
  BY <1>1, <1>2 DEF Transfer, HooksFollow, LinksFollow, Transferred
<1>3. ASSUME NEW h \in Hooks, (\E l \in LinkIds : Deliver(h, l)) \/ Ping(h)
      PROVE  HooksFollow /\ LinksFollow
  BY <1>1, <1>3 DEF Deliver, Ping, HooksFollow, LinksFollow, Transferred
<1>4. QED BY <1>2, <1>3

LEMMA HookStepFollows ==
    ASSUME Typed, NEW h \in Hooks, HookStep(h)
    PROVE  HooksFollow /\ LinksFollow
<1>1. links \in [LinkIds -> PaymentLink] /\ hook \in [Hooks -> HookReq]
  BY DEF Typed, TypeOK, PaymentTypeOK
<1>0. ASSUME UNCHANGED links
      PROVE  LinksFollow
  BY <1>0 DEF LinksFollow, Transferred
<1>2. CASE HookLoad(h)
  <2>1. LinksFollow BY <1>0, <1>2 DEF HookLoad
  <2>2. \/ Creditable(h) /\ HookGoTo(h, "credit")
        \/ HookGoTo(h, "answer")
    BY <1>2 DEF HookLoad
  <2>3. HooksFollow BY <1>1, <2>2 DEF HookGoTo, HookReq, HooksFollow
  <2>4. QED BY <2>1, <2>3
<1>3. CASE HookCredit(h)
  <2>1. LinksFollow BY <1>0, <1>3 DEF HookCredit
  <2>2. /\ hook[h].pc = "credit"
        /\ \/ SetPaid(HookOrder(h)) /\ \E pc \in {"publish", "answer"} : HookGoTo(h, pc)
           \/ hook' = [hook EXCEPT ![h] = IdleHook]
    BY <1>3 DEF HookCredit, CreditFails
  <2>3. HooksFollow BY <1>1, <2>2 DEF HookGoTo, HookReq, IdleHook, HooksFollow
  <2>4. QED BY <2>1, <2>3
<1>4. CASE HookPublish(h)
  <2>1. LinksFollow BY <1>0, <1>4 DEF HookPublish
  <2>2. HooksFollow BY <1>1, <1>4 DEF HookPublish, HookGoTo, HookReq, HooksFollow
  <2>3. QED BY <2>1, <2>2
<1>5. CASE HookAnswer(h)
  <2>1. HooksFollow BY <1>1, <1>5 DEF HookAnswer, IdleHook, HooksFollow
  <2>2. UNCHANGED links \/ links' = [l \in LinkIds |->
            IF l = hook[h].link THEN [links[l] EXCEPT !.state = "acked"] ELSE links[l]]
    BY <1>5 DEF HookAnswer
  <2>3. LinksFollow BY <1>1, <2>2 DEF LinksFollow, Transferred, PaymentLink
  <2>4. QED BY <2>1, <2>3
<1>6. QED BY <1>2, <1>3, <1>4, <1>5 DEF HookStep

LEMMA StepHooks ==
    ASSUME Typed, [Next]_vars
    PROVE  HooksFollow /\ LinksFollow
<1>1. ASSUME ApiCrash
      PROVE  HooksFollow /\ LinksFollow
  BY <1>1 DEF ApiCrash, DropPayments, IdleHook, HooksFollow, LinksFollow, Transferred
<1>2. ASSUME Shopping \/ (\E w \in Workers : Working(w)) \/ Queueing \/ UNCHANGED vars
      PROVE  UNCHANGED <<hook, links>>
  BY <1>2 DEF Shopping, Working, Queueing, vars, paymentVars
<1>3. ASSUME Paying
      PROVE  HooksFollow /\ LinksFollow
  BY <1>3, LinkStepFollows, PayOSStepFollows, HookStepFollows DEF Paying, PaymentStep
<1>4. QED BY <1>1, <1>2, <1>3, HooksIdle DEF Next

(***************************************************************************)
(* What a step does to a worker                                            *)
(***************************************************************************)

(* How worker w comes to confirm, to mail and to delete, and when it mails *)
(* that a payment was received.                                            *)
WorkerFollows(w) ==
    /\ wpc'[w] = "confirm" =>
          /\ cur'[w] = cur[w]
          /\ \/ wpc[w] = "confirm"
             \/ /\ wpc[w] = "load" /\ ~ AlreadyHandled(w)
                /\ CurType(w) = "ORDER_PAID"
    /\ wpc'[w] = "mail" =>
          /\ cur'[w] = cur[w]
          /\ \/ wpc[w] = "mail"
             \/ wpc[w] = "load" /\ CurType(w) # "ORDER_PAID"
             \/ wpc[w] = "confirm" /\ SetConfirmed(CurOrder(w))
    /\ wpc'[w] = "delete" =>
          \/ queue[cur'[w].msg].type \notin Events /\ UNCHANGED queue
          \/ /\ cur'[w] = cur[w]
             /\ \/ wpc[w] = "delete"
                \/ wpc[w] = "load" /\ AlreadyHandled(w)
                \/ wpc[w] = "mail" /\ SendEmail(w)
    /\ \A o \in OrderIds :
          \/ paidMails'[o][w] = paidMails[o][w]
          \/ /\ wpc[w] = "mail" /\ wpc'[w] # "mail"
             /\ CurType(w) = "ORDER_PAID" /\ CurOrder(w) = o
             /\ paidMails'[o][w] = paidMails[o][w] + 1
    /\ placedMails \subseteq placedMails'

LEMMA WorkerIdle ==
    ASSUME NEW w \in Workers, wpc'[w] = wpc[w], cur'[w] = cur[w],
           \A o \in OrderIds : paidMails'[o][w] = paidMails[o][w],
           placedMails \subseteq placedMails'
    PROVE  WorkerFollows(w)
BY DEF WorkerFollows

LEMMA WorkingFollows ==
    ASSUME Typed, NEW w \in Workers, Working(w)
    PROVE  WorkerFollows(w) /\ \A v \in Workers \ {w} :
              /\ wpc'[v] = wpc[v] /\ cur'[v] = cur[v]
              /\ \A o \in OrderIds : paidMails'[o][v] = paidMails[o][v]
              /\ placedMails \subseteq placedMails'
<1> DEFINE Goal ==
      WorkerFollows(w) /\ \A v \in Workers \ {w} :
          /\ wpc'[v] = wpc[v] /\ cur'[v] = cur[v]
          /\ \A o \in OrderIds : paidMails'[o][v] = paidMails[o][v]
          /\ placedMails \subseteq placedMails'
<1>1. WorkerTypeOK /\ WorkerRefers(w) /\ QueueTypeOK
  BY DEF Typed, TypeOK, WellFormed, WorkersRefer
<1>2. ASSUME \/ Stop(w) \/ Receive(w) \/ EmptyReceive(w) \/ ReceiveFails(w)
             \/ BackoffEnds(w) \/ BatchDone(w) \/ Delete(w) \/ Signal(w) \/ Crash(w)
             \/ Start(w)
      PROVE  Goal
  <2>1. UNCHANGED <<placedMails, paidMails>>
    BY <1>2 DEF workerVars, Stop, Receive, EmptyReceive, ReceiveFails, BackoffEnds, BatchDone,
       Delete, Signal, Crash, Start
  <2>2. \/ UNCHANGED <<wpc, cur>>
        \/ (\E pc \in {"stopped", "poll", "backoff", "next"} : WGoTo(w, pc))
              /\ (UNCHANGED cur \/ cur' = [cur EXCEPT ![w] = NoReceipt])
    BY <1>2 DEF workerVars, Stop, Receive, EmptyReceive, ReceiveFails, BackoffEnds, BatchDone,
       Delete, Signal, Crash, Start, DoneWith
  <2>3. QED BY <1>1, <2>1, <2>2 DEF WGoTo, WorkerTypeOK, WorkerFollows
<1>3. ASSUME Pick(w)
      PROVE  Goal
  <2>1. PICK r \in batch[w] :
           /\ WGoTo(w, AfterPick(queue[r.msg].type))
           /\ cur' = [cur EXCEPT ![w] = IF queue[r.msg].type = "NIL" THEN NoReceipt ELSE r]
    BY <1>3 DEF Pick
  <2>2. UNCHANGED <<placedMails, paidMails, queue>> BY <1>3 DEF Pick
  <2>3. queue[r.msg].type \in Events \cup ForeignBodies
    BY <1>1 DEF WorkerTypeOK, Receipt, QueueTypeOK, Message
  <2>4. /\ AfterPick(queue[r.msg].type) \in {"load", "next", "delete"}
        /\ AfterPick(queue[r.msg].type) = "delete" =>
              queue[r.msg].type \notin Events /\ queue[r.msg].type # "NIL"
    <3>1. CASE queue[r.msg].type \in Events BY <3>1 DEF AfterPick, Events
    <3>2. CASE queue[r.msg].type = "NIL" BY <3>2 DEF AfterPick, Events
    <3>3. CASE queue[r.msg].type \in {"MALFORMED", "UNKNOWN"}
      BY <3>3 DEF AfterPick, Events
    <3>4. QED BY <2>3, <3>1, <3>2, <3>3 DEF ForeignBodies
  <2>5. QED BY <1>1, <2>1, <2>2, <2>4 DEF WGoTo, WorkerTypeOK, WorkerFollows
<1>4. ASSUME Load(w)
      PROVE  Goal
  <2>1. UNCHANGED <<placedMails, paidMails>> BY <1>4 DEF Load
  <2>2. \/ WGoTo(w, "delete") /\ AlreadyHandled(w) /\ UNCHANGED cur
        \/ /\ WGoTo(w, FirstStep(CurType(w))) /\ ~ AlreadyHandled(w) /\ UNCHANGED cur
        \/ DoneWith(w)
    BY <1>4 DEF Load, HandlerFails
  <2>3. QED
    BY <1>1, <1>4, <2>1, <2>2 DEF Load, FirstStep, DoneWith, WGoTo, WorkerTypeOK,
       WorkerFollows
<1>5. ASSUME Confirm(w)
      PROVE  Goal
  BY <1>1, <1>5 DEF Confirm, HandlerFails, DoneWith, WGoTo, WorkerTypeOK, WorkerFollows
<1>6. ASSUME Mail(w)
      PROVE  Goal
  <2>1. \/ UNCHANGED <<placedMails, paidMails>>
        \/ SendEmail(w)
    BY <1>6 DEF Mail
  <2>2. \/ SendEmail(w) /\ WGoTo(w, "delete") /\ UNCHANGED cur
        \/ DoneWith(w)
    BY <1>6 DEF Mail, HandlerFails
  <2>3. CurOrder(w) \in OrderIds
    BY <1>1, <1>6 DEF Mail, WorkerRefers, Handling, Receipt, CurType, CurOrder, Typed,
       WellFormed, MessagesRefer, IsOrder
  <2>4. /\ placedMails \subseteq placedMails'
        /\ \A o \in OrderIds, v \in Workers :
              \/ paidMails'[o][v] = paidMails[o][v]
              \/ /\ v = w /\ CurType(w) = "ORDER_PAID" /\ CurOrder(w) = o
                 /\ paidMails'[o][v] = paidMails[o][v] + 1
    BY <1>1, <2>1, <2>3 DEF SendEmail, WorkerTypeOK
  <2>5. wpc[w] = "mail" /\ wpc'[w] \in {"delete", "next"}
    BY <1>1, <1>6, <2>2 DEF Mail, DoneWith, WGoTo, WorkerTypeOK
  <2>6. \A v \in Workers \ {w} : wpc'[v] = wpc[v] /\ cur'[v] = cur[v]
    BY <1>1, <2>2 DEF DoneWith, WGoTo, WorkerTypeOK
  <2>7. wpc'[w] = "delete" => cur'[w] = cur[w] /\ SendEmail(w)
    BY <1>1, <2>2 DEF DoneWith, WGoTo, WorkerTypeOK
  <2>8. WorkerFollows(w) BY <2>4, <2>5, <2>7 DEF WorkerFollows
  <2>9. QED BY <2>4, <2>6, <2>8
<1>7. QED BY <1>2, <1>3, <1>4, <1>5, <1>6 DEF Working, WorkerStep

LEMMA StepWorkers ==
    ASSUME Typed, [Next]_vars
    PROVE  \A w \in Workers : WorkerFollows(w)
<1>1. ASSUME Shopping \/ Paying \/ Queueing \/ ApiCrash \/ UNCHANGED vars
      PROVE  UNCHANGED <<wpc, cur, placedMails, paidMails>>
  BY <1>1 DEF Shopping, Paying, Queueing, ApiCrash, vars, workerVars
<1>2. ASSUME NEW w \in Workers, Working(w), NEW v \in Workers
      PROVE  WorkerFollows(v)
  BY <1>2, WorkingFollows, WorkerIdle
<1>3. QED BY <1>1, <1>2, WorkerIdle DEF Next

(* Everything above in one lemma, for the properties below. *)
LEMMA Follows ==
    ASSUME Typed, [Next]_vars
    PROVE  /\ Typed' /\ MessagesStay
           /\ OrdersFollow /\ QueueFollow /\ HooksFollow /\ LinksFollow
           /\ \A w \in Workers : WorkerFollows(w)
BY StepTyped, StepFollows, StepQueue, StepHooks, StepWorkers

(* The message a worker has at hand keeps its body. *)
LEMMA CurKept ==
    ASSUME Typed, MessagesStay, NEW w \in Workers, Handling(w) \/ wpc[w] = "delete",
           cur'[w] = cur[w]
    PROVE  /\ CurType(w)' = CurType(w) /\ CurOrder(w)' = CurOrder(w)
           /\ Handling(w) => IsOrder(CurOrder(w))
BY DEF Typed, WellFormed, WorkersRefer, WorkerRefers, MessagesRefer, MessagesStay, Receipt,
   CurType, CurOrder

(* The order of a webhook about a transfer stays the same. *)
LEMMA HookOrderKept ==
    ASSUME Typed, LinksFollow, NEW h \in Hooks, hook[h].pc \in {"credit", "publish"},
           hook'[h].link = hook[h].link
    PROVE  /\ HookOrder(h)' = HookOrder(h) /\ IsOrder(HookOrder(h))
           /\ Transferred(hook[h].link)
BY DEF Typed, WellFormed, HooksRefer, LinksRefer, LinksFollow, Transferred, HookOrder

(***************************************************************************)
(* Paid before confirmed.  A worker confirms because of an ORDER_PAID; the *)
(* message was published by a webhook that had written paid; and paid is   *)
(* never taken back.                                                       *)
(***************************************************************************)
LEMMA PaidInvInit == ASSUME Init PROVE PaidInv
BY DEF Init, OrdersInit, QueueInit, PaymentInit, WorkerInit, NoOrder, IdleHook, PaidInv,
   PaidBeforeConfirmed, PaidNews, Paid, Confirmed, IsEvent, Sent

LEMMA PaidInvStep ==
    ASSUME Typed, PaidInv, [Next]_vars
    PROVE  PaidInv'
<1>1. /\ Typed' /\ MessagesStay
      /\ OrdersFollow /\ QueueFollow /\ HooksFollow /\ LinksFollow
      /\ \A w \in Workers : WorkerFollows(w)
  BY Follows
<1>2. ASSUME NEW h \in Hooks, hook[h].pc = "credit", SetPaid(HookOrder(h)),
             hook'[h].link = hook[h].link
      PROVE  Paid(HookOrder(h))'
  <2>1. HookOrder(h)' = HookOrder(h) /\ HookOrder(h) \in OrderIds
    BY <1>1, <1>2, HookOrderKept DEF IsOrder
  <2>2. orders \in [OrderIds -> Order \cup {NoOrder}] BY DEF Typed, TypeOK
  <2>3. orders'[HookOrder(h)].payment = "paid"
    BY <1>2, <2>1, <2>2 DEF SetPaid, Order, NoOrder
  <2>4. QED BY <2>1, <2>3 DEF Paid
<1>3. ASSUME NEW m \in MsgIds, NEW o \in OrderIds, IsEvent(m, "ORDER_PAID", o)'
      PROVE  Paid(o)'
  <2>1. CASE Sent(m)
    BY <1>1, <1>3, <2>1 DEF PaidInv, PaidNews, IsEvent, MessagesStay, OrdersFollow
  <2>2. CASE ~ Sent(m)
    BY <1>1, <1>3, <2>2 DEF PaidInv, PaidNews, IsEvent, QueueFollow, OrdersFollow
  <2>3. QED BY <2>1, <2>2
<1>4. ASSUME NEW h \in Hooks, hook'[h].pc = "publish"
      PROVE  Paid(HookOrder(h))'
  <2>1. hook'[h].link = hook[h].link BY <1>1, <1>4 DEF HooksFollow
  <2>2. CASE hook[h].pc = "publish"
    <3>1. HookOrder(h)' = HookOrder(h) /\ HookOrder(h) \in OrderIds
      BY <1>1, <2>1, <2>2, HookOrderKept DEF IsOrder
    <3>2. Paid(HookOrder(h)) BY <2>2 DEF PaidInv, PaidNews
    <3>3. orders'[HookOrder(h)].payment = "paid"
      BY <1>1, <3>1, <3>2 DEF OrdersFollow, Paid
    <3>4. QED BY <3>1, <3>3 DEF Paid
  <2>3. CASE hook[h].pc = "credit" /\ SetPaid(HookOrder(h)) BY <1>2, <2>1, <2>3
  <2>4. QED BY <1>1, <1>4, <2>2, <2>3 DEF HooksFollow
<1>5. ASSUME NEW w \in Workers, wpc'[w] = "confirm"
      PROVE  CurType(w)' = "ORDER_PAID"
  <2>1. WorkerFollows(w) BY <1>1
  <2>2. cur'[w] = cur[w] /\ Handling(w) /\ CurType(w) = "ORDER_PAID"
    BY <1>5, <2>1 DEF WorkerFollows, Handling, PaidInv
  <2>3. QED BY <1>1, <2>2, CurKept
<1>6. ASSUME NEW o \in OrderIds, Confirmed(o)'
      PROVE  Paid(o)'
  <2>1. CASE Confirmed(o)
    BY <1>1, <2>1 DEF PaidInv, PaidBeforeConfirmed, OrdersFollow
  <2>2. ASSUME NEW w \in Workers, wpc[w] = "confirm", CurOrder(w) = o
        PROVE  Paid(o)'
    <3>1. CurType(w) = "ORDER_PAID" /\ cur[w] \in Receipt /\ Sent(cur[w].msg)
      BY <2>2 DEF PaidInv, Typed, WellFormed, WorkersRefer, WorkerRefers, Handling
    <3>2. IsEvent(cur[w].msg, "ORDER_PAID", o) /\ cur[w].msg \in MsgIds
      BY <2>2, <3>1 DEF IsEvent, CurType, CurOrder, Receipt
    <3>3. QED BY <1>1, <3>2 DEF PaidInv, PaidNews, OrdersFollow
  <2>3. QED BY <1>1, <1>6, <2>1, <2>2 DEF OrdersFollow
<1>7. PaidBeforeConfirmed' BY <1>6 DEF PaidBeforeConfirmed
<1>8. PaidNews' BY <1>3, <1>4 DEF PaidNews
<1>9. QED BY <1>5, <1>7, <1>8 DEF PaidInv

LEMMA PaidInvariance == Spec => []PaidInv
<1>1. Typed /\ PaidInv /\ [Next]_vars => PaidInv' BY PaidInvStep
<1>2. Init => PaidInv BY PaidInvInit
<1>3. QED BY <1>1, <1>2, Typing, PTL DEF Spec

(* No redelivered or crossed ORDER_PAID, no crash, no failed write and no  *)
(* second worker gets an order to confirmed before its webhook wrote paid. *)
THEOREM PaidFirst == Spec => []PaidBeforeConfirmed
<1>1. PaidInv => PaidBeforeConfirmed BY DEF PaidInv
<1>2. QED BY <1>1, PaidInvariance, PTL

(***************************************************************************)
(* Paid only if settled.  A webhook credits an order after it compared the *)
(* amount; between the two, neither the transfer nor the bill can change.  *)
(***************************************************************************)

(* A transfer of the right amount stays one. *)
LEMMA MatchKept ==
    ASSUME Typed, OrdersFollow, LinksFollow, NEW l \in LinkIds, Transferred(l),
           AmountMatches(l)
    PROVE  Transferred(l)' /\ AmountMatches(l)' /\ links'[l].order = links[l].order
<1>1. IsOrder(links[l].order)
  BY DEF Typed, WellFormed, LinksRefer, Transferred
<1>2. /\ orders'[links[l].order].total = orders[links[l].order].total
      /\ Transferred(l)' /\ links'[l].order = links[l].order /\ links'[l].got = links[l].got
  BY <1>1 DEF OrdersFollow, LinksFollow, IsOrder
<1>3. QED BY <1>2 DEF AmountMatches

LEMMA SettledInvStep ==
    ASSUME Typed, SettledInv, [Next]_vars
    PROVE  SettledInv'
<1>1. OrdersFollow /\ HooksFollow /\ LinksFollow BY Follows
<1>2. \A o \in OrderIds : SettledBy(o) <=>
          \E l \in LinkIds : Transferred(l) /\ links[l].order = o /\ AmountMatches(l)
  BY DEF SettledBy, Transferred, AmountMatches
<1>3. \A o \in OrderIds : SettledBy(o)' <=>
          \E l \in LinkIds : Transferred(l)' /\ links'[l].order = o /\ AmountMatches(l)'
  BY DEF SettledBy, Transferred, AmountMatches
<1>4. \A o \in OrderIds : SettledBy(o) => SettledBy(o)'
  BY <1>1, <1>2, <1>3, MatchKept
<1>5. ASSUME NEW h \in Hooks, hook[h].pc = "credit"
      PROVE  Transferred(hook[h].link) /\ AmountMatches(hook[h].link)
  BY <1>5 DEF SettledInv, Typed, WellFormed, HooksRefer
<1>6. ASSUME NEW o \in OrderIds, Paid(o)'
      PROVE  SettledBy(o)'
  <2>1. CASE Paid(o) BY <1>4, <2>1 DEF SettledInv, PaidOnlyIfSettled
  <2>2. ASSUME NEW h \in Hooks, hook[h].pc = "credit", HookOrder(h) = o
        PROVE  SettledBy(o)'
    BY <1>2, <1>4, <1>5, <2>2 DEF HookOrder, Transferred
  <2>3. QED BY <1>1, <1>6, <2>1, <2>2 DEF OrdersFollow
<1>7. ASSUME NEW h \in Hooks, hook'[h].pc = "credit"
      PROVE  AmountMatches(hook[h].link)' /\ hook'[h].link = hook[h].link
  <2>1. hook'[h].link = hook[h].link BY <1>1, <1>7 DEF HooksFollow
  <2>2. Transferred(hook[h].link) /\ AmountMatches(hook[h].link)
    <3>1. CASE hook[h].pc = "credit" BY <1>5, <3>1
    <3>2. CASE Creditable(h)
      BY <3>2 DEF Creditable, Typed, WellFormed, HooksRefer
    <3>3. QED BY <1>1, <1>7, <3>1, <3>2 DEF HooksFollow
  <2>3. links'[hook[h].link].got = Dong(orders'[links'[hook[h].link].order].total)
    BY <1>1, <2>2, MatchKept DEF Transferred, AmountMatches
  <2>4. QED BY <2>1, <2>3 DEF AmountMatches
<1>8. PaidOnlyIfSettled' BY <1>6 DEF PaidOnlyIfSettled
<1>9. QED BY <1>7, <1>8 DEF SettledInv

LEMMA SettledInvariance == Spec => []SettledInv
<1>1. Typed /\ SettledInv /\ [Next]_vars => SettledInv' BY SettledInvStep
<1>2. Init => SettledInv
  BY DEF Init, OrdersInit, PaymentInit, NoOrder, IdleHook, SettledInv, PaidOnlyIfSettled, Paid
<1>3. QED BY <1>1, <1>2, Typing, PTL DEF Spec

(* Whatever webhooks payOS repeats, crosses or sends for nothing, an order *)
(* is paid only if its bill was transferred on one of its own links.       *)
THEOREM SettledFirst == Spec => []PaidOnlyIfSettled
<1>1. SettledInv => PaidOnlyIfSettled BY DEF SettledInv
<1>2. QED BY <1>1, SettledInvariance, PTL

(***************************************************************************)
(* One mail per worker.  A worker mails after it confirmed, so the guard   *)
(* on the order's status stops it, and its own restarts, the next time.    *)
(***************************************************************************)
LEMMA MailInvStep ==
    ASSUME Typed, MailInv, [Next]_vars
    PROVE  MailInv'
<1>1. /\ Typed' /\ MessagesStay /\ OrdersFollow
      /\ \A w \in Workers : WorkerFollows(w)
  BY Follows
<1>2. paidMails \in [OrderIds -> [Workers -> Nat]] /\ OrdersTypeOK
  BY DEF Typed, TypeOK, WorkerTypeOK, OrdersTypeOK
<1>3. ASSUME NEW o \in OrderIds, NEW w \in Workers
      PROVE  paidMails'[o][w] <= 1 /\ (paidMails'[o][w] > 0 => Confirmed(o)')
  <2>1. paidMails[o][w] \in Nat BY <1>2
  <2>2. paidMails[o][w] <= 1 /\ (paidMails[o][w] > 0 => Confirmed(o))
    BY DEF MailInv, OncePerWorker
  <2>3. Confirmed(o) => Confirmed(o)' BY <1>1 DEF OrdersFollow
  <2>4. CASE paidMails'[o][w] = paidMails[o][w] BY <2>2, <2>3, <2>4
  <2>5. ASSUME wpc[w] = "mail", CurType(w) = "ORDER_PAID", CurOrder(w) = o,
               paidMails'[o][w] = paidMails[o][w] + 1
        PROVE  paidMails'[o][w] <= 1 /\ (paidMails'[o][w] > 0 => Confirmed(o)')
    <3>1. Confirmed(o) /\ paidMails[o][w] = 0 BY <2>5 DEF MailInv
    <3>2. QED BY <2>3, <2>5, <3>1
  <2>6. WorkerFollows(w) BY <1>1
  <2>7. QED BY <2>4, <2>5, <2>6 DEF WorkerFollows
<1>4. ASSUME NEW w \in Workers, wpc'[w] = "confirm"
      PROVE  paidMails'[CurOrder(w)'][w] = 0
  <2>1. WorkerFollows(w) BY <1>1
  <2>2. cur'[w] = cur[w] /\ wpc[w] \in {"load", "confirm"}
    BY <1>4, <2>1 DEF WorkerFollows
  <2>3. CurOrder(w)' = CurOrder(w) /\ CurOrder(w) \in OrderIds
    BY <1>1, <2>2, CurKept DEF Handling, IsOrder
  <2>4. paidMails'[CurOrder(w)][w] = paidMails[CurOrder(w)][w]
    BY <2>1, <2>2, <2>3 DEF WorkerFollows
  <2>5. paidMails[CurOrder(w)][w] = 0
    <3>1. CASE wpc[w] = "confirm" BY <3>1 DEF MailInv
    <3>2. CASE CurType(w) = "ORDER_PAID" /\ ~ AlreadyHandled(w)
      <4>1. ~ Confirmed(CurOrder(w)) BY <3>2 DEF AlreadyHandled
      <4>2. ~ (paidMails[CurOrder(w)][w] > 0) BY <2>3, <4>1 DEF MailInv
      <4>3. paidMails[CurOrder(w)][w] \in Nat BY <1>2, <2>3
      <4>4. QED BY <4>2, <4>3
    <3>3. QED BY <1>4, <2>1, <3>1, <3>2 DEF WorkerFollows
  <2>6. QED BY <2>3, <2>4, <2>5
<1>5. ASSUME NEW w \in Workers, wpc'[w] = "mail", CurType(w)' = "ORDER_PAID"
      PROVE  Confirmed(CurOrder(w))' /\ paidMails'[CurOrder(w)'][w] = 0
  <2>1. WorkerFollows(w) BY <1>1
  <2>2. cur'[w] = cur[w] /\ wpc[w] \in {"load", "confirm", "mail"}
    BY <1>5, <2>1 DEF WorkerFollows
  <2>3. /\ CurOrder(w)' = CurOrder(w) /\ CurOrder(w) \in OrderIds
        /\ CurType(w) = "ORDER_PAID"
    BY <1>1, <1>5, <2>2, CurKept DEF Handling, IsOrder
  <2>4. paidMails'[CurOrder(w)][w] = paidMails[CurOrder(w)][w]
    BY <1>5, <2>1, <2>3 DEF WorkerFollows
  <2>5. paidMails[CurOrder(w)][w] = 0 /\ orders'[CurOrder(w)].status = "confirmed"
    <3>1. CASE wpc[w] = "mail"
      <4>1. Confirmed(CurOrder(w)) /\ paidMails[CurOrder(w)][w] = 0
        BY <2>3, <3>1 DEF MailInv
      <4>2. QED BY <1>1, <2>3, <4>1 DEF OrdersFollow, Confirmed
    <3>2. CASE wpc[w] = "confirm" /\ SetConfirmed(CurOrder(w))
      BY <1>2, <2>3, <3>2 DEF MailInv, SetConfirmed, OrdersTypeOK, Order, NoOrder
    <3>3. QED BY <1>5, <2>1, <2>3, <3>1, <3>2 DEF WorkerFollows
  <2>6. QED BY <2>3, <2>4, <2>5 DEF Confirmed
<1>6. OncePerWorker' BY <1>3 DEF OncePerWorker
<1>7. QED BY <1>3, <1>4, <1>5, <1>6 DEF MailInv

LEMMA MailInvInit == ASSUME Init PROVE MailInv
<1>1. \A o \in OrderIds, w \in Workers : paidMails[o][w] = 0 BY DEF Init, WorkerInit
<1>2. \A w \in Workers : wpc[w] = "stopped" BY DEF Init, WorkerInit
<1>3. QED BY <1>1, <1>2 DEF MailInv, OncePerWorker

LEMMA MailInvariance == Spec => []MailInv
<1>1. Init => MailInv BY MailInvInit
<1>2. Typed /\ MailInv /\ [Next]_vars => MailInv' BY MailInvStep
<1>3. QED BY <1>1, <1>2, Typing, PTL DEF Spec

(* One worker process, through its crashes and redeliveries, mails         *)
(* "payment received" for an order at most once.                           *)
THEOREM OneMailPerWorker == Spec => []OncePerWorker
<1>1. MailInv => OncePerWorker BY DEF MailInv
<1>2. QED BY <1>1, MailInvariance, PTL

(* From end to end: whoever is mailed "payment received", by whatever      *)
(* worker, has transferred exactly the order's amount on a link of that    *)
(* order.  Nothing in the worker looks at a transfer; it is the chain from *)
(* the webhook to the row, the queue and the row again that carries it.    *)
THEOREM MailedOnlyIfSettled ==
    Spec => [](\A o \in OrderIds, w \in Workers : paidMails[o][w] > 0 => SettledBy(o))
<1>1. MailInv /\ PaidInv /\ SettledInv =>
          \A o \in OrderIds, w \in Workers : paidMails[o][w] > 0 => SettledBy(o)
  BY DEF MailInv, PaidInv, SettledInv, PaidBeforeConfirmed, PaidOnlyIfSettled
<1>2. QED BY <1>1, MailInvariance, PaidInvariance, SettledInvariance, PTL

(***************************************************************************)
(* Deleted means done.  A worker gets to delete with its order confirmed   *)
(* or its mail sent, or with a body that asks for nothing; whoever deletes *)
(* a message later, with whatever receipt, the work stays done.            *)
(***************************************************************************)
Done(m) ==
    /\ queue[m].type = "ORDER_PAID" => Confirmed(queue[m].order)
    /\ queue[m].type = "ORDER_PLACED" => queue[m].order \in placedMails

(* What is done stays done. *)
LEMMA DoneStays ==
    ASSUME Typed, Typed', MessagesStay, OrdersFollow, placedMails \subseteq placedMails',
           NEW m \in MsgIds, Sent(m), Done(m)
    PROVE  Done(m)'
<1>1. queue'[m].type = queue[m].type /\ queue'[m].order = queue[m].order
  BY DEF MessagesStay
<1>2. queue[m].type = "ORDER_PAID" => queue[m].order \in OrderIds
  BY DEF Typed, WellFormed, MessagesRefer, Events, IsOrder
<1>3. QED BY <1>1, <1>2 DEF Done, OrdersFollow, Confirmed

LEMMA DoneInvStep ==
    ASSUME Typed, MailInv, DoneInv, [Next]_vars
    PROVE  DoneInv'
<1>1. /\ Typed' /\ MessagesStay /\ OrdersFollow /\ QueueFollow
      /\ \A w \in Workers : WorkerFollows(w)
  BY Follows
<1>2. placedMails \subseteq placedMails' \/ Workers = {}
  BY <1>1 DEF WorkerFollows
<1>3. \A w \in Workers : wpc[w] = "delete" => Done(cur[w].msg)
  BY DEF DoneInv, Done, CurType, CurOrder
<1>4. \A m \in MsgIds : queue[m].state = "deleted" => Done(m)
  BY DEF DoneInv, DeletedMeansDone, Done
<1>5. ASSUME NEW w \in Workers, wpc'[w] = "delete", NEW m, m = cur'[w].msg
      PROVE  Done(m)'
  <2>1. WorkerFollows(w) /\ WorkerRefers(w) /\ WorkerRefers(w)'
    BY <1>1 DEF Typed, WellFormed, WorkersRefer
  <2>2. m \in MsgIds BY <1>5, <2>1 DEF WorkerRefers, Receipt
  <2>3. CASE queue[m].type \notin Events /\ UNCHANGED queue
    BY <2>3 DEF Events, Done
  <2>4. ASSUME cur'[w] = cur[w], wpc[w] \in {"load", "mail", "delete"}
        PROVE  /\ m = cur[w].msg /\ Sent(m)
               /\ wpc[w] # "delete" => queue[m].type \in Events
    BY <1>5, <2>1, <2>4 DEF WorkerRefers, Handling, CurType
  <2>5. ASSUME cur'[w] = cur[w], wpc[w] = "delete"
        PROVE  Done(m)'
    BY <1>1, <1>2, <1>3, <2>2, <2>4, <2>5, DoneStays
  <2>6. ASSUME cur'[w] = cur[w], wpc[w] = "load", AlreadyHandled(w)
        PROVE  Done(m)'
    <3>1. Done(m) BY <2>4, <2>6 DEF AlreadyHandled, Done, CurType, CurOrder
    <3>2. QED BY <1>1, <1>2, <2>2, <2>4, <2>6, <3>1, DoneStays
  <2>7. ASSUME cur'[w] = cur[w], wpc[w] = "mail", SendEmail(w)
        PROVE  Done(m)'
    <3>0. m = cur[w].msg /\ Sent(m) /\ queue[m].type \in Events BY <2>4, <2>7
    <3>1. CASE queue[m].type = "ORDER_PAID"
      <4>1. Confirmed(queue[m].order)
        BY <2>7, <3>0, <3>1 DEF MailInv, CurType, CurOrder
      <4>2. Done(m) BY <3>1, <4>1 DEF Done
      <4>3. QED BY <1>1, <1>2, <2>2, <3>0, <4>2, DoneStays
    <3>2. CASE queue[m].type = "ORDER_PLACED"
      <4>1. queue[m].order \in placedMails'
        BY <2>7, <3>0, <3>2 DEF SendEmail, CurType, CurOrder
      <4>2. queue'[m].type = "ORDER_PLACED" /\ queue'[m].order = queue[m].order
        BY <1>1, <2>2, <3>0, <3>2 DEF MessagesStay
      <4>3. QED BY <4>1, <4>2 DEF Done
    <3>3. QED BY <3>0, <3>1, <3>2 DEF Events
  <2>8. QED BY <1>5, <2>1, <2>3, <2>5, <2>6, <2>7 DEF WorkerFollows
<1>6. ASSUME NEW m \in MsgIds, queue'[m].state = "deleted"
      PROVE  Done(m)'
  <2>1. CASE queue[m].state = "deleted"
    <3>1. Workers = {} => placedMails' = placedMails
      BY DEF Next, vars, Shopping, Paying, Working, Queueing, ApiCrash, workerVars
    <3>2. Sent(m) BY <2>1 DEF Sent
    <3>3. QED BY <1>1, <1>2, <1>4, <2>1, <3>1, <3>2, DoneStays
  <2>2. ASSUME NEW w \in Workers, wpc[w] = "delete", cur[w].msg = m
        PROVE  Done(m)'
    <3>1. Sent(m) BY <2>2 DEF Typed, WellFormed, WorkersRefer, WorkerRefers
    <3>2. QED BY <1>1, <1>2, <1>3, <2>2, <3>1, DoneStays
  <2>3. QED BY <1>1, <1>6, <2>1, <2>2 DEF QueueFollow
<1>7. \A w \in Workers : wpc'[w] = "delete" => Done(cur[w].msg)'
  BY <1>5 DEF Done
<1>8. QED BY <1>6, <1>7 DEF DoneInv, DeletedMeansDone, Done, CurType, CurOrder

LEMMA DoneInvInit == ASSUME Init PROVE DoneInv
BY DEF Init, QueueInit, WorkerInit, DoneInv, DeletedMeansDone

(* No worker deletes an event whose work is not done, whatever fails and   *)
(* however stale its receipt is.                                           *)
THEOREM NothingDeletedUndone == Spec => []DeletedMeansDone
<1>1. Init => DoneInv BY DoneInvInit
<1>2. Typed /\ MailInv /\ DoneInv /\ [Next]_vars => DoneInv' BY DoneInvStep
<1>3. DoneInv => DeletedMeansDone BY DEF DoneInv
<1>4. QED BY <1>1, <1>2, <1>3, Typing, MailInvariance, PTL DEF Spec

(***************************************************************************)
(* Acked means paid.  A webhook is answered 200 once it found the order    *)
(* not its own or the amount wrong, or wrote paid; an amount that was      *)
(* wrong stays wrong.  A SELECT that fails is answered 200 as well, so     *)
(* that the claim is for behaviours in which none does.                    *)
(***************************************************************************)

(* How a webhook gets to its answer, and a link to be acked. *)
AnswersFollow ==
    /\ \A h \in Hooks : hook'[h].pc \in {"publish", "answer"} =>
          /\ hook'[h].link = hook[h].link
          /\ \/ hook[h].pc \in {"publish", "answer"}
             \/ hook[h].pc = "load" /\ ~ Creditable(h)
             \/ hook[h].pc = "credit" /\ SetPaid(HookOrder(h))
    /\ \A h \in Hooks : hook'[h].pc = "answer" =>
          \/ hook[h].pc = "answer"
          \/ hook[h].pc = "load" /\ ~ Creditable(h)
          \/ hook[h].pc = "credit" /\ ~ SqsEnabled
          \/ hook[h].pc = "publish" /\ PublishOrderEvent("ORDER_PAID", HookOrder(h))
    /\ \A l \in LinkIds : links'[l].state = "acked" =>
          \/ links[l].state = "acked"
          \/ \E h \in Hooks : hook[h].pc = "answer" /\ hook[h].link = l

LEMMA AnswersKept ==
    ASSUME UNCHANGED <<hook, links>>
    PROVE  AnswersFollow
BY DEF AnswersFollow

LEMMA HookStepAnswers ==
    ASSUME "dbread" \notin FaultKinds, Typed, NEW h \in Hooks, HookStep(h)
    PROVE  AnswersFollow
<1>1. links \in [LinkIds -> PaymentLink] /\ hook \in [Hooks -> HookReq]
  BY DEF Typed, TypeOK, PaymentTypeOK
<1>2. CASE HookLoad(h)
  <2>1. UNCHANGED links BY <1>2 DEF HookLoad
  <2>2. /\ hook[h].pc = "load"
        /\ \/ HookGoTo(h, "credit")
           \/ ~ Creditable(h) /\ HookGoTo(h, "answer")
    BY <1>2 DEF HookLoad, Fault
  <2>3. QED BY <1>1, <2>1, <2>2 DEF HookGoTo, HookReq, AnswersFollow
<1>3. CASE HookCredit(h)
  <2>1. UNCHANGED links BY <1>3 DEF HookCredit
  <2>2. /\ hook[h].pc = "credit"
        /\ \/ /\ SetPaid(HookOrder(h))
              /\ \/ HookGoTo(h, "publish")
                 \/ HookGoTo(h, "answer") /\ ~ SqsEnabled
           \/ hook' = [hook EXCEPT ![h] = IdleHook]
    BY <1>3 DEF HookCredit, CreditFails
  <2>3. QED BY <1>1, <2>1, <2>2 DEF HookGoTo, HookReq, IdleHook, AnswersFollow
<1>4. CASE HookPublish(h)
  BY <1>1, <1>4 DEF HookPublish, HookGoTo, HookReq, AnswersFollow
<1>5. CASE HookAnswer(h)
  <2>1. \/ UNCHANGED links
        \/ links' = [l \in LinkIds |->
               IF l = hook[h].link THEN [links[l] EXCEPT !.state = "acked"] ELSE links[l]]
    BY <1>5 DEF HookAnswer
  <2>2. hook[h].pc = "answer" /\ hook' = [hook EXCEPT ![h] = IdleHook]
    BY <1>5 DEF HookAnswer
  <2>3. \A g \in Hooks : hook'[g].pc \in {"publish", "answer"} => hook'[g] = hook[g]
    BY <1>1, <2>2 DEF IdleHook
  <2>4. \A l \in LinkIds : links'[l].state = "acked" =>
            links[l].state = "acked" \/ l = hook[h].link
    BY <2>1
  <2>5. QED BY <2>2, <2>3, <2>4 DEF AnswersFollow
<1>6. QED BY <1>2, <1>3, <1>4, <1>5 DEF HookStep

LEMMA StepAnswers ==
    ASSUME "dbread" \notin FaultKinds, Typed, [Next]_vars
    PROVE  AnswersFollow
<1>1. links \in [LinkIds -> PaymentLink] /\ hook \in [Hooks -> HookReq]
  BY DEF Typed, TypeOK, PaymentTypeOK
<1>2. CASE ApiCrash BY <1>2 DEF ApiCrash, DropPayments, IdleHook, AnswersFollow
<1>3. ASSUME Shopping \/ (\E w \in Workers : Working(w)) \/ Queueing \/ UNCHANGED vars
      PROVE  UNCHANGED <<hook, links>>
  BY <1>3 DEF Shopping, Working, Queueing, vars, paymentVars
<1>4. ASSUME NEW t \in PayReqs, LinkStep(t)
      PROVE  AnswersFollow
  <2>1. UNCHANGED hook BY <1>4 DEF LinkStep, RequestLink, CallPayOS, SaveLink
  <2>2. UNCHANGED links \/ \E l \in LinkIds : \E o, n : IssueLink(l, o, n)
    BY <1>4 DEF LinkStep, RequestLink, CallPayOS, SaveLink
  <2>3. QED BY <1>1, <2>1, <2>2 DEF IssueLink, AnswersFollow
<1>5. ASSUME \/ \E l \in LinkIds, slip \in Slips : Transfer(l, slip)
             \/ \E h \in Hooks, l \in LinkIds : Deliver(h, l)
             \/ \E h \in Hooks : Ping(h)
      PROVE  AnswersFollow
  <2>1. ASSUME NEW l \in LinkIds, NEW slip \in Slips, Transfer(l, slip)
        PROVE  AnswersFollow
    BY <1>1, <2>1 DEF Transfer, AnswersFollow
  <2>2. ASSUME NEW h \in Hooks, (\E l \in LinkIds : Deliver(h, l)) \/ Ping(h)
        PROVE  AnswersFollow
    BY <1>1, <2>2 DEF Deliver, Ping, AnswersFollow
  <2>3. QED BY <1>5, <2>1, <2>2
<1>6. QED
  BY <1>2, <1>3, <1>4, <1>5, AnswersKept, HookStepAnswers DEF Next, Paying, PaymentStep

(* A transfer of the wrong amount stays one. *)
LEMMA MismatchKept ==
    ASSUME Typed, OrdersFollow, LinksFollow, NEW l \in LinkIds, Transferred(l),
           AmountMatches(l)'
    PROVE  AmountMatches(l) /\ links'[l].order = links[l].order
<1>1. IsOrder(links[l].order)
  BY DEF Typed, WellFormed, LinksRefer, Transferred
<1>2. /\ orders'[links[l].order].total = orders[links[l].order].total
      /\ links'[l].order = links[l].order /\ links'[l].got = links[l].got
  BY <1>1 DEF OrdersFollow, LinksFollow, IsOrder
<1>3. QED BY <1>2 DEF AmountMatches

LEMMA AckedInvStep ==
    ASSUME "dbread" \notin FaultKinds, Typed, AckedInv, [Next]_vars
    PROVE  AckedInv'
<1>1. OrdersFollow /\ LinksFollow /\ AnswersFollow BY Follows, StepAnswers
<1>2. orders \in [OrderIds -> Order \cup {NoOrder}] /\ hook \in [Hooks -> HookReq]
  BY DEF Typed, TypeOK, PaymentTypeOK
<1>3. ASSUME NEW o \in OrderIds, Paid(o) PROVE Paid(o)' BY <1>1, <1>3 DEF OrdersFollow
<1>4. ASSUME NEW h \in Hooks, hook[h].link # 0
      PROVE  /\ hook[h].link \in LinkIds /\ Transferred(hook[h].link)
             /\ HookOrder(h) \in OrderIds
  BY <1>4 DEF Typed, WellFormed, HooksRefer, LinksRefer, Transferred, HookOrder, IsOrder
<1>5. ASSUME NEW l \in LinkIds, links'[l].state = "acked", AmountMatches(l)'
      PROVE  Paid(links[l].order)' /\ links'[l].order = links[l].order
  <2>1. CASE links[l].state = "acked"
    <3>1. Transferred(l) BY <2>1 DEF Transferred
    <3>2. AmountMatches(l) /\ links'[l].order = links[l].order
      BY <1>1, <1>5, <3>1, MismatchKept
    <3>3. links[l].order \in OrderIds
      BY <3>1 DEF Typed, WellFormed, LinksRefer, Transferred, IsOrder
    <3>4. Paid(links[l].order) BY <2>1, <3>2 DEF AckedInv, AckedMeansPaid
    <3>5. orders'[links[l].order].payment = "paid" BY <1>1, <3>3, <3>4 DEF OrdersFollow, Paid
    <3>6. links'[l].order \in OrderIds /\ orders'[links'[l].order].payment = "paid"
      BY <3>2, <3>3, <3>5
    <3>7. QED BY <3>2, <3>6 DEF Paid
  <2>2. ASSUME NEW h \in Hooks, hook[h].pc = "answer", hook[h].link = l
        PROVE  Paid(links[l].order)' /\ links'[l].order = links[l].order
    <3>1. l # 0 BY DEF LinkIds
    <3>2. Transferred(l) /\ HookOrder(h) \in OrderIds BY <1>4, <2>2, <3>1
    <3>3. AmountMatches(l) /\ links'[l].order = links[l].order
      BY <1>1, <1>5, <3>2, MismatchKept
    <3>4. Paid(HookOrder(h)) /\ HookOrder(h) = links[l].order
      BY <2>2, <3>1, <3>3 DEF AckedInv, Creditable, HookOrder
    <3>5. orders'[links'[l].order].payment = "paid"
      BY <1>1, <3>2, <3>3, <3>4 DEF OrdersFollow, Paid
    <3>6. QED BY <3>3, <3>5 DEF Paid
  <2>3. QED BY <1>1, <1>5, <2>1, <2>2 DEF AnswersFollow
<1>6. ASSUME NEW h \in Hooks, hook'[h].pc \in {"publish", "answer"}, Creditable(h)'
      PROVE  Paid(HookOrder(h))'
  <2>1. hook'[h].link = hook[h].link /\ hook[h].link # 0
    BY <1>1, <1>6 DEF AnswersFollow, Creditable
  <2>2. hook[h].link \in LinkIds /\ Transferred(hook[h].link) /\ HookOrder(h) \in OrderIds
    BY <1>4, <2>1
  <2>3. \A l \in LinkIds : l = hook[h].link => AmountMatches(l)'
    BY <1>6, <2>1 DEF Creditable, AmountMatches
  <2>4. \A l \in LinkIds : l = hook[h].link =>
            AmountMatches(l) /\ links'[l].order = links[l].order
    BY <1>1, <2>2, <2>3, MismatchKept
  <2>5. Creditable(h) /\ HookOrder(h)' = HookOrder(h)
    BY <2>1, <2>2, <2>4 DEF Creditable, HookOrder
  <2>6. orders'[HookOrder(h)].payment = "paid"
    <3>1. CASE hook[h].pc \in {"publish", "answer"}
      BY <1>1, <2>2, <2>5, <3>1 DEF AckedInv, OrdersFollow, Paid
    <3>2. CASE SetPaid(HookOrder(h))
      BY <1>2, <2>2, <3>2 DEF SetPaid, Order, NoOrder
    <3>3. QED BY <1>1, <1>6, <2>5, <3>1, <3>2 DEF AnswersFollow
  <2>7. QED BY <2>5, <2>6 DEF Paid
<1>7. AckedMeansPaid' BY <1>5 DEF AckedMeansPaid, Paid
<1>8. QED BY <1>6, <1>7 DEF AckedInv

(* As long as no SELECT fails, payOS has its 200 for a transfer of the     *)
(* right amount only when the order is paid, whatever crashes, whatever    *)
(* write fails and whatever answer is lost.                                *)
THEOREM AckedPaid ==
    ASSUME "dbread" \notin FaultKinds
    PROVE  Spec => []AckedMeansPaid
<1>1. Init => AckedInv
  BY DEF Init, PaymentInit, NoLink, IdleHook, AckedInv, AckedMeansPaid
<1>2. Typed /\ AckedInv /\ [Next]_vars => AckedInv' BY AckedInvStep
<1>3. AckedInv => AckedMeansPaid BY DEF AckedInv
<1>4. QED BY <1>1, <1>2, <1>3, Typing, PTL DEF Spec

(***************************************************************************)
(* Acked means told.  As long as payOS has no 200 it calls again, and each *)
(* call that gets past the credit publishes.  The claim is for a           *)
(* deployment with a queue, and for behaviours in which no SELECT and no   *)
(* publish fails: both are answered 200.                                   *)
(***************************************************************************)
ToldNext(o) ==
    \E m \in MsgIds : /\ queue'[m].state # "unsent"
                      /\ queue'[m].type = "ORDER_PAID" /\ queue'[m].order = o

LEMMA ToldStays ==
    ASSUME MessagesStay, NEW o, Told(o)
    PROVE  ToldNext(o)
<1>1. PICK m \in MsgIds : IsEvent(m, "ORDER_PAID", o) BY DEF Told
<1>2. Sent(m)' /\ queue'[m].type = "ORDER_PAID" /\ queue'[m].order = o
  BY <1>1 DEF MessagesStay, IsEvent
<1>3. QED BY <1>2 DEF ToldNext, Sent

LEMMA PublishTells ==
    ASSUME "publish" \notin FaultKinds, Typed, NEW o,
           PublishOrderEvent("ORDER_PAID", o)
    PROVE  ToldNext(o)
<1>1. queue \in [MsgIds -> Message] BY DEF Typed, TypeOK, QueueTypeOK
<1>2. PICK m \in MsgIds : Enqueue(m, "ORDER_PAID", o)
  BY DEF PublishOrderEvent, Fault
<1>3. queue'[m] = [state |-> "visible", type |-> "ORDER_PAID", order |-> o, receives |-> 0]
  BY <1>1, <1>2 DEF Enqueue
<1>4. QED BY <1>3 DEF ToldNext

LEMMA ToldInvStep ==
    ASSUME "dbread" \notin FaultKinds, "publish" \notin FaultKinds, SqsEnabled,
           Typed, ToldInv, [Next]_vars
    PROVE  ToldInv'
<1>1. OrdersFollow /\ LinksFollow /\ AnswersFollow /\ MessagesStay
  BY Follows, StepAnswers, StepTyped
<1>2. ASSUME NEW h \in Hooks, hook[h].link # 0
      PROVE  hook[h].link \in LinkIds /\ Transferred(hook[h].link)
  BY <1>2 DEF Typed, WellFormed, HooksRefer, LinksRefer, Transferred
<1>3. ASSUME NEW l \in LinkIds, links'[l].state = "acked", AmountMatches(l)'
      PROVE  ToldNext(links'[l].order)
  <2>1. CASE links[l].state = "acked"
    <3>1. Transferred(l) BY <2>1 DEF Transferred
    <3>2. AmountMatches(l) /\ links'[l].order = links[l].order
      BY <1>1, <1>3, <3>1, MismatchKept
    <3>3. Told(links[l].order) BY <2>1, <3>2 DEF ToldInv, AckedMeansTold
    <3>4. QED BY <1>1, <3>2, <3>3, ToldStays
  <2>2. ASSUME NEW h \in Hooks, hook[h].pc = "answer", hook[h].link = l
        PROVE  ToldNext(links'[l].order)
    <3>1. l # 0 BY DEF LinkIds
    <3>2. Transferred(l) BY <1>2, <2>2, <3>1
    <3>3. AmountMatches(l) /\ links'[l].order = links[l].order
      BY <1>1, <1>3, <3>2, MismatchKept
    <3>4. Told(HookOrder(h)) /\ HookOrder(h) = links[l].order
      BY <2>2, <3>1, <3>3 DEF ToldInv, Creditable, HookOrder
    <3>5. QED BY <1>1, <3>3, <3>4, ToldStays
  <2>3. QED BY <1>1, <1>3, <2>1, <2>2 DEF AnswersFollow
<1>4. ASSUME NEW h \in Hooks, hook'[h].pc = "answer", Creditable(h)'
      PROVE  ToldNext(HookOrder(h)')
  <2>1. hook'[h].link = hook[h].link /\ hook[h].link # 0
    BY <1>1, <1>4 DEF AnswersFollow, Creditable
  <2>2. hook[h].link \in LinkIds /\ Transferred(hook[h].link) BY <1>2, <2>1
  <2>3. \A l \in LinkIds : l = hook[h].link => AmountMatches(l)'
    BY <1>4, <2>1 DEF Creditable, AmountMatches
  <2>4. \A l \in LinkIds : l = hook[h].link =>
            AmountMatches(l) /\ links'[l].order = links[l].order
    BY <1>1, <2>2, <2>3, MismatchKept
  <2>5. Creditable(h) /\ HookOrder(h)' = HookOrder(h)
    BY <2>1, <2>2, <2>4 DEF Creditable, HookOrder
  <2>6. CASE hook[h].pc = "answer"
    BY <1>1, <2>5, <2>6, ToldStays DEF ToldInv
  <2>7. CASE hook[h].pc = "publish" /\ PublishOrderEvent("ORDER_PAID", HookOrder(h))
    BY <2>5, <2>7, PublishTells
  <2>8. QED BY <1>1, <1>4, <2>5, <2>6, <2>7 DEF AnswersFollow
<1>5. QED
  BY <1>3, <1>4 DEF ToldInv, AckedMeansTold, Told, ToldNext, IsEvent, Sent

(* With a queue, and as long as no SELECT and no publish fails, payOS has  *)
(* its 200 for a transfer of the right amount only when ORDER_PAID has     *)
(* been sent for the order, wherever the API dies.                         *)
THEOREM AckedTold ==
    ASSUME "dbread" \notin FaultKinds, "publish" \notin FaultKinds, SqsEnabled
    PROVE  Spec => []AckedMeansTold
<1>1. Init => ToldInv
  BY DEF Init, PaymentInit, NoLink, IdleHook, ToldInv, AckedMeansTold
<1>2. Typed /\ ToldInv /\ [Next]_vars => ToldInv' BY ToldInvStep
<1>3. ToldInv => AckedMeansTold BY DEF ToldInv
<1>4. QED BY <1>1, <1>2, <1>3, Typing, PTL DEF Spec

(***************************************************************************)
(* The order system implements OrderLifecycle.  A step of the system is    *)
(* seen there in one of five ways, or not at all: an order appears, a      *)
(* transfer settles one, a webhook writes paid, a worker writes confirmed, *)
(* a worker mails.                                                         *)
(***************************************************************************)
Stages == [o \in OrderIds |-> stageOf(o)]
Bills == [o \in OrderIds |-> billOf(o)]
SettledOrders == {o \in OrderIds : SettledBy(o)}
ToldOrders == {o \in OrderIds : \E w \in Workers : paidMails[o][w] > 0}

LifeStep == Lifecycle!Next \/ UNCHANGED Lifecycle!lifecycleVars

LEMMA StageOf ==
    /\ \A o : stageOf(o) = IF ~ Exists(o) THEN "none"
                           ELSE IF Confirmed(o) THEN "confirmed"
                           ELSE IF Paid(o) THEN "paid" ELSE "pending"
    /\ \A o : stageOf(o)' = IF ~ Exists(o)' THEN "none"
                            ELSE IF Confirmed(o)' THEN "confirmed"
                            ELSE IF Paid(o)' THEN "paid" ELSE "pending"
BY DEF stageOf

(* A step that leaves the orders alone leaves their stage and bill alone. *)
LEMMA OrdersQuiet ==
    ASSUME UNCHANGED orders
    PROVE  UNCHANGED <<Stages, Bills>>
<1>1. \A o \in OrderIds : stageOf(o)' = stageOf(o)
  BY StageOf DEF Exists, Confirmed, Paid
<1>2. \A o \in OrderIds : billOf(o)' = billOf(o) BY DEF billOf
<1>3. QED BY <1>1, <1>2 DEF Stages, Bills

LEMMA MailsQuiet ==
    ASSUME UNCHANGED paidMails
    PROVE  UNCHANGED ToldOrders
BY DEF ToldOrders

(* What is settled is only added to, and only by a transfer. *)
LEMMA SettledGrows ==
    ASSUME Typed, OrdersFollow, LinksFollow
    PROVE  /\ SettledOrders \subseteq SettledOrders'
           /\ \A o \in SettledOrders' \ SettledOrders : \E l \in LinkIds :
                 ~ Transferred(l) /\ Transferred(l)' /\ links'[l].order = o
<1>1. \A o \in OrderIds : SettledBy(o) <=>
          \E l \in LinkIds : Transferred(l) /\ links[l].order = o /\ AmountMatches(l)
  BY DEF SettledBy, Transferred, AmountMatches
<1>2. \A o \in OrderIds : SettledBy(o)' <=>
          \E l \in LinkIds : Transferred(l)' /\ links'[l].order = o /\ AmountMatches(l)'
  BY DEF SettledBy, Transferred, AmountMatches
<1>3. ASSUME NEW o \in OrderIds, SettledBy(o) PROVE SettledBy(o)'
  BY <1>1, <1>2, <1>3, MatchKept
<1>4. ASSUME NEW o \in OrderIds, SettledBy(o)', ~ SettledBy(o)
      PROVE  \E l \in LinkIds : ~ Transferred(l) /\ Transferred(l)' /\ links'[l].order = o
  BY <1>1, <1>2, <1>4, MismatchKept
<1>5. QED BY <1>3, <1>4 DEF SettledOrders

LEMMA SettledQuiet ==
    ASSUME Typed, OrdersFollow, LinksFollow,
           \A l \in LinkIds : Transferred(l)' => Transferred(l)
    PROVE  UNCHANGED SettledOrders
BY SettledGrows

(* Nothing that the life cycle speaks of has changed. *)
LEMMA NothingSeen ==
    ASSUME UNCHANGED <<Stages, Bills, SettledOrders, ToldOrders>>
    PROVE  LifeStep
BY DEF LifeStep, Lifecycle!lifecycleVars, Stages, Bills, SettledOrders, ToldOrders

(* An INSERT is an order placed. *)
LEMMA PlaceSeen ==
    ASSUME Typed, NEW o \in OrderIds, NEW u, NEW n, NEW lines,
           NextOrder(o), CreateOrder(o, u, n, lines), UNCHANGED <<SettledOrders, ToldOrders>>
    PROVE  LifeStep
<1>1. OrdersTypeOK BY DEF Typed, TypeOK, OrdersTypeOK
<1>2. orders' = [orders EXCEPT ![o] = orders'[o]] /\ orders'[o].status = "pending"
      /\ orders'[o].payment = "pending"
  BY <1>1 DEF CreateOrder, OrdersTypeOK
<1>3. \A p \in OrderIds : p # o => orders'[p] = orders[p] BY <1>1, <1>2 DEF OrdersTypeOK
<1>4. \A p \in OrderIds : p # o => stageOf(p)' = stageOf(p)
  BY <1>3, StageOf DEF Exists, Confirmed, Paid
<1>5. stageOf(o) = "none" BY StageOf DEF NextOrder
<1>6. stageOf(o)' = "pending" BY <1>2, StageOf DEF Exists, Confirmed, Paid
<1>7. \A p \in OrderIds : p # o => billOf(p)' = billOf(p) BY <1>3 DEF billOf
<1>8. Stages[o] = "none" /\ Stages' = [Stages EXCEPT ![o] = "pending"]
  BY <1>4, <1>5, <1>6 DEF Stages
<1>9. Bills' = [Bills EXCEPT ![o] = Bills'[o]] BY <1>7 DEF Bills
<1>10. Lifecycle!Place(o)
  BY <1>8, <1>9 DEF Lifecycle!Place, Lifecycle!Move, Stages, Bills, SettledOrders, ToldOrders
<1>11. QED BY <1>10 DEF LifeStep, Lifecycle!Next

(* The bills of the orders there are stay, whichever column is written. *)
LEMMA ColumnSeen ==
    ASSUME Typed, NEW o, IsOrder(o), SetPaid(o) \/ SetConfirmed(o) \/ \E l : SetLink(o, l)
    PROVE  /\ UNCHANGED Bills
           /\ \A p \in OrderIds : p # o => stageOf(p)' = stageOf(p)
           /\ Exists(o)'
           /\ Paid(o)' <=> Paid(o) \/ SetPaid(o)
           /\ Confirmed(o)' <=> Confirmed(o) \/ SetConfirmed(o)
<1>1. OrdersTypeOK BY DEF Typed, TypeOK, OrdersTypeOK
<1>2. \A p \in OrderIds : p # o => orders'[p] = orders[p]
  BY <1>1 DEF OrdersTypeOK, SetPaid, SetConfirmed, SetLink
<1>3. orders[o] \in Order /\ o \in OrderIds
  BY <1>1 DEF OrdersTypeOK, IsOrder, Exists, NoOrder
<1>4. /\ orders'[o].user = orders[o].user /\ orders'[o].total = orders[o].total
      /\ orders'[o].items = orders[o].items
  BY <1>1, <1>3 DEF OrdersTypeOK, SetPaid, SetConfirmed, SetLink, Order
<1>5. \A p \in OrderIds : billOf(p)' = billOf(p) BY <1>2, <1>4 DEF billOf
<1>6. \A p \in OrderIds : p # o => stageOf(p)' = stageOf(p)
  BY <1>2, StageOf DEF Exists, Confirmed, Paid
<1>7. Exists(o)'
  BY <1>1, <1>3 DEF OrdersTypeOK, SetPaid, SetConfirmed, SetLink, Order, Exists, IsOrder
<1>8. SetPaid(o) => orders'[o].payment = "paid" /\ orders'[o].status = orders[o].status
  BY <1>1, <1>3 DEF OrdersTypeOK, SetPaid, Order
<1>9. SetConfirmed(o) =>
        orders'[o].status = "confirmed" /\ orders'[o].payment = orders[o].payment
  BY <1>1, <1>3 DEF OrdersTypeOK, SetConfirmed, Order
<1>10. \A l : SetLink(o, l) =>
        orders'[o].status = orders[o].status /\ orders'[o].payment = orders[o].payment
  BY <1>1, <1>3 DEF OrdersTypeOK, SetLink, Order
<1>11. QED BY <1>5, <1>6, <1>7, <1>8, <1>9, <1>10 DEF Bills, Paid, Confirmed

(* Linking is not seen at all. *)
LEMMA SetLinkSeen ==
    ASSUME Typed, NEW o, IsOrder(o), NEW l, SetLink(o, l)
    PROVE  UNCHANGED <<Stages, Bills>>
<1>1. OrdersTypeOK BY DEF Typed, TypeOK, OrdersTypeOK
<1>2. orders[o] \in Order /\ o \in OrderIds
  BY <1>1 DEF OrdersTypeOK, IsOrder, Exists, NoOrder
<1>3. /\ orders'[o].status = orders[o].status /\ orders'[o].payment = orders[o].payment
      /\ \A p \in OrderIds : p # o => orders'[p] = orders[p]
  BY <1>1, <1>2 DEF OrdersTypeOK, SetLink, Order
<1>4. \A p \in OrderIds : stageOf(p)' = stageOf(p)
  BY <1>3, StageOf DEF Exists, Confirmed, Paid
<1>5. QED BY <1>4, ColumnSeen DEF Stages

(* A webhook's UPDATE pays an order that was pending, or says so again. *)
LEMMA PaidSeen ==
    ASSUME Typed, PaidInv, NEW o \in SettledOrders, IsOrder(o), SetPaid(o),
           UNCHANGED <<SettledOrders, ToldOrders>>
    PROVE  LifeStep
<1>1. /\ UNCHANGED Bills /\ Exists(o)' /\ Paid(o)' /\ o \in OrderIds
      /\ \A p \in OrderIds : p # o => stageOf(p)' = stageOf(p)
  BY ColumnSeen DEF IsOrder
<1>2. CASE Paid(o)
  <2>1. Confirmed(o)' <=> Confirmed(o)
    BY <1>1 DEF Typed, TypeOK, SetPaid, Confirmed, Order, NoOrder
  <2>2. stageOf(o)' = stageOf(o) BY <1>1, <1>2, <2>1, StageOf DEF IsOrder
  <2>3. UNCHANGED Stages BY <1>1, <2>2 DEF Stages
  <2>4. QED BY <1>1, <2>3, NothingSeen
<1>3. CASE ~ Paid(o)
  <2>1. ~ Confirmed(o) BY <1>1, <1>3 DEF PaidInv, PaidBeforeConfirmed
  <2>2. ~ Confirmed(o)' BY <1>1, <2>1 DEF Typed, TypeOK, SetPaid, Confirmed, Order, NoOrder
  <2>3. stageOf(o) = "pending" /\ stageOf(o)' = "paid"
    BY <1>1, <1>3, <2>1, <2>2, StageOf DEF IsOrder
  <2>4. Stages[o] = "pending" /\ Stages' = [Stages EXCEPT ![o] = "paid"]
    BY <1>1, <2>3 DEF Stages
  <2>5. Lifecycle!Credit(o)
    BY <1>1, <2>4
    DEF Lifecycle!Credit, Lifecycle!Move, Stages, Bills, SettledOrders, ToldOrders
  <2>6. QED BY <1>1, <2>5 DEF LifeStep, Lifecycle!Next
<1>4. QED BY <1>2, <1>3

(* A worker's UPDATE confirms an order that is paid, or says so again. *)
LEMMA ConfirmedSeen ==
    ASSUME Typed, NEW o, IsOrder(o), Paid(o), SetConfirmed(o),
           UNCHANGED <<SettledOrders, ToldOrders>>
    PROVE  LifeStep
<1>1. /\ UNCHANGED Bills /\ Exists(o)' /\ Paid(o)' /\ Confirmed(o)' /\ o \in OrderIds
      /\ \A p \in OrderIds : p # o => stageOf(p)' = stageOf(p)
  BY ColumnSeen DEF IsOrder
<1>2. stageOf(o)' = "confirmed" BY <1>1, StageOf
<1>3. CASE Confirmed(o)
  <2>1. UNCHANGED Stages BY <1>1, <1>2, <1>3, StageOf DEF Stages, IsOrder
  <2>2. QED BY <1>1, <2>1, NothingSeen
<1>4. CASE ~ Confirmed(o)
  <2>1. stageOf(o) = "paid" BY <1>4, StageOf DEF IsOrder
  <2>2. Stages[o] = "paid" /\ Stages' = [Stages EXCEPT ![o] = "confirmed"]
    BY <1>1, <1>2, <2>1 DEF Stages
  <2>3. Lifecycle!Confirm(o)
    BY <1>1, <2>2
    DEF Lifecycle!Confirm, Lifecycle!Move, Stages, Bills, SettledOrders, ToldOrders
  <2>4. QED BY <1>1, <2>3 DEF LifeStep, Lifecycle!Next
<1>5. QED BY <1>3, <1>4

(* A mail tells the customer of a confirmed order. *)
LEMMA MailSeen ==
    ASSUME Typed, MailInv, NEW w \in Workers, wpc[w] = "mail", SendEmail(w),
           UNCHANGED <<Stages, Bills, SettledOrders>>
    PROVE  LifeStep
<1>1. paidMails \in [OrderIds -> [Workers -> Nat]] BY DEF Typed, TypeOK, WorkerTypeOK
<1>2. IsOrder(CurOrder(w))
  BY DEF Typed, WellFormed, WorkersRefer, WorkerRefers, Handling, MessagesRefer, Receipt,
     CurType, CurOrder
<1>3. CASE CurType(w) # "ORDER_PAID"
  <2>1. UNCHANGED paidMails BY <1>3 DEF SendEmail
  <2>2. QED BY <2>1, MailsQuiet, NothingSeen
<1>4. CASE CurType(w) = "ORDER_PAID"
  <2>1. PICK o \in OrderIds : o = CurOrder(w) /\ Confirmed(o) /\ Exists(o)
    BY <1>2, <1>4 DEF MailInv, IsOrder
  <2>2. paidMails' = [paidMails EXCEPT ![o][w] = @ + 1] BY <1>4, <2>1 DEF SendEmail
  <2>3. paidMails'[o][w] = paidMails[o][w] + 1 BY <1>1, <2>1, <2>2
  <2>4. \A p \in OrderIds, v \in Workers : p # o \/ v # w => paidMails'[p][v] = paidMails[p][v]
    BY <1>1, <2>1, <2>2
  <2>5. paidMails[o][w] \in Nat BY <1>1, <2>1
  <2>6. ToldOrders' = ToldOrders \cup {o} BY <2>1, <2>3, <2>4, <2>5 DEF ToldOrders
  <2>7. Stages[o] = "confirmed" BY <2>1, StageOf DEF Stages
  <2>8. Lifecycle!Tell(o)
    BY <2>6, <2>7 DEF Lifecycle!Tell, Stages, Bills, SettledOrders, ToldOrders
  <2>9. QED BY <2>1, <2>8 DEF LifeStep, Lifecycle!Next
<1>5. QED BY <1>3, <1>4

(* A transfer settles the order of its link, or is of a wrong amount. *)
LEMMA TransferSeen ==
    ASSUME Typed, OrdersFollow, LinksFollow, NEW l \in LinkIds, NEW slip \in Slips,
           Transfer(l, slip), UNCHANGED <<Stages, Bills, ToldOrders>>
    PROVE  LifeStep
<1> DEFINE o == links[l].order
<1>1. links \in [LinkIds -> PaymentLink] BY DEF Typed, TypeOK, PaymentTypeOK
<1>2. IsOrder(o) BY DEF Transfer, Typed, WellFormed, LinksRefer
<1>3. links'[l].order = o /\ \A k \in LinkIds : k # l => links'[k] = links[k]
  BY <1>1 DEF Transfer, PaymentLink
<1> HIDE DEF o
<1>4. \A k \in LinkIds : (~ Transferred(k) /\ Transferred(k)') => links'[k].order = o
  BY <1>3 DEF Transferred
<1>5. SettledOrders' = SettledOrders \/ SettledOrders' = SettledOrders \cup {o}
  BY <1>4, SettledGrows
<1>6. CASE SettledOrders' = SettledOrders \cup {o}
  <2>1. o \in OrderIds /\ Stages[o] # "none" BY <1>2, StageOf DEF Stages, IsOrder
  <2>2. Lifecycle!Settle(o)
    BY <1>6, <2>1 DEF Lifecycle!Settle, Stages, Bills, SettledOrders, ToldOrders
  <2>3. QED BY <2>1, <2>2 DEF LifeStep, Lifecycle!Next
<1>7. QED BY <1>5, <1>6, NothingSeen

(* What shopping does to the orders, and nothing else that is seen. *)
LEMMA ShoppingSeen ==
    ASSUME Typed, OrdersFollow, LinksFollow, Shopping
    PROVE  LifeStep
<1>1. UNCHANGED <<links, paidMails>> BY DEF Shopping, paymentVars, workerVars
<1>2. UNCHANGED <<SettledOrders, ToldOrders>>
  BY <1>1, SettledQuiet, MailsQuiet DEF Transferred
<1>3. QED BY <1>2, ShoppingOrders, PlaceSeen, OrdersQuiet, NothingSeen

LEMMA LinkStepSeen ==
    ASSUME Typed, OrdersFollow, LinksFollow, NEW t \in PayReqs, LinkStep(t),
           UNCHANGED paidMails
    PROVE  LifeStep
<1>1. links \in [LinkIds -> PaymentLink] BY DEF Typed, TypeOK, PaymentTypeOK
<1>2. UNCHANGED links \/ \E l \in LinkIds : \E o, n : NextLink(l) /\ IssueLink(l, o, n)
  BY DEF LinkStep, RequestLink, CallPayOS, SaveLink
<1>3. \A l \in LinkIds : Transferred(l)' => Transferred(l)
  BY <1>1, <1>2 DEF IssueLink, Transferred
<1>4. UNCHANGED <<SettledOrders, ToldOrders>> BY <1>3, SettledQuiet, MailsQuiet
<1>5. pay[t].pc = "save" => IsOrder(pay[t].order)
  BY DEF Typed, WellFormed, PayReqsRefer
<1>6. UNCHANGED orders \/ \E o, l : IsOrder(o) /\ SetLink(o, l)
  BY <1>5 DEF LinkStep, RequestLink, CallPayOS, SaveLink
<1>7. QED BY <1>4, <1>6, SetLinkSeen, OrdersQuiet, NothingSeen

LEMMA HookStepSeen ==
    ASSUME Typed, PaidInv, SettledInv, OrdersFollow, LinksFollow, NEW h \in Hooks, HookStep(h),
           UNCHANGED paidMails
    PROVE  LifeStep
<1>1. links \in [LinkIds -> PaymentLink] BY DEF Typed, TypeOK, PaymentTypeOK
<1>2. \A l \in LinkIds : Transferred(l)' => Transferred(l)
  <2>1. \/ UNCHANGED links
        \/ links' = [l \in LinkIds |->
               IF l = hook[h].link THEN [links[l] EXCEPT !.state = "acked"] ELSE links[l]]
    BY DEF HookStep, HookLoad, HookCredit, HookPublish, HookAnswer
  <2>2. hook[h].link # 0 => Transferred(hook[h].link)
    BY DEF Typed, WellFormed, HooksRefer
  <2>3. \A l \in LinkIds : l # 0 BY DEF LinkIds
  <2>4. \A l \in LinkIds : links'[l] = links[l] \/ l = hook[h].link BY <2>1
  <2>5. ASSUME NEW l \in LinkIds, Transferred(l)' PROVE Transferred(l)
    BY <2>2, <2>3, <2>4, <2>5 DEF Transferred
  <2>6. QED BY <2>5
<1>3. UNCHANGED <<SettledOrders, ToldOrders>> BY <1>2, SettledQuiet, MailsQuiet
<1>4. UNCHANGED orders \/ (hook[h].pc = "credit" /\ SetPaid(HookOrder(h)))
  BY DEF HookStep, HookLoad, HookCredit, HookPublish, HookAnswer
<1>5. CASE hook[h].pc = "credit" /\ SetPaid(HookOrder(h))
  <2>1. /\ Transferred(hook[h].link) /\ AmountMatches(hook[h].link)
        /\ IsOrder(HookOrder(h))
    BY <1>5 DEF SettledInv, Typed, WellFormed, HooksRefer, LinksRefer, Transferred,
       HookOrder
  <2>2. HookOrder(h) \in SettledOrders
    BY <2>1 DEF SettledOrders, SettledBy, Transferred, AmountMatches, HookOrder, IsOrder
  <2>3. QED BY <1>3, <1>5, <2>1, <2>2, PaidSeen
<1>6. QED BY <1>3, <1>4, <1>5, OrdersQuiet, NothingSeen

LEMMA PayingSeen ==
    ASSUME Typed, PaidInv, SettledInv, OrdersFollow, LinksFollow, Paying
    PROVE  LifeStep
<1>1. UNCHANGED paidMails BY DEF Paying, workerVars
<1>2. ASSUME NEW l \in LinkIds, NEW slip \in Slips, Transfer(l, slip)
      PROVE  LifeStep
  BY <1>1, <1>2, OrdersQuiet, MailsQuiet, TransferSeen DEF Transfer
<1>3. ASSUME NEW h \in Hooks, (\E l \in LinkIds : Deliver(h, l)) \/ Ping(h)
      PROVE  LifeStep
  <2>1. UNCHANGED <<orders, links>> BY <1>3 DEF Deliver, Ping
  <2>2. UNCHANGED <<SettledOrders, ToldOrders>>
    BY <1>1, <2>1, SettledQuiet, MailsQuiet DEF Transferred
  <2>3. QED BY <2>1, <2>2, OrdersQuiet, NothingSeen
<1>4. QED
  BY <1>1, <1>2, <1>3, LinkStepSeen, HookStepSeen DEF Paying, PaymentStep

LEMMA WorkingSeen ==
    ASSUME Typed, PaidInv, MailInv, OrdersFollow, LinksFollow, NEW w \in Workers, Working(w)
    PROVE  LifeStep
<1>1. UNCHANGED links BY DEF Working, paymentVars
<1>2. UNCHANGED SettledOrders BY <1>1, SettledQuiet DEF Transferred
<1>3. CASE Confirm(w)
  <2>1. UNCHANGED ToldOrders BY <1>3, MailsQuiet DEF Confirm
  <2>2. UNCHANGED orders \/ SetConfirmed(CurOrder(w)) BY <1>3 DEF Confirm
  <2>3. /\ CurType(w) = "ORDER_PAID" /\ IsOrder(CurOrder(w))
        /\ cur[w].msg \in MsgIds /\ Sent(cur[w].msg)
    BY <1>3 DEF Confirm, PaidInv, Typed, WellFormed, WorkersRefer, WorkerRefers, Handling,
       MessagesRefer, Receipt, CurType, CurOrder
  <2>4. Paid(CurOrder(w))
    BY <2>3 DEF PaidInv, PaidNews, IsEvent, CurType, CurOrder, IsOrder
  <2>5. QED
    BY <1>2, <2>1, <2>2, <2>3, <2>4, ConfirmedSeen, OrdersQuiet, NothingSeen
<1>4. CASE Mail(w)
  <2>1. UNCHANGED <<Stages, Bills>> BY <1>4, OrdersQuiet DEF Mail
  <2>2. wpc[w] = "mail" /\ (UNCHANGED paidMails \/ SendEmail(w)) BY <1>4 DEF Mail
  <2>3. QED BY <1>2, <2>1, <2>2, MailSeen, MailsQuiet, NothingSeen
<1>5. ASSUME \/ Stop(w) \/ Receive(w) \/ EmptyReceive(w) \/ ReceiveFails(w)
             \/ BackoffEnds(w) \/ Pick(w) \/ BatchDone(w) \/ Load(w) \/ Delete(w)
             \/ Signal(w) \/ Crash(w) \/ Start(w)
      PROVE  LifeStep
  <2>1. UNCHANGED <<orders, paidMails>>
    BY <1>5 DEF workerVars, Stop, Receive, EmptyReceive, ReceiveFails, BackoffEnds, Pick,
       BatchDone, Load, Delete, Signal, Crash, Start
  <2>2. QED BY <1>2, <2>1, OrdersQuiet, MailsQuiet, NothingSeen
<1>6. QED BY <1>3, <1>4, <1>5 DEF Working, WorkerStep

LEMMA StepSeen ==
    ASSUME Typed, PaidInv, SettledInv, MailInv, [Next]_vars
    PROVE  LifeStep
<1>1. OrdersFollow /\ LinksFollow BY Follows
<1>2. ASSUME Queueing \/ ApiCrash \/ UNCHANGED vars
      PROVE  LifeStep
  <2>1. UNCHANGED <<orders, links, paidMails>>
    BY <1>2 DEF Queueing, ApiCrash, vars, paymentVars, workerVars
  <2>2. UNCHANGED <<SettledOrders, ToldOrders>>
    BY <1>1, <2>1, SettledQuiet, MailsQuiet DEF Transferred
  <2>3. QED BY <2>1, <2>2, OrdersQuiet, NothingSeen
<1>3. QED BY <1>1, <1>2, ShoppingSeen, PayingSeen, WorkingSeen DEF Next

LEMMA InitSeen == ASSUME Init PROVE Lifecycle!Init
<1>1. \A o \in OrderIds : ~ Exists(o) BY DEF Init, OrdersInit, NoOrder, Exists
<1>2. \A l \in LinkIds : ~ Transferred(l) BY DEF Init, PaymentInit, NoLink, Transferred
<1>3. \A o \in OrderIds : ~ SettledBy(o) BY <1>2 DEF SettledBy, Transferred
<1>4. \A o \in OrderIds, w \in Workers : paidMails[o][w] = 0 BY DEF Init, WorkerInit
<1>5. QED BY <1>1, <1>3, <1>4, StageOf DEF Lifecycle!Init

(* The API, payOS, the queue and the workers, with every crash, failure,   *)
(* redelivery and race there is, implement the life cycle of an order.     *)
THEOREM LifecycleImplemented == Spec => Implements
<1>1. Init => Lifecycle!Init BY InitSeen
<1>2. Typed /\ PaidInv /\ SettledInv /\ MailInv /\ [Next]_vars =>
        [Lifecycle!Next]_Lifecycle!lifecycleVars
  BY StepSeen DEF LifeStep
<1>3. QED
  BY <1>1, <1>2, Typing, PaidInvariance, SettledInvariance, MailInvariance, PTL
  DEF Spec, Implements, Lifecycle!Spec

(***************************************************************************)
(* What a step does to carts and requests                                  *)
(***************************************************************************)

(* A row that a DELETE has taken out of the cart, or left alone. *)
Gone(r) ==
    \/ rows'[r] = rows[r]
    \/ rows[r].state = "live" /\ rows'[r] = [rows[r] EXCEPT !.state = "removed"]
    \/ /\ rows[r].state = "live" /\ rows'[r] = [rows[r] EXCEPT !.state = "cleared"]
       /\ \E t \in Tabs : At(t, "clear") /\ TabUser[t] = rows[r].user

(* The statements that write cart_items, with who runs them when. *)
RowsStep ==
    \/ UNCHANGED <<rows, late>>
    \/ \E t \in Tabs, r \in RowIds : At(t, "insert") /\ Answer(t) /\ AddItem(t, r)
    \/ \E t \in Tabs : At(t, "update") /\ UpdateItemQuantity(t, req[t].row)
    \/ UNCHANGED late /\ \A r \in RowIds : Gone(r)

LEMMA StepRows ==
    ASSUME Typed, [Next]_vars
    PROVE  RowsStep
<1>1. rows \in [RowIds -> CartRow] BY DEF Typed, TypeOK, CheckoutTypeOK
<1>2. ASSUME NEW t \in Tabs, NEW r \in RowIds, RemoveFromCart(t, r)
      PROVE  RowsStep
  BY <1>1, <1>2 DEF RemoveFromCart, CartRows, RowsStep, Gone
<1>3. ASSUME NEW t \in Tabs, PlaceClear(t)
      PROVE  RowsStep
  BY <1>1, <1>3 DEF PlaceClear, ClearCart, CartRows, RowsStep, Gone
<1>4. ASSUME NEW t \in Tabs, InsertItem(t) \/ UpdateItem(t)
      PROVE  RowsStep
  BY <1>4 DEF InsertItem, UpdateItem, RowsStep
<1>5. ASSUME Shopping PROVE RowsStep
  <2>1. ASSUME ~ UNCHANGED <<rows, late>>
        PROVE  \E t \in Tabs : \/ \E r \in RowIds : RemoveFromCart(t, r)
                               \/ PlaceClear(t) \/ InsertItem(t) \/ UpdateItem(t)
    BY <1>5, <2>1 DEF Shopping, CheckoutStep, Shop, Place, Sell, BeginAdd, FindCart,
       MakeCart, FindItem, ReadCart, PlaceCreate, PlacePublish
  <2>2. QED BY <1>2, <1>3, <1>4, <2>1, SMTT(30) DEF RowsStep
<1>6. ASSUME Paying \/ (\E w \in Workers : Working(w)) \/ Queueing \/ ApiCrash \/ UNCHANGED vars
      PROVE  RowsStep
  BY <1>6 DEF Paying, Working, Queueing, ApiCrash, vars, checkoutVars, RowsStep
<1>7. QED BY <1>5, <1>6 DEF Next

LEMMA Restated ==
    ASSUME rows \in [RowIds -> CartRow], NEW r \in RowIds, NEW state \in {"removed", "cleared"},
           rows'[r] = [rows[r] EXCEPT !.state = state]
    PROVE  /\ rows'[r].state = state
           /\ rows'[r].user = rows[r].user /\ rows'[r].product = rows[r].product
           /\ rows'[r].qty = rows[r].qty /\ rows'[r].added = rows[r].added
BY DEF CartRow

(* A row keeps its user and product, and what was added to it only grows. *)
RowsFollow ==
    \A r \in RowIds : rows[r].state # "unused" =>
        /\ rows'[r].state # "unused"
        /\ rows'[r].user = rows[r].user /\ rows'[r].product = rows[r].product
        /\ rows[r].added <= rows'[r].added

LEMMA RowsStepFollows ==
    ASSUME Typed, BilledInv, RowsStep
    PROVE  /\ RowsFollow
           /\ \A r \in RowIds : rows'[r].state # "unused" => rows'[r].qty <= rows'[r].added
<1>1. rows \in [RowIds -> CartRow] /\ req \in [Tabs -> Request]
  BY DEF Typed, TypeOK, CheckoutTypeOK
<1>2. \A r \in RowIds : /\ rows[r].added \in Nat /\ rows[r].qty \in Nat
                        /\ rows[r].state # "unused" => rows[r].qty <= rows[r].added
  BY <1>1 DEF CartRow, BilledInv
<1>3. CASE UNCHANGED rows BY <1>2, <1>3 DEF RowsFollow
<1>4. ASSUME NEW t \in Tabs, NEW r \in RowIds, AddItem(t, r)
      PROVE  /\ RowsFollow
             /\ \A k \in RowIds : rows'[k].state # "unused" => rows'[k].qty <= rows'[k].added
  <2>1. rows[r].state = "unused" /\ req[t].qty \in Nat
    BY <1>1, <1>4 DEF AddItem, NextRow, Request
  <2>2. rows'[r].qty = req[t].qty /\ rows'[r].added = req[t].qty
    BY <1>1, <1>4 DEF AddItem
  <2>3. \A k \in RowIds : k # r => rows'[k] = rows[k] BY <1>1, <1>4 DEF AddItem
  <2>4. QED BY <1>2, <2>1, <2>2, <2>3 DEF RowsFollow
<1>5. ASSUME NEW t \in Tabs, At(t, "update"), UpdateItemQuantity(t, req[t].row)
      PROVE  /\ RowsFollow
             /\ \A k \in RowIds : rows'[k].state # "unused" => rows'[k].qty <= rows'[k].added
  <2>1. PICK r \in RowIds : r = req[t].row
    BY <1>5 DEF At, Typed, WellFormed, RequestsRefer
  <2>2. /\ req[t].had \in Nat /\ req[t].qty \in Nat /\ req[t].had <= rows[r].added
        /\ rows[r].state # "unused"
    BY <1>1, <1>5, <2>1 DEF Request, BilledInv
  <2>3. CASE rows[r].state = "live"
    <3>1. rows' = [rows EXCEPT ![r].qty = req[t].had + req[t].qty,
                               ![r].added = @ + req[t].qty]
      BY <1>5, <2>1, <2>3 DEF UpdateItemQuantity, NewQty
    <3>2. /\ rows'[r].qty = req[t].had + req[t].qty
          /\ rows'[r].added = rows[r].added + req[t].qty
          /\ rows'[r].state = rows[r].state /\ rows'[r].user = rows[r].user
          /\ rows'[r].product = rows[r].product
      BY <1>1, <3>1 DEF CartRow
    <3>3. \A k \in RowIds : k # r => rows'[k] = rows[k] BY <1>1, <3>1
    <3>4. QED BY <1>2, <2>2, <3>2, <3>3 DEF RowsFollow
  <2>4. CASE rows[r].state # "live" BY <1>3, <1>5, <2>1, <2>4 DEF UpdateItemQuantity
  <2>5. QED BY <2>3, <2>4
<1>6. ASSUME \A r \in RowIds : Gone(r)
      PROVE  /\ RowsFollow
             /\ \A k \in RowIds : rows'[k].state # "unused" => rows'[k].qty <= rows'[k].added
  <2>1. \A r \in RowIds :
            /\ rows'[r].user = rows[r].user /\ rows'[r].product = rows[r].product
            /\ rows'[r].qty = rows[r].qty /\ rows'[r].added = rows[r].added
            /\ rows'[r].state # "unused" <=> rows[r].state # "unused"
    <3>1. ASSUME NEW r \in RowIds PROVE
              \/ rows'[r] = rows[r]
              \/ rows[r].state = "live" /\ rows'[r] = [rows[r] EXCEPT !.state = "removed"]
              \/ rows[r].state = "live" /\ rows'[r] = [rows[r] EXCEPT !.state = "cleared"]
      BY <1>6 DEF Gone
    <3>2. QED BY <1>1, <3>1, Restated
  <2>2. QED BY <1>2, <2>1 DEF RowsFollow
<1>7. QED BY <1>3, <1>4, <1>5, <1>6 DEF RowsStep

(* How a request gets to insert, to update, to create, to clear and to     *)
(* publish.                                                                *)
TabsFollow ==
    \A t \in Tabs :
        /\ req'[t].pc = "insert" =>
              \/ req'[t] = req[t]
              \/ /\ UNCHANGED rows /\ req'[t].product = req[t].product
                 /\ "dbread" \notin FaultKinds => \A r \in RowIds : ~ InCart(t, r)
        /\ req'[t].pc = "update" =>
              \/ req'[t] = req[t]
              \/ /\ UNCHANGED rows
                 /\ \E r \in RowIds : /\ r \in CartRows(TabUser[t])
                                      /\ req'[t].row = r /\ req'[t].had = rows[r].qty
        /\ req'[t].pc = "create" =>
              \/ req'[t] = req[t]
              \/ /\ req'[t].lines = LinesOf(TabUser[t]) /\ CartRows(TabUser[t]) # {}
                 /\ UNCHANGED <<rows, late>>
        /\ req'[t].pc = "clear" =>
              \/ req'[t] = req[t]
              \/ /\ NextOrder(req'[t].order)
                 /\ \A s \in Tabs : s # t => req'[s] = req[s]
                 /\ req[t].pc = "create" /\ req'[t].lines = req[t].lines
                 /\ orders'[req'[t].order].items = req[t].lines
                 /\ UNCHANGED <<queue, rows, late>>
        /\ req'[t].pc = "publish" =>
              req[t].pc \in {"clear", "publish"} /\ req'[t].order = req[t].order

LEMMA ShoppingTabs ==
    ASSUME Typed, Shopping
    PROVE  TabsFollow
<1>1. req \in [Tabs -> Request] BY DEF Typed, TypeOK, CheckoutTypeOK
<1>2. ASSUME NEW t \in Tabs, \A s \in Tabs : s # t => req'[s] = req[s],
             req'[t].pc \notin {"insert", "update", "create", "clear", "publish"}
      PROVE  TabsFollow
  BY <1>2 DEF TabsFollow
<1>3. ASSUME NEW t \in Tabs,
             \/ \E p \in Products, q \in Quantities : BeginAdd(t, p, q)
             \/ FindCart(t) \/ MakeCart(t) \/ InsertItem(t) \/ UpdateItem(t)
             \/ PlacePublish(t)
      PROVE  TabsFollow
  <2>1. \/ \E rec : rec.pc = "cart" /\ req' = [req EXCEPT ![t] = rec]
        \/ \E pc \in {"item", "mkcart"} : GoTo(t, pc)
        \/ Answer(t)
    <3>1. ASSUME NEW p \in Products, NEW q \in Quantities, BeginAdd(t, p, q)
          PROVE  \E rec : rec.pc = "cart" /\ req' = [req EXCEPT ![t] = rec]
      <4> DEFINE rec == [IdleReq EXCEPT !.pc = "cart", !.product = p, !.qty = Wanted(q),
                                        !.price = products[p].price]
      <4>1. rec.pc = "cart" BY DEF IdleReq
      <4>2. QED BY <3>1, <4>1 DEF BeginAdd
    <3>2. QED
      BY <1>3, <3>1 DEF FindCart, MakeCart, InsertItem, UpdateItem, PlacePublish
  <2>2. /\ \A s \in Tabs : s # t => req'[s] = req[s]
        /\ req'[t].pc \in {"cart", "item", "mkcart", "idle"}
    BY <1>1, <2>1 DEF GoTo, Answer, IdleReq, Request
  <2>3. QED BY <1>2, <2>2
<1>4. ASSUME NEW t \in Tabs, FindItem(t)
      PROVE  TabsFollow
  <2>1. ASSUME NEW r \in RowIds, FoundItem(t, r) PROVE TabsFollow
    <3>1. r \in CartRows(TabUser[t]) BY <2>1 DEF FoundItem, InCart
    <3>2. req'[t].pc = "update" /\ req'[t].row = r /\ req'[t].had = rows[r].qty
      BY <1>1, <2>1 DEF FoundItem, Request
    <3>3. \A s \in Tabs : s # t => req'[s] = req[s] BY <1>1, <2>1 DEF FoundItem
    <3>4. UNCHANGED rows BY <1>4 DEF FindItem
    <3>5. QED BY <3>1, <3>2, <3>3, <3>4 DEF TabsFollow
  <2>2. CASE NoItem(t)
    <3>1. /\ req'[t].pc = "insert" /\ req'[t].product = req[t].product
          /\ \A s \in Tabs : s # t => req'[s] = req[s]
      BY <1>1, <2>2 DEF NoItem, GoTo, Request
    <3>2. UNCHANGED rows BY <1>4 DEF FindItem
    <3>3. "dbread" \notin FaultKinds => \A r \in RowIds : ~ InCart(t, r)
      BY <2>2 DEF NoItem, Fault
    <3>4. QED BY <3>1, <3>2, <3>3 DEF TabsFollow
  <2>3. QED BY <1>4, <2>1, <2>2 DEF FindItem
<1>5. ASSUME NEW t \in Tabs, ReadCart(t)
      PROVE  TabsFollow
  <2>1. req'[t].pc = "create" /\ req'[t].lines = LinesOf(TabUser[t])
    BY <1>1, <1>5 DEF ReadCart, IdleReq
  <2>2. /\ \A s \in Tabs : s # t => req'[s] = req[s]
        /\ CartRows(TabUser[t]) # {} /\ UNCHANGED <<rows, late>>
    BY <1>1, <1>5 DEF ReadCart
  <2>3. QED BY <2>1, <2>2 DEF TabsFollow
<1>6. ASSUME NEW t \in Tabs, PlaceCreate(t)
      PROVE  TabsFollow
  <2> DEFINE Inserted(o) ==
        /\ CreateOrder(o, TabUser[t], Cents(req[t].lines), req[t].lines)
        /\ req' = [req EXCEPT ![t].pc = "clear", ![t].order = o]
  <2>1. PICK o \in OrderIds : /\ NextOrder(o)
                              /\ \/ Inserted(o) \/ Answer(t)
    BY <1>6 DEF PlaceCreate
  <2>2. CASE Inserted(o)
    <3>1. /\ req'[t].pc = "clear" /\ req'[t].order = o /\ req'[t].lines = req[t].lines
          /\ orders'[req'[t].order].items = req[t].lines
      BY <1>1, <2>1, <2>2 DEF Request, CreateOrder, Typed, TypeOK
    <3>2. \A s \in Tabs : s # t => req'[s] = req[s] BY <1>1, <2>2
    <3>3. UNCHANGED <<queue, rows, late>> /\ req[t].pc = "create"
      BY <1>6 DEF PlaceCreate, At
    <3>4. QED BY <2>1, <3>1, <3>2, <3>3 DEF TabsFollow
  <2>3. CASE Answer(t)
    <3>1. req'[t].pc = "idle" /\ \A s \in Tabs : s # t => req'[s] = req[s]
      BY <1>1, <2>3 DEF Answer, IdleReq
    <3>2. QED BY <1>2, <3>1
  <2>4. QED BY <2>1, <2>2, <2>3
<1>7. ASSUME NEW t \in Tabs, PlaceClear(t)
      PROVE  TabsFollow
  <2>1. req[t].pc = "clear" /\ (GoTo(t, "publish") \/ Answer(t)) BY <1>7 DEF PlaceClear, At
  <2>2. /\ req'[t].pc = "publish" => req'[t].order = req[t].order
        /\ req'[t].pc \in {"publish", "idle"}
        /\ \A s \in Tabs : s # t => req'[s] = req[s]
    BY <1>1, <2>1 DEF GoTo, Answer, IdleReq, Request
  <2>3. QED BY <2>1, <2>2 DEF TabsFollow
<1>8. ASSUME UNCHANGED req PROVE TabsFollow BY <1>8 DEF TabsFollow
<1>9. QED
  BY <1>3, <1>4, <1>5, <1>6, <1>7, <1>8
  DEF Shopping, CheckoutStep, Shop, Place, Sell, RemoveFromCart

LEMMA StepTabs ==
    ASSUME Typed, [Next]_vars
    PROVE  TabsFollow
<1>1. CASE ApiCrash BY <1>1 DEF ApiCrash, DropRequests, IdleReq, TabsFollow
<1>2. ASSUME Paying \/ (\E w \in Workers : Working(w)) \/ Queueing \/ UNCHANGED vars
      PROVE  UNCHANGED req
  BY <1>2 DEF Paying, Working, Queueing, vars, checkoutVars
<1>3. QED BY <1>1, <1>2, ShoppingTabs DEF Next, TabsFollow

(* An order is new only by the INSERT of a request at create, with what it *)
(* has read.                                                               *)
LEMMA NewOrder ==
    ASSUME Typed, [Next]_vars, NEW o \in OrderIds, ~ Exists(o), Exists(o)'
    PROVE  \E t \in Tabs : /\ At(t, "create")
                           /\ orders'[o].user = TabUser[t]
                           /\ orders'[o].items = req[t].lines
                           /\ orders'[o].total = Cents(req[t].lines)
                           /\ "dbwrite" \notin FaultKinds =>
                                 req'[t].pc = "clear" /\ req'[t].order = o
<1>1. orders \in [OrderIds -> Order \cup {NoOrder}] BY DEF Typed, TypeOK
<1>2. orders'[o].status # orders[o].status BY DEF Exists
<1>3. ASSUME NEW t \in Tabs, PlaceCreate(t), ~ UNCHANGED orders
      PROVE  /\ At(t, "create")
             /\ orders'[o].user = TabUser[t] /\ orders'[o].items = req[t].lines
             /\ orders'[o].total = Cents(req[t].lines)
             /\ "dbwrite" \notin FaultKinds => req'[t].pc = "clear" /\ req'[t].order = o
  <2>1. PICK p \in OrderIds :
            /\ CreateOrder(p, TabUser[t], Cents(req[t].lines), req[t].lines)
            /\ \/ req' = [req EXCEPT ![t].pc = "clear", ![t].order = p]
               \/ "dbwrite" \in FaultKinds
    BY <1>3 DEF PlaceCreate, Fault
  <2>2. p = o BY <1>1, <1>2, <2>1 DEF CreateOrder
  <2>3. req \in [Tabs -> Request] BY DEF Typed, TypeOK, CheckoutTypeOK
  <2>4. "dbwrite" \notin FaultKinds => req'[t].pc = "clear" /\ req'[t].order = o
    BY <2>1, <2>2, <2>3 DEF Request
  <2>5. QED BY <1>1, <1>3, <2>1, <2>2, <2>4 DEF CreateOrder, PlaceCreate
<1>4. CASE Shopping
  <2>1. \E t \in Tabs : PlaceCreate(t)
    BY <1>2, <1>4 DEF Shopping, CheckoutStep, Shop, Place, Sell, BeginAdd, FindCart,
       MakeCart, FindItem, InsertItem, UpdateItem, RemoveFromCart, ReadCart, PlaceClear,
       PlacePublish
  <2>2. QED BY <1>2, <1>3, <2>1, SMTT(30)
<1>5. CASE Paying
  <2>1. UNCHANGED orders \/ (\E p, l : SetLink(p, l)) \/ \E p : SetPaid(p)
    BY <1>5 DEF Paying, PaymentStep, LinkStep, RequestLink, CallPayOS, SaveLink, Transfer,
       Deliver, Ping, HookStep, HookLoad, HookCredit, HookPublish, HookAnswer
  <2>2. QED BY <1>1, <1>2, <2>1 DEF SetLink, SetPaid, Order, NoOrder
<1>6. ASSUME NEW w \in Workers, Working(w)
      PROVE  FALSE
  <2>1. UNCHANGED orders \/ (wpc[w] = "confirm" /\ SetConfirmed(CurOrder(w)))
    BY <1>6 DEF Working, WorkerStep, workerVars, Stop, Receive, EmptyReceive, ReceiveFails,
       BackoffEnds, Pick, BatchDone, Load, Confirm, Mail, Delete, Signal, Crash, Start
  <2>2. wpc[w] = "confirm" => IsOrder(CurOrder(w))
    BY DEF Typed, WellFormed, WorkersRefer, WorkerRefers, Handling, MessagesRefer, Receipt,
       CurType, CurOrder
  <2>3. QED BY <1>1, <1>2, <2>1, <2>2 DEF SetConfirmed, IsOrder
<1>7. CASE Queueing \/ ApiCrash \/ UNCHANGED vars
  BY <1>2, <1>7 DEF Queueing, ApiCrash, vars
<1>8. QED BY <1>4, <1>5, <1>6, <1>7 DEF Next

(***************************************************************************)
(* Billed for what was added.  A line is a copy of a row that its user     *)
(* wrote; the row keeps its user and product, and UpdateItemQuantity never *)
(* writes more than was asked for, though what it adds to may be stale.    *)
(***************************************************************************)
LEMMA BoughtKept ==
    ASSUME Typed, RowsFollow, rows' \in [RowIds -> CartRow],
           NEW line \in OrderLine, NEW u, Bought(line, u)
    PROVE  Bought(line, u)'
<1>1. /\ rows \in [RowIds -> CartRow] /\ line.row \in RowIds /\ line.qty \in Nat
  BY DEF Typed, TypeOK, CheckoutTypeOK, OrderLine
<1>2. rows[line.row].added \in Nat /\ rows'[line.row].added \in Nat
  BY <1>1 DEF CartRow
<1>3. QED BY <1>1, <1>2 DEF RowsFollow, Bought

LEMMA BilledInvStep ==
    ASSUME Typed, BilledInv, [Next]_vars
    PROVE  BilledInv'
<1>1. /\ Typed' /\ OrdersFollow /\ TabsFollow /\ RowsFollow
      /\ \A r \in RowIds : rows'[r].state # "unused" => rows'[r].qty <= rows'[r].added
  BY Follows, StepTabs, StepRows, RowsStepFollows
<1>2. /\ rows \in [RowIds -> CartRow] /\ rows' \in [RowIds -> CartRow]
      /\ req \in [Tabs -> Request] /\ orders \in [OrderIds -> Order \cup {NoOrder}]
      /\ orders' \in [OrderIds -> Order \cup {NoOrder}]
  BY <1>1 DEF Typed, TypeOK, CheckoutTypeOK
<1>3. ASSUME NEW t \in Tabs, req'[t].pc = "update"
      PROVE  /\ rows'[req'[t].row].state # "unused"
             /\ req'[t].had <= rows'[req'[t].row].added
  <2>1. PICK r \in RowIds : /\ r = req'[t].row /\ rows[r].state # "unused"
                            /\ req'[t].had <= rows[r].added
    <3>1. CASE req'[t] = req[t]
      BY <1>3, <3>1 DEF BilledInv, At, Typed, WellFormed, RequestsRefer
    <3>2. ASSUME NEW r \in CartRows(TabUser[t]), req'[t].row = r,
                 req'[t].had = rows[r].qty
          PROVE  /\ rows[r].state # "unused"
                 /\ req'[t].had <= rows[r].added
      BY <3>2 DEF CartRows, BilledInv
    <3>3. QED BY <1>1, <1>3, <3>1, <3>2 DEF TabsFollow, CartRows
  <2>2. req'[t].had \in Nat BY <1>1 DEF Typed, TypeOK, CheckoutTypeOK, Request
  <2>3. rows[r].added \in Nat /\ rows'[r].added \in Nat BY <1>2 DEF CartRow
  <2>4. QED BY <1>1, <2>1, <2>2, <2>3 DEF RowsFollow
<1>4. ASSUME NEW t \in Tabs, req'[t].pc = "create", NEW line \in req'[t].lines
      PROVE  Bought(line, TabUser[t])'
  <2>1. line \in OrderLine BY <1>1, <1>4 DEF Typed, TypeOK, CheckoutTypeOK, Request
  <2>2. Bought(line, TabUser[t])
    <3>1. CASE req'[t] = req[t] BY <1>4, <3>1 DEF BilledInv, At
    <3>2. CASE line \in LinesOf(TabUser[t])
      BY <3>2 DEF LinesOf, LineOfRow, CartRows, BilledInv, Bought
    <3>3. QED BY <1>1, <1>4, <3>1, <3>2 DEF TabsFollow
  <2>3. QED BY <1>1, <1>2, <2>1, <2>2, BoughtKept DEF Bought
<1>5. ASSUME NEW o \in OrderIds, NEW line \in orders'[o].items
      PROVE  Bought(line, orders[o].user)'
  <2>1. Exists(o)' BY <1>2, <1>5 DEF Exists, Order, NoOrder
  <2>2. line \in OrderLine BY <1>2, <1>5 DEF Order, NoOrder
  <2>3. Bought(line, orders'[o].user)
    <3>1. CASE Exists(o) BY <1>1, <1>5, <3>1 DEF OrdersFollow, BilledInv
    <3>2. CASE ~ Exists(o) BY <1>5, <2>1, <3>2, NewOrder DEF BilledInv
    <3>3. QED BY <3>1, <3>2
  <2>4. QED BY <1>1, <1>2, <2>2, <2>3, BoughtKept DEF Bought
<1>6. QED BY <1>1, <1>3, <1>4, <1>5 DEF BilledInv, At

(* However the tabs of a user interleave, and whatever fails or crashes,   *)
(* an order bills its user only for rows of that user, and for no more of  *)
(* a product than was asked for.                                           *)
THEOREM NobodyOverbilled == Spec => []BilledForAdded
<1>1. Init => BilledInv
  BY DEF Init, CheckoutInit, OrdersInit, UnusedRow, IdleReq, NoOrder, BilledInv, At
<1>2. Typed /\ BilledInv /\ [Next]_vars => BilledInv' BY BilledInvStep
<1>3. BilledInv => BilledForAdded BY DEF BilledInv, BilledForAdded, Bought
<1>4. QED BY <1>1, <1>2, <1>3, Typing, PTL DEF Spec

(***************************************************************************)
(* What a paid order brings in.  The total of an order is the sum over its *)
(* lines to the nearest cent, and the amount of a payment is the total to  *)
(* the nearest dong; neither the lines nor the total ever changes.         *)
(***************************************************************************)
LEMMA BilledTotalStep ==
    ASSUME Typed, BilledTotal, [Next]_vars
    PROVE  BilledTotal'
<1>1. OrdersFollow /\ Typed' BY StepFollows, StepTyped
<1>2. orders \in [OrderIds -> Order \cup {NoOrder}]
      /\ orders' \in [OrderIds -> Order \cup {NoOrder}]
  BY <1>1 DEF Typed, TypeOK
<1> SUFFICES ASSUME NEW o \in OrderIds
             PROVE  IsFiniteSet(orders'[o].items) /\ orders'[o].total = Cents(orders'[o].items)
  BY DEF BilledTotal
<1>3. CASE Exists(o)
  BY <1>1, <1>3 DEF OrdersFollow, BilledTotal
<1>4. CASE ~ Exists(o) /\ Exists(o)'
  <2>1. PICK t \in Tabs : /\ orders'[o].items = req[t].lines
                          /\ orders'[o].total = Cents(req[t].lines)
    BY <1>4, NewOrder
  <2>2. IsFiniteSet(req[t].lines) BY DEF Typed, WellFormed, LinesFinite
  <2>3. QED BY <2>1, <2>2
<1>5. CASE ~ Exists(o) /\ ~ Exists(o)'
  <2>1. orders[o] = NoOrder /\ orders'[o] = NoOrder BY <1>2, <1>5 DEF Exists, Order
  <2>2. QED BY <2>1 DEF BilledTotal
<1>6. QED BY <1>3, <1>4, <1>5

LEMMA BilledTotalInit == ASSUME Init PROVE BilledTotal
<1>1. IsFiniteSet({}) BY FS_EmptySet
<1>2. Cents({}) = 0
  <2>1. RoundDiv(0, 10) = 0 BY DEF RoundDiv
  <2>2. QED BY <2>1, SumOfNone DEF Cents
<1>3. QED BY <1>1, <1>2 DEF Init, OrdersInit, NoOrder, BilledTotal

(* The total PlaceOrder stores is the sum over the order's own lines, to   *)
(* the nearest cent, and stays so through everything that happens to it.   *)
THEOREM TotalIsSum == Spec => []BilledTotal
<1>1. Typed /\ BilledTotal /\ [Next]_vars => BilledTotal' BY BilledTotalStep
<1>2. QED BY <1>1, BilledTotalInit, Typing, PTL DEF Spec

(* What a paid order brought in differs from the sum of its lines by no    *)
(* more than the two roundings of PlaceOrder and CreatePaymentLink, for    *)
(* any number of lines, prices and quantities.                             *)
THEOREM PaidAmount == Spec => []PaidAmountCoversItems
<1>1. ASSUME Typed, BilledTotal, NEW l \in LinkIds,
             links[l].state = "acked", AmountMatches(l)
      PROVE  OffBy(l) \in -505 .. 505
  <2> DEFINE o == links[l].order
             lines == orders[o].items
             sum == SumOfLines(lines)
             cents == Cents(lines)
             dong == Dong(cents)
  <2>1. IsOrder(o) BY <1>1 DEF Typed, WellFormed, LinksRefer
  <2>2. lines \in SUBSET OrderLine
    BY <1>1, <2>1, ExistsIsOrder DEF IsOrder, Typed, TypeOK, OrdersTypeOK, Order
  <2>3. IsFiniteSet(lines) /\ orders[o].total = cents BY <1>1, <2>1 DEF IsOrder, BilledTotal
  <2>4. links[l].got = dong BY <1>1, <2>3 DEF AmountMatches
  <2> HIDE DEF lines
  <2>5. Priced(lines) BY <2>2, <2>3, TotalTyped
  <2>6. sum \in Nat /\ cents \in Nat /\ 10 * cents - sum \in -4 .. 5
    BY <2>5, SumTyped, CentsNear
  <2> HIDE DEF sum, cents
  <2>7. dong \in Nat /\ 100 * dong - cents \in -49 .. 50 BY <2>6, DongNear
  <2> HIDE DEF dong
  <2>8. 1000 * dong - sum \in -505 .. 505
    <3>1. 1000 * dong - 10 * cents \in -490 .. 500 BY <2>6, <2>7
    <3>2. QED BY <2>6, <2>7, <3>1
  <2>9. OffBy(l) = 1000 * dong - sum BY <2>4 DEF lines, sum, OffBy
  <2>10. QED BY <2>8, <2>9
<1>2. Typed /\ BilledTotal => PaidAmountCoversItems BY <1>1 DEF PaidAmountCoversItems
<1>3. QED BY <1>2, Typing, TotalIsSum, PTL

(***************************************************************************)
(* Announced once.  The order of a request that has yet to publish is its  *)
(* own, since it came from the sequence; a request publishes and is over.  *)
(***************************************************************************)

(* Only a request at publish sends an ORDER_PLACED, and one at most. *)
LEMMA NewEvent ==
    ASSUME Typed, [Next]_vars, NEW m \in MsgIds, NEW o \in OrderIds,
           IsEvent(m, "ORDER_PLACED", o)', ~ IsEvent(m, "ORDER_PLACED", o)
    PROVE  \E t \in Tabs : /\ At(t, "publish") /\ req[t].order = o /\ Answer(t)
                           /\ \A k \in MsgIds : k # m => queue'[k] = queue[k]
<1>1. QueueTypeOK /\ MessagesStay BY StepTyped DEF Typed, TypeOK
<1>2. /\ ~ Sent(m) /\ Sent(m)'
      /\ queue'[m].type = "ORDER_PLACED" /\ queue'[m].order = o
  BY <1>1 DEF IsEvent, MessagesStay
<1>3. queue' # queue BY <1>2 DEF Sent
<1>4. ASSUME NEW type, NEW p, NEW n \in MsgIds, Enqueue(n, type, p)
      PROVE  n = m /\ type = "ORDER_PLACED" /\ p = o
  <2>1. n = m BY <1>1, <1>2, <1>4 DEF Enqueue, QueueTypeOK, Sent
  <2>2. queue'[m].type = type /\ queue'[m].order = p
    BY <1>1, <1>4, <2>1 DEF Enqueue, QueueTypeOK
  <2>3. QED BY <1>2, <2>1, <2>2
<1>5. ASSUME NEW type, NEW p, PublishOrderEvent(type, p)
      PROVE  /\ type = "ORDER_PLACED" /\ p = o
             /\ \A k \in MsgIds : k # m => queue'[k] = queue[k]
  <2>1. PICK n \in MsgIds : Enqueue(n, type, p)
    BY <1>3, <1>5 DEF PublishOrderEvent, NextMsg
  <2>2. n = m /\ type = "ORDER_PLACED" /\ p = o BY <1>4, <2>1
  <2>3. \A k \in MsgIds : k # m => queue'[k] = queue[k]
    BY <1>1, <2>1, <2>2 DEF Enqueue, QueueTypeOK
  <2>4. QED BY <2>2, <2>3
<1>6. CASE Shopping
  <2>1. PICK t \in Tabs : PlacePublish(t)
    BY <1>3, <1>6 DEF Shopping, CheckoutStep, Shop, Place, Sell, BeginAdd, FindCart,
       MakeCart, FindItem, InsertItem, UpdateItem, RemoveFromCart, ReadCart, PlaceCreate,
       PlaceClear
  <2>2. QED BY <1>5, <2>1, SMTT(30) DEF PlacePublish
<1>7. CASE Paying
  <2>1. \E p : PublishOrderEvent("ORDER_PAID", p)
    BY <1>3, <1>7 DEF Paying, PaymentStep, LinkStep, RequestLink, CallPayOS, SaveLink,
       Transfer, Deliver, Ping, HookStep, HookLoad, HookCredit, HookPublish, HookAnswer
  <2>2. QED BY <1>5, <2>1
<1>8. ASSUME NEW w \in Workers, Working(w)
      PROVE  FALSE
  <2>1. \/ \E B \in Batches : HandOut(B)
        \/ wpc[w] = "delete" /\ DeleteMessage(cur[w])
    BY <1>3, <1>8 DEF Working, WorkerStep, workerVars, Stop, Receive, EmptyReceive,
       ReceiveFails, BackoffEnds, Pick, BatchDone, Load, Confirm, Mail, Delete, Signal, Crash,
       Start
  <2>2. ASSUME NEW B \in Batches, HandOut(B) PROVE FALSE
    BY <1>1, <1>2, <2>2, HandOutTyped DEF Batches
  <2>3. ASSUME wpc[w] = "delete", DeleteMessage(cur[w]) PROVE FALSE
    <3>1. cur[w].msg \in MsgIds /\ Sent(cur[w].msg)
      BY <2>3 DEF Typed, WellFormed, WorkersRefer, WorkerRefers, Receipt
    <3>2. queue' = [queue EXCEPT ![cur[w].msg].state = "deleted"]
      BY <1>3, <2>3 DEF DeleteMessage
    <3>3. QED BY <1>1, <1>2, <3>1, <3>2 DEF QueueTypeOK, Sent
  <2>4. QED BY <2>1, <2>2, <2>3
<1>9. CASE Queueing
  <2>1. ASSUME NEW n \in MsgIds, VisibilityTimeout(n) \/ Redrive(n) PROVE FALSE
    BY <1>1, <1>2, <2>1 DEF VisibilityTimeout, Redrive, QueueTypeOK, Message, Sent
  <2>2. ASSUME NEW body \in ForeignBodies, ForeignMessage(body) PROVE FALSE
    <3>1. \E n \in MsgIds : Enqueue(n, body, 0) BY <2>2 DEF ForeignMessage, NextMsg
    <3>2. body = "ORDER_PLACED" BY <1>4, <3>1
    <3>3. QED BY <3>2 DEF ForeignBodies
  <2>3. QED BY <1>9, <2>1, <2>2 DEF Queueing, QueueStep
<1>10. CASE ApiCrash \/ UNCHANGED vars BY <1>3, <1>10 DEF ApiCrash, vars
<1>11. QED BY <1>6, <1>7, <1>8, <1>9, <1>10 DEF Next

LEMMA AnnouncedInvStep ==
    ASSUME Typed, AnnouncedInv, [Next]_vars
    PROVE  AnnouncedInv'
<1>1. MessagesStay /\ TabsFollow BY StepTyped, StepTabs
<1>2. req \in [Tabs -> Request] BY DEF Typed, TypeOK, CheckoutTypeOK
<1>3. \A t \in Tabs, o \in OrderIds : Announces(t, o) => Exists(o)
  BY DEF Typed, WellFormed, RequestsRefer, Announces, IsOrder
<1>4. \A m \in MsgIds, o \in OrderIds : IsEvent(m, "ORDER_PLACED", o) => Exists(o)
  BY DEF Typed, WellFormed, MessagesRefer, IsEvent, Events, IsOrder
<1>5. ASSUME NEW t \in Tabs, NEW o \in OrderIds, Announces(t, o)'
      PROVE  \/ Announces(t, o)
             \/ /\ ~ Exists(o) /\ UNCHANGED queue
                /\ \A s \in Tabs : s # t => req'[s] = req[s]
  <2>1. req'[t].order = o /\ req'[t].pc \in {"clear", "publish"} BY <1>5 DEF Announces
  <2>2. QED BY <1>1, <2>1 DEF TabsFollow, Announces, NextOrder
<1>6. ASSUME NEW t \in Tabs, NEW o \in OrderIds, Announces(t, o)',
             NEW m \in MsgIds, IsEvent(m, "ORDER_PLACED", o)'
      PROVE  FALSE
  <2>1. CASE IsEvent(m, "ORDER_PLACED", o)
    BY <1>4, <1>5, <1>6, <2>1 DEF AnnouncedInv
  <2>2. CASE ~ IsEvent(m, "ORDER_PLACED", o)
    <3>1. PICK s \in Tabs : At(s, "publish") /\ req[s].order = o /\ Answer(s)
      BY <1>6, <2>2, NewEvent
    <3>2. Announces(s, o) BY <3>1 DEF At, Announces
    <3>3. s = t BY <1>3, <1>5, <1>6, <3>2 DEF AnnouncedInv
    <3>4. req'[t].pc = "idle" BY <1>2, <3>1, <3>3 DEF Answer, IdleReq
    <3>5. QED BY <1>6, <3>4 DEF Announces
  <2>3. QED BY <2>1, <2>2
<1>7. ASSUME NEW t \in Tabs, NEW s \in Tabs, NEW o \in OrderIds,
             Announces(t, o)', Announces(s, o)'
      PROVE  s = t
  <2>1. CASE Announces(t, o) /\ Announces(s, o) BY <2>1 DEF AnnouncedInv
  <2>2. CASE Announces(t, o) /\ ~ Announces(s, o) BY <1>3, <1>5, <1>7, <2>2
  <2>3. CASE ~ Announces(t, o)
    <3>1. ~ Exists(o) /\ \A r \in Tabs : r # t => req'[r] = req[r] BY <1>5, <1>7, <2>3
    <3>2. ~ Announces(s, o) BY <1>3, <3>1
    <3>3. QED BY <1>7, <3>1, <3>2 DEF Announces
  <2>4. QED BY <2>1, <2>2, <2>3
<1>8. ASSUME NEW m \in MsgIds, NEW k \in MsgIds, NEW o \in OrderIds,
             IsEvent(m, "ORDER_PLACED", o)', IsEvent(k, "ORDER_PLACED", o)',
             ~ IsEvent(m, "ORDER_PLACED", o)
      PROVE  m = k
  <2>1. PICK s \in Tabs : /\ At(s, "publish") /\ req[s].order = o
                          /\ \A n \in MsgIds : n # m => queue'[n] = queue[n]
    BY <1>8, NewEvent
  <2>2. ~ IsEvent(k, "ORDER_PLACED", o) BY <2>1 DEF AnnouncedInv, Announces, At
  <2>3. QED BY <1>8, <2>1, <2>2 DEF IsEvent, Sent
<1>9. PlacedEventOnce' BY <1>8 DEF AnnouncedInv, PlacedEventOnce
<1>10. QED BY <1>6, <1>7, <1>9 DEF AnnouncedInv

(* PlaceOrder announces an order to the workers at most once, even when it *)
(* cannot tell whether its message was stored.                             *)
THEOREM AnnouncedOnce == Spec => []PlacedEventOnce
<1>1. Init => AnnouncedInv
  BY DEF Init, CheckoutInit, QueueInit, IdleReq, AnnouncedInv, PlacedEventOnce, Announces,
     IsEvent, Sent
<1>2. Typed /\ AnnouncedInv /\ [Next]_vars => AnnouncedInv' BY AnnouncedInvStep
<1>3. AnnouncedInv => PlacedEventOnce BY DEF AnnouncedInv
<1>4. QED BY <1>1, <1>2, <1>3, Typing, PTL DEF Spec

(***************************************************************************)
(* Lost only if late.  What a PlaceOrder clears it has read, unless another *)
(* tab of the user wrote the row in between.                               *)
(***************************************************************************)
LEMMA LostInvStep ==
    ASSUME Typed, BilledInv, LostInv, [Next]_vars
    PROVE  LostInv'
<1>1. Typed' /\ OrdersFollow /\ TabsFollow /\ RowsStep /\ RowsFollow
  BY Follows, StepTabs, StepRows, RowsStepFollows
<1>2. /\ rows \in [RowIds -> CartRow] /\ rows' \in [RowIds -> CartRow]
      /\ req \in [Tabs -> Request] /\ orders \in [OrderIds -> Order \cup {NoOrder}]
  BY <1>1 DEF Typed, TypeOK, CheckoutTypeOK
<1>3. ASSUME NEW r \in RowIds, rows'[r].state = "live", ~ (r \in late')
      PROVE  \/ rows'[r] = rows[r]
             \/ ~ Placing(rows'[r].user)
  <2>1. ASSUME NEW t \in Tabs, NEW k \in RowIds, AddItem(t, k)
        PROVE  rows'[r] = rows[r] \/ ~ Placing(rows'[r].user)
    <3>1. k # r => rows'[r] = rows[r] BY <1>2, <2>1 DEF AddItem
    <3>2. k = r => rows'[r].user = TabUser[t] BY <1>2, <2>1 DEF AddItem
    <3>3. k = r => ~ Placing(TabUser[t]) BY <1>3, <2>1 DEF AddItem, Touch
    <3>4. QED BY <3>1, <3>2, <3>3 DEF Placing
  <2>2. ASSUME NEW t \in Tabs, At(t, "update"), UpdateItemQuantity(t, req[t].row)
        PROVE  rows'[r] = rows[r] \/ ~ Placing(rows'[r].user)
    <3>1. PICK k \in RowIds : k = req[t].row /\ rows[k].user = TabUser[t]
      BY <2>2 DEF At, Typed, WellFormed, RequestsRefer, LostInv
    <3>2. k # r => rows'[r] = rows[r] BY <1>2, <2>2, <3>1 DEF UpdateItemQuantity
    <3>3. rows[k].state # "live" => rows'[r] = rows[r]
      BY <2>2, <3>1 DEF UpdateItemQuantity
    <3>4. k = r /\ rows[k].state = "live" => ~ Placing(TabUser[t])
      BY <1>3, <2>2, <3>1 DEF UpdateItemQuantity, Touch
    <3>5. k = r => rows'[r].user = TabUser[t]
      BY <1>1, <1>3, <2>2, <3>1 DEF RowsFollow, BilledInv
    <3>6. QED BY <3>1, <3>2, <3>3, <3>4, <3>5 DEF Placing
  <2>3. ASSUME Gone(r) PROVE rows'[r] = rows[r]
    <3>1. rows'[r] = rows[r] \/ \E state \in {"removed", "cleared"} :
              rows'[r] = [rows[r] EXCEPT !.state = state]
      BY <2>3 DEF Gone
    <3>2. QED BY <1>2, <1>3, <3>1 DEF CartRow
  <2>4. QED BY <1>1, <2>1, <2>2, <2>3 DEF RowsStep
<1>4. ASSUME NEW t \in Tabs, req'[t].pc = "update"
      PROVE  rows'[req'[t].row].user = TabUser[t]
  <2>1. PICK r \in RowIds : /\ r = req'[t].row /\ rows[r].state # "unused"
                            /\ rows[r].user = TabUser[t]
    <3>1. CASE req'[t] = req[t]
      BY <1>4, <3>1 DEF BilledInv, LostInv, At, Typed, WellFormed, RequestsRefer
    <3>2. ASSUME NEW r \in CartRows(TabUser[t]), req'[t].row = r
          PROVE  r \in RowIds /\ rows[r].state # "unused" /\ rows[r].user = TabUser[t]
      BY <3>2 DEF CartRows
    <3>3. QED BY <1>1, <1>4, <3>1, <3>2 DEF TabsFollow
  <2>2. QED BY <1>1, <2>1 DEF RowsFollow
<1>5. ASSUME NEW t \in Tabs, req'[t].pc \in {"create", "clear"},
             NEW r \in RowIds, rows'[r].state = "live", rows'[r].user = TabUser[t],
             ~ (r \in late')
      PROVE  LineOfRow(r)' \in req'[t].lines
  <2>1. CASE /\ req[t].pc \in {"create", "clear"} /\ req'[t].lines = req[t].lines
    <3>1. Placing(TabUser[t]) BY <2>1 DEF Placing
    <3>2. rows'[r] = rows[r] BY <1>3, <1>5, <3>1
    <3>3. r \notin late
      BY <1>1, <1>5 DEF RowsStep, AddItem, UpdateItemQuantity, Touch
    <3>4. LineOfRow(r) \in req[t].lines
      BY <1>5, <2>1, <3>2, <3>3 DEF LostInv, CartRows
    <3>5. QED BY <2>1, <3>2, <3>4 DEF LineOfRow
  <2>2. CASE req'[t].lines = LinesOf(TabUser[t]) /\ UNCHANGED rows
    BY <1>5, <2>2 DEF LinesOf, CartRows, LineOfRow
  <2>3. QED BY <1>1, <1>5, <2>1, <2>2 DEF TabsFollow
<1>6. ASSUME NEW t \in Tabs, req'[t].pc = "clear"
      PROVE  orders'[req'[t].order].items = req'[t].lines
  <2>1. CASE req'[t] = req[t]
    <3>1. IsOrder(req[t].order)
      BY <1>6, <2>1 DEF Typed, WellFormed, RequestsRefer
    <3>2. orders[req[t].order].items = req[t].lines BY <1>6, <2>1 DEF LostInv, At
    <3>3. QED BY <1>1, <2>1, <3>1, <3>2 DEF OrdersFollow, IsOrder
  <2>2. QED BY <1>1, <1>6, <2>1 DEF TabsFollow
<1>7. ASSUME NEW r \in RowIds, rows'[r].state = "cleared", ~ (r \in late')
      PROVE  OrderedAs(r, rows[r].qty)'
  <2>1. r \notin late BY <1>1, <1>7 DEF RowsStep, AddItem, UpdateItemQuantity, Touch
  <2>2. ASSUME NEW o \in OrderIds, NEW line \in orders[o].items, line.row = r,
               line.qty = rows'[r].qty
        PROVE  OrderedAs(r, rows[r].qty)'
    <3>1. Exists(o) BY <1>2, <2>2 DEF Exists, Order, NoOrder
    <3>2. line \in orders'[o].items BY <1>1, <2>2, <3>1 DEF OrdersFollow
    <3>3. QED BY <2>2, <3>2 DEF OrderedAs, LineOf
  <2>3. CASE rows'[r] = rows[r]
    BY <1>7, <2>1, <2>2, <2>3 DEF LostInv, LostOnlyIfLate, OrderedAs, LineOf
  <2>4. ASSUME rows[r].state = "live", rows'[r] = [rows[r] EXCEPT !.state = "cleared"],
               NEW t \in Tabs, At(t, "clear"), TabUser[t] = rows[r].user
        PROVE  OrderedAs(r, rows[r].qty)'
    <3>1. LineOfRow(r) \in req[t].lines BY <2>1, <2>4 DEF LostInv, CartRows, At
    <3>2. /\ IsOrder(req[t].order)
          /\ orders[req[t].order].items = req[t].lines
      BY <2>4 DEF LostInv, At, Typed, WellFormed, RequestsRefer
    <3>3. rows'[r].qty = rows[r].qty BY <1>2, <2>4 DEF CartRow
    <3>4. LineOfRow(r).row = r /\ LineOfRow(r).qty = rows[r].qty BY DEF LineOfRow
    <3>5. QED BY <2>2, <3>1, <3>2, <3>3, <3>4 DEF IsOrder
  <2>5. CASE \E t \in Tabs, k \in RowIds : AddItem(t, k)
    <3>1. PICK k \in RowIds : k # r => rows'[r] = rows[r]
      BY <1>2, <2>5 DEF AddItem
    <3>2. rows'[r] = rows[r] BY <1>2, <1>7, <2>5 DEF AddItem
    <3>3. QED BY <2>3, <3>2
  <2>6. ASSUME NEW t \in Tabs, At(t, "update"), UpdateItemQuantity(t, req[t].row)
        PROVE  rows'[r] = rows[r]
    BY <1>2, <1>7, <2>6 DEF UpdateItemQuantity, CartRow
  <2>7. ASSUME Gone(r) PROVE OrderedAs(r, rows[r].qty)'
    <3>1. CASE rows'[r] = [rows[r] EXCEPT !.state = "removed"]
      BY <1>2, <1>7, <3>1 DEF CartRow
    <3>2. QED BY <2>3, <2>4, <2>7, <3>1 DEF Gone
  <2>8. QED BY <1>1, <2>3, <2>5, <2>6, <2>7 DEF RowsStep
<1>8. LostOnlyIfLate' BY <1>7 DEF LostOnlyIfLate
<1>9. QED BY <1>4, <1>5, <1>6, <1>8 DEF LostInv, CartRows, At

(* ClearCart takes from a cart only what was ordered, in the quantity it   *)
(* had, but for rows another tab wrote between PlaceOrder's read and it.   *)
THEOREM NothingLost == Spec => []LostOnlyIfLate
<1>1. Init => BilledInv /\ LostInv
  BY DEF Init, CheckoutInit, OrdersInit, UnusedRow, IdleReq, NoOrder, BilledInv, LostInv,
     LostOnlyIfLate, At
<1>2. Typed /\ BilledInv /\ LostInv /\ [Next]_vars => BilledInv' /\ LostInv'
  BY BilledInvStep, LostInvStep
<1>3. LostInv => LostOnlyIfLate BY DEF LostInv
<1>4. QED BY <1>1, <1>2, <1>3, Typing, PTL DEF Spec

(***************************************************************************)
(* One tab per user.  Neither property below holds of two tabs of a user:  *)
(* both may find no row and insert one, and both may read the cart before  *)
(* one of them clears it.                                                  *)
(***************************************************************************)
OneTabEach == \A t, s \in Tabs : TabUser[t] = TabUser[s] => t = s

(* FindCartItem finds a row if there is one. *)
LEMMA NothingFound ==
    ASSUME NEW t \in Tabs, \A r \in RowIds : ~ InCart(t, r)
    PROVE  \A r \in CartRows(TabUser[t]) : rows[r].product # req[t].product
<1> DEFINE T == {r \in CartRows(TabUser[t]) : rows[r].product = req[t].product}
<1>1. T \subseteq Nat /\ T \subseteq RowIds BY DEF CartRows, RowIds
<1>2. ASSUME T # {} PROVE FALSE
  <2> HIDE DEF T
  <2>1. PICK r \in T : \A k \in T : r <= k BY <1>1, <1>2, LeastOf
  <2> USE DEF T
  <2>2. InCart(t, r) /\ r \in RowIds BY <2>1 DEF InCart, CartRows
  <2>3. QED BY <2>2
<1>3. QED BY <1>2

(* A row that is live now was live, or is new. *)
LEMMA LiveBefore ==
    ASSUME Typed, RowsStep, NEW r \in RowIds, rows'[r].state = "live"
    PROVE  \/ /\ rows[r].state = "live"
              /\ rows'[r].user = rows[r].user /\ rows'[r].product = rows[r].product
           \/ /\ rows[r].state = "unused"
              /\ \E t \in Tabs : /\ At(t, "insert") /\ Answer(t) /\ AddItem(t, r)
                                 /\ rows'[r].user = TabUser[t]
                                 /\ rows'[r].product = req[t].product
<1>1. rows \in [RowIds -> CartRow] BY DEF Typed, TypeOK, CheckoutTypeOK
<1>2. ASSUME NEW t \in Tabs, NEW k \in RowIds, At(t, "insert"), Answer(t), AddItem(t, k)
      PROVE  \/ rows'[r] = rows[r]
             \/ /\ k = r /\ rows[r].state = "unused"
                /\ rows'[r].user = TabUser[t] /\ rows'[r].product = req[t].product
  BY <1>1, <1>2 DEF AddItem, NextRow
<1>3. ASSUME NEW t \in Tabs, UpdateItemQuantity(t, req[t].row), At(t, "update")
      PROVE  /\ rows'[r].state = rows[r].state
             /\ rows'[r].user = rows[r].user /\ rows'[r].product = rows[r].product
  BY <1>1, <1>3 DEF UpdateItemQuantity, CartRow
<1>4. ASSUME Gone(r) PROVE rows'[r] = rows[r]
  BY <1>1, <1>4, Restated DEF Gone
<1>5. QED BY <1>2, <1>3, <1>4 DEF RowsStep

LEMMA OneRowInvStep ==
    ASSUME OneTabEach, "dbread" \notin FaultKinds, Typed, OneRowInv, [Next]_vars
    PROVE  OneRowInv'
<1>1. TabsFollow /\ RowsStep BY StepTabs, StepRows
<1>2. req \in [Tabs -> Request] BY DEF Typed, TypeOK, CheckoutTypeOK
<1>3. ASSUME NEW t \in Tabs, req'[t].pc = "insert",
             NEW r \in RowIds, rows'[r].state = "live", rows'[r].user = TabUser[t]
      PROVE  rows'[r].product # req'[t].product
  <2>1. CASE /\ UNCHANGED rows /\ req'[t].product = req[t].product
             /\ \A k \in RowIds : ~ InCart(t, k)
    BY <1>3, <2>1, NothingFound DEF CartRows
  <2>2. CASE req'[t] = req[t]
    <3>1. ASSUME NEW s \in Tabs, Answer(s), TabUser[s] = TabUser[t] PROVE FALSE
      <4>1. s = t BY <3>1 DEF OneTabEach
      <4>2. QED BY <1>2, <1>3, <3>1, <4>1 DEF Answer, IdleReq
    <3>2. rows[r].state = "live" /\ rows[r].user = TabUser[t]
          /\ rows'[r].product = rows[r].product
      BY <1>1, <1>3, <3>1, LiveBefore
    <3>3. QED BY <1>3, <2>2, <3>2 DEF OneRowInv, CartRows, At
  <2>3. QED BY <1>1, <1>3, <2>1, <2>2 DEF TabsFollow
<1>4. ASSUME NEW r \in RowIds, NEW k \in RowIds,
             rows'[r].state = "live", rows'[k].state = "live",
             rows'[r].user = rows'[k].user, rows'[r].product = rows'[k].product,
             rows[r].state = "live"
      PROVE  r = k
  <2>1. rows'[r].user = rows[r].user /\ rows'[r].product = rows[r].product
    BY <1>1, <1>4, LiveBefore
  <2>2. CASE rows[k].state = "live"
    <3>1. rows'[k].user = rows[k].user /\ rows'[k].product = rows[k].product
      BY <1>1, <1>4, <2>2, LiveBefore
    <3>2. PICK u \in Users : u = rows[r].user /\ u = rows[k].user
      BY <1>4, <2>1, <3>1 DEF OneRowInv
    <3>3. r \in CartRows(u) /\ k \in CartRows(u) BY <1>4, <2>2, <3>2 DEF CartRows
    <3>4. rows[r].product = rows[k].product BY <1>4, <2>1, <3>1
    <3>5. QED BY <3>3, <3>4 DEF OneRowInv, OneRowPerProduct
  <2>3. ASSUME NEW t \in Tabs, At(t, "insert"), rows'[k].user = TabUser[t],
               rows'[k].product = req[t].product
        PROVE  FALSE
    BY <1>4, <2>1, <2>3 DEF OneRowInv, CartRows
  <2>4. QED BY <1>1, <1>4, <2>2, <2>3, LiveBefore
<1>5. ASSUME NEW r \in RowIds, NEW k \in RowIds,
             rows'[r].state = "live", rows'[k].state = "live",
             rows[r].state # "live", rows[k].state # "live"
      PROVE  r = k
  <2>1. PICK t \in Tabs : At(t, "insert") /\ AddItem(t, r) BY <1>1, <1>5, LiveBefore
  <2>2. rows \in [RowIds -> CartRow] BY DEF Typed, TypeOK, CheckoutTypeOK
  <2>3. QED BY <1>5, <2>1, <2>2 DEF AddItem
<1>6. OneRowPerProduct' BY <1>4, <1>5 DEF OneRowPerProduct, CartRows
<1>7. \A r \in RowIds : rows'[r].state = "live" => rows'[r].user \in Users
  BY <1>1, LiveBefore, CheckoutAssumption DEF OneRowInv
<1>8. QED BY <1>3, <1>6, <1>7 DEF OneRowInv, CartRows, At

(* As long as a user has one tab and no SELECT fails, a product has one    *)
(* row in a cart, whatever write fails and whatever crashes.               *)
THEOREM OneRow ==
    ASSUME OneTabEach, "dbread" \notin FaultKinds
    PROVE  Spec => []OneRowPerProduct
<1>1. Init => OneRowInv
  BY DEF Init, CheckoutInit, UnusedRow, IdleReq, OneRowInv, OneRowPerProduct, CartRows, At
<1>2. Typed /\ OneRowInv /\ [Next]_vars => OneRowInv' BY OneRowInvStep
<1>3. OneRowInv => OneRowPerProduct BY DEF OneRowInv
<1>4. QED BY <1>1, <1>2, <1>3, Typing, PTL DEF Spec

(* A request that is to clear the cart stays so until it does. *)
LEMMA StepClears ==
    ASSUME "dbwrite" \notin FaultKinds, "crash" \notin FaultKinds, Typed, [Next]_vars,
           NEW t \in Tabs, At(t, "clear")
    PROVE  \/ req'[t] = req[t]
           \/ \A r \in RowIds : rows'[r].state = "live" => rows'[r].user # TabUser[t]
<1>1. req \in [Tabs -> Request] /\ rows \in [RowIds -> CartRow]
  BY DEF Typed, TypeOK, CheckoutTypeOK
<1>2. CASE PlaceClear(t)
  <2>1. ClearCart(TabUser[t]) BY <1>2 DEF PlaceClear, Fault
  <2>2. ASSUME NEW r \in RowIds, rows'[r].state = "live" PROVE rows'[r].user # TabUser[t]
    BY <1>1, <2>1, <2>2 DEF ClearCart, CartRows, CartRow
  <2>3. QED BY <2>2
<1>3. ASSUME NEW s \in Tabs, Shop(s) \/ Place(s), s # t
      PROVE  req'[t] = req[t]
  <2>1. CASE Shop(s)
    BY <1>1, <1>3, <2>1 DEF Shop, BeginAdd, FindCart, MakeCart, FindItem, FoundItem, NoItem,
       InsertItem, UpdateItem, RemoveFromCart, GoTo, Answer
  <2>2. CASE Place(s)
    <3>1. CASE PlaceCreate(s) BY <1>1, <1>3, <3>1 DEF PlaceCreate, Answer
    <3>2. CASE ReadCart(s) \/ PlaceClear(s) \/ PlacePublish(s)
      BY <1>1, <1>3, <3>2 DEF ReadCart, PlaceClear, PlacePublish, GoTo, Answer
    <3>3. QED BY <2>2, <3>1, <3>2 DEF Place
  <2>3. QED BY <1>3, <2>1, <2>2
<1>4. ASSUME Shop(t) \/ Place(t)
      PROVE  UNCHANGED req \/ PlaceClear(t)
  BY <1>4 DEF At, Shop, Place, BeginAdd, FindCart, MakeCart, FindItem, InsertItem, UpdateItem,
     RemoveFromCart, ReadCart, PlaceCreate, PlacePublish
<1>5. ASSUME ~ UNCHANGED req
      PROVE  \E s \in Tabs : Shop(s) \/ Place(s)
  BY <1>5 DEF Next, Shopping, CheckoutStep, Sell, Paying, Working, Queueing, ApiCrash, Fault,
     vars, checkoutVars
<1>6. QED BY <1>2, <1>3, <1>4, <1>5

LEMMA OrderedInvStep ==
    ASSUME OneTabEach, "dbwrite" \notin FaultKinds, "crash" \notin FaultKinds,
           Typed, BilledInv, OrderedInv, [Next]_vars
    PROVE  OrderedInv'
<1>1. Typed' /\ OrdersFollow /\ TabsFollow /\ RowsStep /\ RowsFollow
  BY Follows, StepTabs, StepRows, RowsStepFollows
<1>2. /\ orders \in [OrderIds -> Order \cup {NoOrder}]
      /\ orders' \in [OrderIds -> Order \cup {NoOrder}]
      /\ req' \in [Tabs -> Request]
  BY <1>1 DEF Typed, TypeOK, CheckoutTypeOK
<1>3. ASSUME NEW o \in OrderIds, NEW line \in orders[o].items
      PROVE  Bought(line, orders[o].user) /\ line \in OrderLine
  BY <1>2, <1>3 DEF BilledInv, Order, NoOrder
<1>4. ASSUME NEW o \in OrderIds, NEW line \in orders'[o].items
      PROVE  \/ line \in orders[o].items
             \/ \E t \in Tabs : /\ At(t, "create") /\ line \in req[t].lines
                                /\ req'[t].pc = "clear" /\ req'[t].order = o
  <2>1. Exists(o)' BY <1>2, <1>4 DEF Exists, Order, NoOrder
  <2>2. CASE Exists(o) BY <1>1, <1>4, <2>2 DEF OrdersFollow
  <2>3. CASE ~ Exists(o) BY <1>4, <2>1, <2>3, NewOrder
  <2>4. QED BY <2>2, <2>3
<1>5. ASSUME NEW o \in OrderIds, NEW line \in orders'[o].items,
             NEW p \in OrderIds, NEW other \in orders'[p].items, line.row = other.row,
             line \in orders[o].items
      PROVE  o = p
  <2>1. CASE other \in orders[p].items
    BY <1>5, <1>3, <2>1 DEF OrderedInv, RowOrderedOnce, LineOf, OrderLine
  <2>2. ASSUME NEW t \in Tabs, At(t, "create"), other \in req[t].lines PROVE FALSE
    BY <1>5, <2>2 DEF OrderedInv, LineOf
  <2>3. QED BY <1>4, <1>5, <2>1, <2>2
<1>6. ASSUME NEW o \in OrderIds, NEW line \in orders'[o].items,
             NEW p \in OrderIds, NEW other \in orders'[p].items, line.row = other.row
      PROVE  o = p
  <2>1. CASE line \in orders[o].items \/ other \in orders[p].items BY <1>5, <1>6, <2>1
  <2>2. ASSUME NEW t \in Tabs, At(t, "create"), line \in req[t].lines, req'[t].order = o,
               NEW s \in Tabs, At(s, "create"), other \in req[s].lines, req'[s].order = p
        PROVE  o = p
    <3>1. Bought(line, TabUser[t]) /\ Bought(other, TabUser[s]) BY <2>2 DEF BilledInv
    <3>2. TabUser[t] = TabUser[s] BY <1>6, <3>1 DEF Bought
    <3>3. t = s BY <3>2 DEF OneTabEach
    <3>4. QED BY <2>2, <3>3
  <2>3. QED BY <1>4, <1>6, <2>1, <2>2
<1>7. ASSUME NEW o \in OrderIds, NEW line \in orders'[o].items, rows'[line.row].state = "live"
      PROVE  \E t \in Tabs : /\ req'[t].pc = "clear" /\ req'[t].order = o
                             /\ rows'[line.row].user = TabUser[t]
  <2>0. line \in OrderLine /\ line.row \in RowIds
    BY <1>2, <1>7 DEF Order, NoOrder, OrderLine
  <2>1. CASE line \in orders[o].items
    <3>1. rows[line.row].state = "live" /\ rows'[line.row].user = rows[line.row].user
      BY <1>1, <1>3, <1>7, <2>0, <2>1, LiveBefore DEF Bought
    <3>2. PICK t \in Tabs : /\ At(t, "clear") /\ req[t].order = o
                            /\ rows[line.row].user = TabUser[t]
      BY <2>0, <2>1, <3>1 DEF OrderedInv, LineOf
    <3>3. req'[t] = req[t] BY <1>7, <2>0, <3>1, <3>2, StepClears
    <3>4. QED BY <3>1, <3>2, <3>3 DEF At
  <2>2. ASSUME NEW t \in Tabs, At(t, "create"), line \in req[t].lines,
               req'[t].pc = "clear", req'[t].order = o
        PROVE  rows'[line.row].user = TabUser[t]
    <3>1. Bought(line, TabUser[t]) BY <2>2 DEF BilledInv
    <3>2. QED BY <1>1, <2>0, <3>1 DEF RowsFollow, Bought
  <2>3. QED BY <1>4, <1>7, <2>1, <2>2
<1>8. ASSUME NEW t \in Tabs, req'[t].pc = "create", NEW line \in req'[t].lines,
             NEW o \in OrderIds, NEW other \in orders'[o].items, other.row = line.row
      PROVE  FALSE
  <2>0. line \in OrderLine /\ line.row \in RowIds
    BY <1>2, <1>8 DEF Request, OrderLine
  <2>1. CASE other \in orders[o].items
    <3>1. CASE req'[t] = req[t] BY <1>8, <2>1, <3>1 DEF OrderedInv, LineOf, At
    <3>2. CASE line \in LinesOf(TabUser[t]) /\ UNCHANGED <<rows, late>>
      <4>1. rows[line.row].state = "live" /\ rows[line.row].user = TabUser[t]
        BY <3>2 DEF LinesOf, LineOfRow, CartRows
      <4>2. PICK s \in Tabs : At(s, "clear") /\ rows[line.row].user = TabUser[s]
        BY <1>8, <2>0, <2>1, <4>1 DEF OrderedInv, LineOf
      <4>3. s = t BY <4>1, <4>2 DEF OneTabEach
      <4>4. req'[t] # req[t] BY <1>8, <4>2, <4>3 DEF At
      <4>5. rows'[line.row].state = "live" /\ rows'[line.row].user = TabUser[t]
        BY <3>2, <4>1
      <4>6. QED BY <2>0, <4>2, <4>3, <4>4, <4>5, StepClears
    <3>3. QED BY <1>1, <1>8, <3>1, <3>2 DEF TabsFollow
  <2>2. ASSUME NEW s \in Tabs, At(s, "create"), other \in req[s].lines, req'[s].pc = "clear"
        PROVE  FALSE
    <3>1. Bought(other, TabUser[s]) BY <2>2 DEF BilledInv
    <3>2. rows[line.row].user = TabUser[t]
      <4>1. CASE req'[t] = req[t]
        BY <1>8, <4>1 DEF BilledInv, Bought, At
      <4>2. CASE line \in LinesOf(TabUser[t])
        BY <4>2 DEF LinesOf, LineOfRow, CartRows
      <4>3. QED BY <1>1, <1>8, <4>1, <4>2 DEF TabsFollow
    <3>3. s = t BY <1>8, <3>1, <3>2 DEF Bought, OneTabEach
    <3>4. QED BY <1>8, <2>2, <3>3
  <2>3. QED BY <1>4, <1>8, <2>1, <2>2
<1>9. RowOrderedOnce' BY <1>6 DEF RowOrderedOnce, LineOf
<1>10. QED BY <1>7, <1>8, <1>9 DEF OrderedInv, LineOf, At

(* As long as a user has one tab, no write fails and the API is not killed, *)
(* nothing in a cart is ordered twice.                                     *)
THEOREM OrderedOnce ==
    ASSUME OneTabEach, "dbwrite" \notin FaultKinds, "crash" \notin FaultKinds
    PROVE  Spec => []RowOrderedOnce
<1>1. Init => BilledInv /\ OrderedInv
  BY DEF Init, CheckoutInit, OrdersInit, UnusedRow, IdleReq, NoOrder, BilledInv, OrderedInv,
     RowOrderedOnce, LineOf, At
<1>2. Typed /\ BilledInv /\ OrderedInv /\ [Next]_vars => BilledInv' /\ OrderedInv'
  BY BilledInvStep, OrderedInvStep
<1>3. OrderedInv => RowOrderedOnce BY DEF OrderedInv
<1>4. QED BY <1>1, <1>2, <1>3, Typing, PTL DEF Spec

(***************************************************************************)
(* Checkout in one step.  With one tab per user a cart changes only by the *)
(* requests of that tab, so what a request has read is still so when it    *)
(* writes.  A step that writes rows then is one of the four that           *)
(* AtomicCheckout has, or clears rows that are in the order already; and a *)
(* new order has all of the cart.                                          *)
(***************************************************************************)
SameCart(u) ==
    /\ CartRows(u)' = CartRows(u)
    /\ \A r \in CartRows(u) : rows'[r] = rows[r]

(* The requests that write rows. *)
LEMMA Writers ==
    ASSUME [Next]_vars, ~ UNCHANGED rows
    PROVE  \E t \in Tabs : \/ InsertItem(t) \/ UpdateItem(t) \/ PlaceClear(t)
                           \/ \E r \in RowIds : RemoveFromCart(t, r)
<1>1. Shopping
  BY DEF Next, Paying, Working, Queueing, ApiCrash, vars, checkoutVars
<1>2. QED
  BY <1>1 DEF Shopping, CheckoutStep, Shop, Place, Sell, BeginAdd, FindCart, MakeCart, FindItem,
     ReadCart, PlaceCreate, PlacePublish

(* What each of them does to the rows, when no write fails. *)
LEMMA Writes ==
    ASSUME "dbwrite" \notin FaultKinds, Typed, AtomicInv, [Next]_vars, ~ UNCHANGED rows
    PROVE  \E t \in Tabs :
              \/ /\ At(t, "insert") /\ Answer(t)
                 /\ \E r \in RowIds : AddItem(t, r)
              \/ /\ At(t, "update") /\ Answer(t)
                 /\ \E r \in CartRows(TabUser[t]) :
                       /\ rows' = [rows EXCEPT ![r].qty = rows[r].qty + req[t].qty,
                                              ![r].added = @ + req[t].qty]
              \/ At(t, "clear") /\ req'[t].pc # "clear" /\ ClearCart(TabUser[t])
              \/ /\ At(t, "idle")
                 /\ \E r \in CartRows(TabUser[t]) :
                       rows' = [rows EXCEPT ![r].state = "removed"]
<1>1. req \in [Tabs -> Request] BY DEF Typed, TypeOK, CheckoutTypeOK
<1>2. ASSUME NEW t \in Tabs, InsertItem(t)
      PROVE  At(t, "insert") /\ Answer(t) /\ \E r \in RowIds : AddItem(t, r)
  BY <1>2 DEF InsertItem, Fault
<1>3. ASSUME NEW t \in Tabs, UpdateItem(t)
      PROVE  /\ At(t, "update") /\ Answer(t)
             /\ \E r \in CartRows(TabUser[t]) :
                   /\ rows' = [rows EXCEPT ![r].qty = rows[r].qty + req[t].qty,
                                          ![r].added = @ + req[t].qty]
  <2>1. At(t, "update") /\ Answer(t) /\ UpdateItemQuantity(t, req[t].row)
    BY <1>3 DEF UpdateItem, Fault
  <2>2. PICK r \in CartRows(TabUser[t]) : r = req[t].row /\ req[t].had = rows[r].qty
    BY <2>1 DEF AtomicInv
  <2>3. QED BY <2>1, <2>2 DEF UpdateItemQuantity, NewQty, CartRows
<1>4. ASSUME NEW t \in Tabs, PlaceClear(t)
      PROVE  At(t, "clear") /\ req'[t].pc # "clear" /\ ClearCart(TabUser[t])
  <2>1. At(t, "clear") /\ (GoTo(t, "publish") \/ Answer(t)) /\ ClearCart(TabUser[t])
    BY <1>4 DEF PlaceClear, Fault
  <2>2. QED BY <1>1, <2>1 DEF GoTo, Answer, IdleReq, Request
<1>5. ASSUME NEW t \in Tabs, NEW r \in RowIds, RemoveFromCart(t, r)
      PROVE  At(t, "idle") /\ r \in CartRows(TabUser[t])
             /\ rows' = [rows EXCEPT ![r].state = "removed"]
  BY <1>5 DEF RemoveFromCart
<1>6. QED BY Writers, <1>2, <1>3, <1>4, <1>5

(* They write rows of their user only. *)
LEMMA OthersSame ==
    ASSUME "dbwrite" \notin FaultKinds, Typed, AtomicInv, [Next]_vars, ~ UNCHANGED rows
    PROVE  \E t \in Tabs : /\ \A u : u # TabUser[t] => SameCart(u)
                           /\ At(t, "idle") \/ req'[t] # req[t]
<1>1. req \in [Tabs -> Request] /\ rows \in [RowIds -> CartRow]
  BY DEF Typed, TypeOK, CheckoutTypeOK
<1>2. ASSUME NEW t \in Tabs, At(t, "insert"), Answer(t), NEW r \in RowIds, AddItem(t, r)
      PROVE  /\ \A u : u # TabUser[t] => SameCart(u)
             /\ req'[t] # req[t]
  <2>1. req'[t] # req[t] BY <1>1, <1>2 DEF At, Answer, IdleReq
  <2>2. /\ rows[r].state = "unused" /\ rows'[r].user = TabUser[t]
        /\ \A k \in RowIds : k # r => rows'[k] = rows[k]
    BY <1>1, <1>2 DEF AddItem, NextRow
  <2>3. QED BY <2>1, <2>2 DEF SameCart, CartRows
<1>3. ASSUME NEW t \in Tabs, At(t, "update"), Answer(t), NEW r \in CartRows(TabUser[t]),
             rows' = [rows EXCEPT ![r].qty = rows[r].qty + req[t].qty,
                                  ![r].added = @ + req[t].qty]
      PROVE  /\ \A u : u # TabUser[t] => SameCart(u)
             /\ req'[t] # req[t]
  <2>1. req'[t] # req[t] BY <1>1, <1>3 DEF At, Answer, IdleReq
  <2>2. /\ r \in RowIds /\ rows[r].user = TabUser[t] /\ rows'[r].user = TabUser[t]
        /\ \A k \in RowIds : k # r => rows'[k] = rows[k]
    BY <1>1, <1>3 DEF CartRows, CartRow
  <2>3. QED BY <2>1, <2>2 DEF SameCart, CartRows
<1>4. ASSUME NEW t \in Tabs, At(t, "clear"), req'[t].pc # "clear", ClearCart(TabUser[t])
      PROVE  /\ \A u : u # TabUser[t] => SameCart(u)
             /\ req'[t] # req[t]
  <2>1. \A k \in RowIds : \/ rows'[k] = rows[k]
                          \/ rows[k].user = TabUser[t] /\ rows'[k].user = TabUser[t]
    BY <1>1, <1>4 DEF ClearCart, CartRows, CartRow
  <2>2. QED BY <1>4, <2>1 DEF At, SameCart, CartRows
<1>5. ASSUME NEW t \in Tabs, At(t, "idle"), NEW r \in CartRows(TabUser[t]),
             rows' = [rows EXCEPT ![r].state = "removed"]
      PROVE  \A u : u # TabUser[t] => SameCart(u)
  <2>1. /\ r \in RowIds /\ rows[r].user = TabUser[t] /\ rows'[r].user = TabUser[t]
        /\ \A k \in RowIds : k # r => rows'[k] = rows[k]
    BY <1>1, <1>5 DEF CartRows, CartRow
  <2>2. QED BY <2>1 DEF SameCart, CartRows
<1>6. QED BY Writes, <1>2, <1>3, <1>4, <1>5

LEMMA CartKept ==
    ASSUME OneTabEach, "dbwrite" \notin FaultKinds, Typed, AtomicInv, [Next]_vars,
           NEW t \in Tabs, ~ At(t, "idle"), req'[t] = req[t]
    PROVE  SameCart(TabUser[t])
<1>1. CASE UNCHANGED rows BY <1>1 DEF SameCart, CartRows
<1>2. CASE ~ UNCHANGED rows
  <2>1. PICK s \in Tabs : /\ \A u : u # TabUser[s] => SameCart(u)
                          /\ At(s, "idle") \/ req'[s] # req[s]
    BY <1>2, OthersSame
  <2>2. s # t BY <2>1
  <2>3. QED BY <2>1, <2>2 DEF OneTabEach
<1>3. QED BY <1>1, <1>2

(* The quantity of an AddToCart is set when it begins. *)
Adding(t) == req[t].pc \in {"cart", "mkcart", "item", "insert", "update"}

LEMMA QtyFollows ==
    ASSUME Typed, [Next]_vars, NEW t \in Tabs, Adding(t)'
    PROVE  \/ Adding(t) /\ req'[t].qty = req[t].qty
           \/ req'[t].qty \in Portions
<1>1. req \in [Tabs -> Request] BY DEF Typed, TypeOK, CheckoutTypeOK
<1>2. ASSUME NEW s \in Tabs, NEW p \in Products, NEW q \in Quantities, BeginAdd(s, p, q)
      PROVE  req'[t] = req[t] \/ req'[t].qty \in Portions
  <2>1. s # t => req'[t] = req[t] BY <1>1, <1>2 DEF BeginAdd
  <2>2. s = t => req'[t].qty = Wanted(q) BY <1>1, <1>2 DEF BeginAdd, IdleReq
  <2>3. QED BY <2>1, <2>2 DEF Portions
<1>3. ASSUME NEW s \in Tabs, FindCart(s) \/ MakeCart(s) \/ FindItem(s)
      PROVE  \/ req'[t] = req[t]
             \/ Adding(t) /\ req'[t].qty = req[t].qty
  <2>1. Adding(s) BY <1>3 DEF FindCart, MakeCart, FindItem, At, Adding
  <2>2. \/ Answer(s) \/ \E pc \in {"item", "mkcart", "insert"} : GoTo(s, pc)
        \/ \E r \in RowIds : FoundItem(s, r)
    BY <1>3 DEF FindCart, MakeCart, FindItem, NoItem
  <2>3. CASE Answer(s) BY <1>1, <2>3 DEF Answer, IdleReq, Adding
  <2>4. ASSUME NEW pc \in {"item", "mkcart", "insert"}, GoTo(s, pc)
        PROVE  req'[t] = req[t] \/ (s = t /\ req'[t].qty = req[t].qty)
    BY <1>1, <2>4 DEF GoTo, Request
  <2>5. ASSUME NEW r \in RowIds, FoundItem(s, r)
        PROVE  req'[t] = req[t] \/ (s = t /\ req'[t].qty = req[t].qty)
    BY <1>1, <2>5 DEF FoundItem, Request
  <2>6. QED BY <2>1, <2>2, <2>3, <2>4, <2>5
<1>4. ASSUME NEW s \in Tabs, InsertItem(s) \/ UpdateItem(s) \/ Place(s)
      PROVE  req'[t] = req[t]
  <2>1. ASSUME s = t PROVE req'[s].pc \in {"create", "clear", "publish", "idle"}
    <3>1. CASE ReadCart(s) BY <1>1, <3>1 DEF ReadCart, IdleReq
    <3>2. CASE PlaceCreate(s) BY <1>1, <3>2 DEF PlaceCreate, Answer, IdleReq, Request
    <3>3. CASE PlaceClear(s) BY <1>1, <3>3 DEF PlaceClear, GoTo, Answer, IdleReq, Request
    <3>4. CASE InsertItem(s) \/ UpdateItem(s) \/ PlacePublish(s)
      BY <1>1, <3>4 DEF InsertItem, UpdateItem, PlacePublish, Answer, IdleReq
    <3>5. QED BY <1>4, <3>1, <3>2, <3>3, <3>4 DEF Place
  <2>2. s # t BY <2>1 DEF Adding
  <2>3. CASE PlaceCreate(s) BY <1>1, <2>2, <2>3 DEF PlaceCreate, Answer
  <2>4. CASE ReadCart(s) \/ PlaceClear(s) \/ PlacePublish(s) \/ InsertItem(s) \/ UpdateItem(s)
    BY <1>1, <2>2, <2>4 DEF ReadCart, PlaceClear, PlacePublish, InsertItem, UpdateItem, GoTo,
       Answer
  <2>5. QED BY <1>4, <2>3, <2>4 DEF Place
<1>5. CASE ApiCrash BY <1>5 DEF ApiCrash, DropRequests, IdleReq, Adding
<1>6. CASE UNCHANGED req BY <1>6 DEF Adding
<1>7. QED
  BY <1>2, <1>3, <1>4, <1>5, <1>6 DEF Adding, Next, Shopping, CheckoutStep, Shop, Sell,
     RemoveFromCart, Paying, Working, Queueing, vars, checkoutVars

(* An order keeps its lines. *)
LEMMA InOrderKept ==
    ASSUME Typed, [Next]_vars, NEW r, InOrder(r)
    PROVE  InOrder(r)'
<1>1. OrdersFollow BY StepFollows
<1>2. PICK o \in OrderIds : LineOf(o, r) # {} BY DEF InOrder
<1>3. Exists(o) BY <1>2 DEF Exists, LineOf, NoOrder, Typed, TypeOK, Order
<1>4. QED BY <1>1, <1>2, <1>3 DEF OrdersFollow, LineOf, InOrder

LEMMA AtomicInvStep ==
    ASSUME OneTabEach, "dbwrite" \notin FaultKinds, Typed, AtomicInv, [Next]_vars
    PROVE  AtomicInv'
<1>1. TabsFollow BY StepTabs
<1>2. ASSUME NEW t \in Tabs, Adding(t)' PROVE req'[t].qty \in Portions
  BY <1>2, QtyFollows DEF AtomicInv, Adding
<1>3. ASSUME NEW t \in Tabs, At(t, "update")'
      PROVE  /\ req'[t].row \in CartRows(TabUser[t])'
             /\ req'[t].had = rows'[req'[t].row].qty
  <2>1. CASE req'[t] = req[t]
    <3>1. At(t, "update") BY <1>3, <2>1 DEF At
    <3>2. SameCart(TabUser[t]) BY <2>1, <3>1, CartKept DEF At
    <3>3. QED BY <2>1, <3>1, <3>2 DEF AtomicInv, SameCart
  <2>2. CASE /\ UNCHANGED rows
             /\ \E r \in RowIds : /\ r \in CartRows(TabUser[t])
                                  /\ req'[t].row = r /\ req'[t].had = rows[r].qty
    BY <2>2 DEF CartRows
  <2>3. QED BY <1>1, <1>3, <2>1, <2>2 DEF TabsFollow, At
<1>4. ASSUME NEW t \in Tabs, At(t, "create")'
      PROVE  req'[t].lines = LinesOf(TabUser[t])' /\ req'[t].lines # {}
  <2>1. CASE req'[t] = req[t]
    <3>1. At(t, "create") BY <1>4, <2>1 DEF At
    <3>2. SameCart(TabUser[t]) BY <2>1, <3>1, CartKept DEF At
    <3>3. LinesOf(TabUser[t])' = LinesOf(TabUser[t])
      BY <3>2 DEF SameCart, LinesOf, LineOfRow
    <3>4. QED BY <2>1, <3>1, <3>3 DEF AtomicInv
  <2>2. CASE /\ req'[t].lines = LinesOf(TabUser[t]) /\ CartRows(TabUser[t]) # {}
             /\ UNCHANGED <<rows, late>>
    <3>1. LinesOf(TabUser[t])' = LinesOf(TabUser[t])
      BY <2>2 DEF LinesOf, LineOfRow, CartRows
    <3>2. QED BY <2>2, <3>1 DEF LinesOf
  <2>3. QED BY <1>1, <1>4, <2>1, <2>2 DEF TabsFollow, At
<1>5. ASSUME NEW t \in Tabs, At(t, "clear")', NEW r \in CartRows(TabUser[t])'
      PROVE  InOrder(r)'
  <2>1. CASE req'[t] = req[t]
    <3>1. At(t, "clear") BY <1>5, <2>1 DEF At
    <3>2. SameCart(TabUser[t]) BY <2>1, <3>1, CartKept DEF At
    <3>3. InOrder(r) BY <1>5, <3>1, <3>2 DEF AtomicInv, SameCart
    <3>4. QED BY <3>3, InOrderKept
  <2>2. CASE /\ NextOrder(req'[t].order) /\ req[t].pc = "create"
             /\ orders'[req'[t].order].items = req[t].lines /\ UNCHANGED rows
    <3>1. r \in CartRows(TabUser[t]) BY <1>5, <2>2 DEF CartRows
    <3>2. LineOfRow(r) \in req[t].lines BY <2>2, <3>1 DEF AtomicInv, At, LinesOf
    <3>3. LineOfRow(r).row = r BY DEF LineOfRow
    <3>4. QED BY <2>2, <3>2, <3>3 DEF InOrder, LineOf, NextOrder
  <2>3. QED BY <1>1, <1>5, <2>1, <2>2 DEF TabsFollow, At
<1>6. QED BY <1>2, <1>3, <1>4, <1>5 DEF AtomicInv, Adding, At

(* The two variables of AtomicCheckout, as OrderRefinement sees them.      *)
CartsSeen == [u \in Users |-> cartOf(u)]
BoughtSeen == [o \in OrderIds |-> boughtOf(o)]

AtomicStep == Atomic!Next \/ UNCHANGED Atomic!cartVars

NothingNew == \A o \in OrderIds : Exists(o)' => Exists(o)

LEMMA NothingBought ==
    ASSUME Typed, [Next]_vars, NothingNew
    PROVE  /\ BoughtSeen' = BoughtSeen
           /\ \A r : InOrder(r)' <=> InOrder(r)
<1>1. OrdersFollow /\ Typed' BY StepFollows, Follows
<1>2. ASSUME NEW o \in OrderIds
      PROVE  orders'[o].user = orders[o].user /\ orders'[o].items = orders[o].items
  <2>1. CASE Exists(o) BY <1>1, <2>1 DEF OrdersFollow
  <2>2. CASE ~ Exists(o)
    <3>1. ~ Exists(o)' BY <2>2 DEF NothingNew
    <3>2. orders[o] = NoOrder BY <2>2 DEF Exists, Typed, TypeOK, Order
    <3>3. orders'[o] = NoOrder BY <1>1, <3>1 DEF Exists, Typed, TypeOK, Order
    <3>4. QED BY <3>2, <3>3
  <2>3. QED BY <2>1, <2>2
<1>3. BoughtSeen' = BoughtSeen BY <1>2 DEF BoughtSeen, boughtOf
<1>4. QED BY <1>2, <1>3 DEF InOrder, LineOf

(* A cart nobody writes looks the same, unless it is ordered. *)
LEMMA SameSeen ==
    ASSUME NEW u, SameCart(u), \A r \in CartRows(u) : InOrder(r)' <=> InOrder(r)
    PROVE  cartOf(u)' = cartOf(u)
<1>1. \A r \in CartRows(u) : LineOfRow(r)' = LineOfRow(r) BY DEF SameCart, LineOfRow
<1>2. QED BY <1>1 DEF SameCart, cartOf

LEMMA NothingSold ==
    ASSUME Typed, [Next]_vars, NothingNew, UNCHANGED rows
    PROVE  AtomicStep
<1>1. /\ BoughtSeen' = BoughtSeen
      /\ \A r : InOrder(r)' <=> InOrder(r)
  BY NothingBought
<1>2. \A u : SameCart(u) BY DEF SameCart, CartRows
<1>3. CartsSeen' = CartsSeen BY <1>1, <1>2, SameSeen DEF CartsSeen
<1>4. QED BY <1>1, <1>3 DEF AtomicStep, Atomic!cartVars, CartsSeen, BoughtSeen

(* Only a request that is to clear the cart has ordered what is in it. *)
LEMMA NotOrdered ==
    ASSUME OneTabEach, OrderedInv, NEW t \in Tabs, ~ At(t, "clear"),
           NEW r \in CartRows(TabUser[t])
    PROVE  ~ InOrder(r)
BY DEF OrderedInv, InOrder, CartRows, OneTabEach

LEMMA AddSeen ==
    ASSUME Typed, BilledInv, AtomicInv, [Next]_vars, NothingNew,
           NEW t \in Tabs, At(t, "insert"), NEW k \in RowIds, AddItem(t, k)
    PROVE  AtomicStep
<1> DEFINE u == TabUser[t]
<1> DEFINE line == LineOfRow(k)'
<1>1. /\ BoughtSeen' = BoughtSeen
      /\ \A r : InOrder(r)' <=> InOrder(r)
  BY NothingBought
<1>2. rows \in [RowIds -> CartRow] BY DEF Typed, TypeOK, CheckoutTypeOK
<1>3. /\ rows[k].state = "unused" /\ rows'[k].state = "live" /\ rows'[k].user = u
      /\ rows'[k].qty = req[t].qty
      /\ \A r \in RowIds : r # k => rows'[r] = rows[r]
  BY <1>2 DEF AddItem, NextRow
<1>4. \A o \in OrderIds : \A other \in orders[o].items : other.row # k
  BY <1>3 DEF BilledInv, Bought
<1>5. ~ InOrder(k) BY <1>4 DEF InOrder, LineOf
<1>6. u \in Users BY CheckoutAssumption
<1>7. CartRows(u)' = CartRows(u) \cup {k} BY <1>3 DEF CartRows
<1>8. \A r \in CartRows(u) : LineOfRow(r)' = LineOfRow(r)
  BY <1>3 DEF LineOfRow, CartRows
<1>9. cartOf(u)' = cartOf(u) \cup {line}
  <2>1. cartOf(u)' = {LineOfRow(r)' : r \in {j \in CartRows(u)' : ~ InOrder(j)'}}
    BY DEF cartOf
  <2>2. {j \in CartRows(u)' : ~ InOrder(j)'} = {j \in CartRows(u) : ~ InOrder(j)} \cup {k}
    BY <1>1, <1>5, <1>7
  <2>3. QED BY <1>8, <2>1, <2>2 DEF cartOf
<1>10. \A v \in Users : v # u => cartOf(v)' = cartOf(v)
  <2>1. \A v : v # u => SameCart(v) BY <1>3 DEF SameCart, CartRows
  <2>2. QED BY <1>1, <2>1, SameSeen
<1>11. CartsSeen' = [CartsSeen EXCEPT ![u] = CartsSeen[u] \cup {line}]
  BY <1>6, <1>9, <1>10 DEF CartsSeen
<1>12. line.row = k /\ line.qty \in Portions
  BY <1>3 DEF LineOfRow, AtomicInv, At
<1>13. \A v \in Users : \A other \in CartsSeen[v] : other.row # line.row
  BY <1>3, <1>12 DEF CartsSeen, cartOf, LineOfRow, CartRows
<1>14. \A o \in OrderIds : \A other \in BoughtSeen[o].lines : other.row # line.row
  BY <1>4, <1>12 DEF BoughtSeen, boughtOf
<1>15. line \in CartsSeen'[u] BY <1>6, <1>9 DEF CartsSeen
<1>16. Atomic!Put(u)
  <2> HIDE DEF line
  <2>1. QED
    BY <1>1, <1>11, <1>12, <1>13, <1>14, <1>15 DEF Atomic!Put, CartsSeen, BoughtSeen
<1>17. QED BY <1>6, <1>16 DEF AtomicStep, Atomic!Next

LEMMA IncreaseSeen ==
    ASSUME OneTabEach, Typed, OrderedInv, AtomicInv, [Next]_vars, NothingNew,
           NEW t \in Tabs, At(t, "update"), NEW k \in CartRows(TabUser[t]),
           rows' = [rows EXCEPT ![k].qty = rows[k].qty + req[t].qty,
                                ![k].added = @ + req[t].qty]
    PROVE  AtomicStep
<1> DEFINE u == TabUser[t]
<1> DEFINE line == LineOfRow(k)
<1>1. /\ BoughtSeen' = BoughtSeen
      /\ \A r : InOrder(r)' <=> InOrder(r)
  BY NothingBought
<1>2. rows \in [RowIds -> CartRow] /\ k \in RowIds
  BY DEF Typed, TypeOK, CheckoutTypeOK, CartRows
<1>3. /\ rows'[k].state = rows[k].state /\ rows'[k].user = rows[k].user
      /\ rows'[k].product = rows[k].product /\ rows'[k].price = rows[k].price
      /\ rows'[k].qty = rows[k].qty + req[t].qty
      /\ \A r \in RowIds : r # k => rows'[r] = rows[r]
  BY <1>2 DEF CartRow
<1>4. ~ InOrder(k) BY NotOrdered DEF At
<1>5. u \in Users /\ req[t].qty \in Portions BY CheckoutAssumption DEF AtomicInv, At
<1>6. CartRows(u)' = CartRows(u) BY <1>3 DEF CartRows
<1>7. \A r \in CartRows(u) : r # k => LineOfRow(r)' = LineOfRow(r)
  BY <1>3 DEF LineOfRow, CartRows
<1>8. LineOfRow(k)' = [line EXCEPT !.qty = line.qty + req[t].qty]
  BY <1>3 DEF LineOfRow
<1>9. \A r, j : LineOfRow(r) = LineOfRow(j) => r = j BY DEF LineOfRow
<1>10. cartOf(u)' = (cartOf(u) \ {line}) \cup {LineOfRow(k)'}
  <2>1. cartOf(u)' = {LineOfRow(r)' : r \in {j \in CartRows(u) : ~ InOrder(j)}}
    BY <1>1, <1>6 DEF cartOf
  <2>2. cartOf(u) \ {line} = {LineOfRow(r) : r \in {j \in CartRows(u) : ~ InOrder(j) /\ j # k}}
    BY <1>9 DEF cartOf
  <2>3. QED BY <1>4, <1>7, <2>1, <2>2
<1>11. \A v \in Users : v # u => cartOf(v)' = cartOf(v)
  <2>1. \A v : v # u => SameCart(v) BY <1>3 DEF SameCart, CartRows
  <2>2. QED BY <1>1, <2>1, SameSeen
<1>12. CartsSeen' = [CartsSeen EXCEPT ![u] =
                        (CartsSeen[u] \ {line}) \cup {[line EXCEPT !.qty = line.qty + req[t].qty]}]
  BY <1>5, <1>8, <1>10, <1>11 DEF CartsSeen
<1>13. line \in CartsSeen[u] BY <1>4, <1>5 DEF CartsSeen, cartOf
<1>14. Atomic!Increase(u)
  <2> HIDE DEF line
  <2>1. QED BY <1>1, <1>5, <1>12, <1>13 DEF Atomic!Increase, CartsSeen, BoughtSeen
<1>15. QED BY <1>5, <1>14 DEF AtomicStep, Atomic!Next

LEMMA TakeOutSeen ==
    ASSUME OneTabEach, Typed, OrderedInv, [Next]_vars, NothingNew,
           NEW t \in Tabs, At(t, "idle"), NEW k \in CartRows(TabUser[t]),
           rows' = [rows EXCEPT ![k].state = "removed"]
    PROVE  AtomicStep
<1> DEFINE u == TabUser[t]
<1> DEFINE line == LineOfRow(k)
<1>1. /\ BoughtSeen' = BoughtSeen
      /\ \A r : InOrder(r)' <=> InOrder(r)
  BY NothingBought
<1>2. rows \in [RowIds -> CartRow] /\ k \in RowIds
  BY DEF Typed, TypeOK, CheckoutTypeOK, CartRows
<1>3. /\ rows'[k].state = "removed" /\ rows[k].user = u
      /\ \A r \in RowIds : r # k => rows'[r] = rows[r]
  BY <1>2 DEF CartRow, CartRows
<1>4. ~ InOrder(k) BY NotOrdered DEF At
<1>5. u \in Users BY CheckoutAssumption
<1>6. CartRows(u)' = CartRows(u) \ {k} BY <1>3 DEF CartRows
<1>7. \A r \in CartRows(u) : r # k => LineOfRow(r)' = LineOfRow(r)
  BY <1>3 DEF LineOfRow, CartRows
<1>8. \A r, j : LineOfRow(r) = LineOfRow(j) => r = j BY DEF LineOfRow
<1>9. cartOf(u)' = cartOf(u) \ {line}
  <2>1. cartOf(u)' = {LineOfRow(r)' : r \in {j \in CartRows(u) : ~ InOrder(j) /\ j # k}}
    BY <1>1, <1>6 DEF cartOf
  <2>2. cartOf(u) \ {line} = {LineOfRow(r) : r \in {j \in CartRows(u) : ~ InOrder(j) /\ j # k}}
    BY <1>8 DEF cartOf
  <2>3. QED BY <1>7, <2>1, <2>2
<1>10. \A v \in Users : v # u => cartOf(v)' = cartOf(v)
  <2>1. \A v : v # u => SameCart(v)
    <3>1. rows'[k].user = u BY <1>2, <1>3 DEF CartRow
    <3>2. QED BY <1>3, <3>1 DEF SameCart, CartRows
  <2>2. QED BY <1>1, <2>1, SameSeen
<1>11. CartsSeen' = [CartsSeen EXCEPT ![u] = CartsSeen[u] \ {line}]
  BY <1>5, <1>9, <1>10 DEF CartsSeen
<1>12. line \in CartsSeen[u] BY <1>4, <1>5 DEF CartsSeen, cartOf
<1>13. Atomic!TakeOut(u)
  <2> HIDE DEF line
  <2>1. QED BY <1>1, <1>11, <1>12 DEF Atomic!TakeOut, CartsSeen, BoughtSeen
<1>14. QED BY <1>5, <1>13 DEF AtomicStep, Atomic!Next

(* What is cleared has been ordered. *)
LEMMA ClearSeen ==
    ASSUME Typed, AtomicInv, [Next]_vars, NothingNew,
           NEW t \in Tabs, At(t, "clear"), ClearCart(TabUser[t])
    PROVE  AtomicStep
<1> DEFINE u == TabUser[t]
<1>1. /\ BoughtSeen' = BoughtSeen
      /\ \A r : InOrder(r)' <=> InOrder(r)
  BY NothingBought
<1>2. rows \in [RowIds -> CartRow] BY DEF Typed, TypeOK, CheckoutTypeOK
<1>3. CartRows(u)' = {}
  BY <1>2 DEF ClearCart, CartRows, CartRow
<1>4. cartOf(u) = {} BY DEF cartOf, AtomicInv
<1>5. cartOf(u)' = {} BY <1>3 DEF cartOf
<1>6. \A v : v # u => SameCart(v)
  <2>1. \A r \in RowIds : r \in CartRows(u) => rows'[r].user = u
    BY <1>2 DEF ClearCart, CartRows, CartRow
  <2>2. \A r \in RowIds : r \notin CartRows(u) => rows'[r] = rows[r]
    BY DEF ClearCart
  <2>3. \A r \in CartRows(u) : r \in RowIds /\ rows[r].user = u BY DEF CartRows
  <2>4. QED BY <2>1, <2>2, <2>3 DEF SameCart, CartRows
<1>7. \A v : v # u => cartOf(v)' = cartOf(v) BY <1>1, <1>6, SameSeen
<1>8. CartsSeen' = CartsSeen BY <1>4, <1>5, <1>7 DEF CartsSeen
<1>9. QED BY <1>1, <1>8 DEF AtomicStep, Atomic!cartVars, CartsSeen, BoughtSeen

LEMMA BuySeen ==
    ASSUME OneTabEach, "dbwrite" \notin FaultKinds,
           Typed, BilledInv, OrderedInv, AtomicInv, [Next]_vars,
           NEW o \in OrderIds, ~ Exists(o), Exists(o)'
    PROVE  AtomicStep
<1>1. PICK t \in Tabs : /\ At(t, "create")
                        /\ orders'[o].user = TabUser[t]
                        /\ orders'[o].items = req[t].lines
                        /\ req'[t].pc = "clear" /\ req'[t].order = o
  BY NewOrder
<1> DEFINE u == TabUser[t]
<1>2. OrdersFollow /\ TabsFollow /\ Typed' BY StepFollows, StepTabs, Follows
<1>3. UNCHANGED rows /\ \A s \in Tabs : s # t => req'[s] = req[s]
  BY <1>1, <1>2 DEF TabsFollow, At
<1>4. ASSUME NEW p \in OrderIds, p # o
      PROVE  orders'[p].user = orders[p].user /\ orders'[p].items = orders[p].items
  <2>1. CASE Exists(p) BY <1>2, <2>1 DEF OrdersFollow
  <2>2. CASE ~ Exists(p) /\ Exists(p)'
    <3>1. PICK s \in Tabs : At(s, "create") /\ req'[s].pc = "clear" /\ req'[s].order = p
      BY <2>2, NewOrder
    <3>2. s = t BY <1>3, <3>1 DEF At
    <3>3. QED BY <1>1, <1>4, <3>1, <3>2
  <2>3. CASE ~ Exists(p) /\ ~ Exists(p)'
    <3>1. orders[p] = NoOrder BY <2>3 DEF Exists, Typed, TypeOK, Order
    <3>2. orders'[p] = NoOrder BY <1>2, <2>3 DEF Exists, Typed, TypeOK, Order
    <3>3. QED BY <3>1, <3>2
  <2>4. QED BY <2>1, <2>2, <2>3
<1>5. orders[o] = NoOrder BY DEF Exists, Typed, TypeOK, Order
<1>6. u \in Users BY CheckoutAssumption
<1>7. \A r \in CartRows(u) : ~ InOrder(r) BY <1>1, NotOrdered DEF At
<1>8. req[t].lines = LinesOf(u) /\ req[t].lines # {} BY <1>1 DEF AtomicInv
<1>9. cartOf(u) = req[t].lines BY <1>7, <1>8 DEF cartOf, LinesOf
<1>10. \A r \in CartRows(u) : InOrder(r)'
  <2>1. \A r \in CartRows(u) : LineOfRow(r) \in orders'[o].items /\ LineOfRow(r).row = r
    BY <1>1, <1>8 DEF LinesOf, LineOfRow
  <2>2. QED BY <2>1 DEF InOrder, LineOf
<1>11. cartOf(u)' = {} BY <1>3, <1>10 DEF cartOf, CartRows
<1>12. ASSUME NEW v \in Users, v # u
       PROVE  cartOf(v)' = cartOf(v)
  <2>1. SameCart(v) BY <1>3 DEF SameCart, CartRows
  <2>2. ASSUME NEW r \in CartRows(v) PROVE InOrder(r)' <=> InOrder(r)
    <3>1. ASSUME NEW line \in orders'[o].items, line.row = r PROVE FALSE
      BY <1>1, <1>8, <1>12, <2>2, <3>1 DEF LinesOf, LineOfRow, CartRows
    <3>2. orders[o].items = {} BY <1>5 DEF NoOrder
    <3>3. QED BY <1>4, <3>1, <3>2 DEF InOrder, LineOf
  <2>3. QED BY <2>1, <2>2, SameSeen
<1>13. CartsSeen' = [CartsSeen EXCEPT ![u] = {}] BY <1>6, <1>11, <1>12 DEF CartsSeen
<1>14. BoughtSeen' = [BoughtSeen EXCEPT ![o] = [by |-> u, lines |-> CartsSeen[u]]]
  BY <1>1, <1>4, <1>6, <1>9 DEF BoughtSeen, boughtOf, CartsSeen
<1>15. CartsSeen[u] # {} BY <1>6, <1>8, <1>9 DEF CartsSeen
<1>16. BoughtSeen[o] = Atomic!NotPlaced
  BY <1>5 DEF BoughtSeen, boughtOf, NoOrder, Atomic!NotPlaced
<1>17. Atomic!Buy(u, o)
  BY <1>13, <1>14, <1>15, <1>16 DEF Atomic!Buy, CartsSeen, BoughtSeen
<1>18. QED BY <1>6, <1>17 DEF AtomicStep, Atomic!Next

LEMMA AtomicStepSeen ==
    ASSUME OneTabEach, "dbwrite" \notin FaultKinds,
           Typed, BilledInv, OrderedInv, AtomicInv, [Next]_vars
    PROVE  AtomicStep
<1>1. CASE ~ NothingNew BY <1>1, BuySeen DEF NothingNew
<1>2. CASE NothingNew /\ UNCHANGED rows BY <1>2, NothingSold
<1>3. CASE NothingNew /\ ~ UNCHANGED rows
  BY <1>3, Writes, AddSeen, IncreaseSeen, TakeOutSeen, ClearSeen
<1>4. QED BY <1>1, <1>2, <1>3

(* As long as a user has one tab, no write fails and the API is not killed, *)
(* AddToCart, RemoveFromCart and PlaceOrder, statement by statement and     *)
(* interleaved with everybody else's, look like single steps: no quantity   *)
(* that was added is lost or ordered twice, and an order has all of the     *)
(* cart.                                                                    *)
THEOREM CheckoutAtomic ==
    ASSUME OneTabEach, "dbwrite" \notin FaultKinds, "crash" \notin FaultKinds
    PROVE  Spec => OrdersAtomically
<1>1. Init => BilledInv /\ OrderedInv /\ AtomicInv
  BY DEF Init, CheckoutInit, OrdersInit, UnusedRow, IdleReq, NoOrder, BilledInv, OrderedInv,
     RowOrderedOnce, LineOf, At, AtomicInv
<1>2. Init => Atomic!Init
  <2>1. Init => \A u : CartRows(u) = {} BY DEF Init, CheckoutInit, UnusedRow, CartRows
  <2>2. Init => \A u : cartOf(u) = {} BY <2>1 DEF cartOf
  <2>3. Init => \A o \in OrderIds : boughtOf(o) = Atomic!NotPlaced
    BY DEF Init, OrdersInit, NoOrder, boughtOf, Atomic!NotPlaced
  <2>4. QED BY <2>2, <2>3 DEF Atomic!Init
<1>3. Typed /\ BilledInv /\ OrderedInv /\ AtomicInv /\ [Next]_vars =>
        BilledInv' /\ OrderedInv' /\ AtomicInv'
  BY BilledInvStep, OrderedInvStep, AtomicInvStep
<1>4. Typed /\ BilledInv /\ OrderedInv /\ AtomicInv /\ [Next]_vars =>
        [Atomic!Next]_Atomic!cartVars
  BY AtomicStepSeen DEF AtomicStep
<1>5. QED
  BY <1>1, <1>2, <1>3, <1>4, Typing, PTL DEF Spec, OrdersAtomically, Atomic!Spec
=============================================================================
