-------------------------- MODULE OrderInvariants --------------------------
(***************************************************************************)
(* The inductive invariants behind the safety properties of OrderSystem.   *)
(* Each conjunct says what a row, a message or a request in flight already *)
(* knows; together they are preserved by every step, which the properties  *)
(* alone are not.                                                          *)
(***************************************************************************)
EXTENDS OrderRefinement

IsOrder(o) == o \in OrderIds /\ Exists(o)

(* Who refers to what, for references that are followed without a look.    *)
RowsRefer ==
    \A r \in RowIds : rows[r].state # "unused" => rows[r].product \in Products

RequestsRefer ==
    \A t \in Tabs :
        /\ req[t].pc \in {"cart", "mkcart", "item", "insert", "update"}
               => req[t].product \in Products
        /\ req[t].pc = "update" => req[t].row \in RowIds
        /\ req[t].pc \in {"clear", "publish"} => IsOrder(req[t].order)

(* A cart is read to its end: the sum over its lines is one. *)
LinesFinite == \A t \in Tabs : IsFiniteSet(req[t].lines)

LinksRefer == \A l \in LinkIds : links[l].state # "none" => IsOrder(links[l].order)

PayReqsRefer == \A t \in PayReqs : pay[t].pc # "idle" => IsOrder(pay[t].order)

Transferred(l) == l \in LinkIds /\ links[l].state \in {"paid", "acked"}

HooksRefer ==
    \A h \in Hooks :
        /\ hook[h].link # 0 => Transferred(hook[h].link)
        /\ hook[h].pc \in {"credit", "publish"} => hook[h].link # 0

MessagesRefer ==
    \A m \in MsgIds : (Sent(m) /\ queue[m].type \in Events) => IsOrder(queue[m].order)

Handling(w) == wpc[w] \in {"load", "confirm", "mail"}

WorkerRefers(w) ==
    /\ \A r \in batch[w] : Sent(r.msg)
    /\ Handling(w) \/ wpc[w] = "delete" => cur[w] \in Receipt /\ Sent(cur[w].msg)
    /\ Handling(w) => CurType(w) \in Events

WorkersRefer == \A w \in Workers : WorkerRefers(w)

WellFormed ==
    /\ RowsRefer /\ RequestsRefer /\ LinesFinite
    /\ LinksRefer /\ PayReqsRefer /\ HooksRefer
    /\ MessagesRefer /\ WorkersRefer

Typed == TypeOK /\ WellFormed

(* Everything that carries the news of a payment is about a paid order.    *)
PaidNews ==
    /\ \A m \in MsgIds, o \in OrderIds : IsEvent(m, "ORDER_PAID", o) => Paid(o)
    /\ \A h \in Hooks : hook[h].pc = "publish" => Paid(HookOrder(h))

PaidInv ==
    /\ PaidBeforeConfirmed
    /\ PaidNews
    /\ \A w \in Workers : wpc[w] = "confirm" => CurType(w) = "ORDER_PAID"

(* The total of an order is the sum over its own lines, to the cent. *)
BilledTotal ==
    \A o \in OrderIds :
        IsFiniteSet(orders[o].items) /\ orders[o].total = Cents(orders[o].items)

(* A webhook about to credit has seen the amount. *)
SettledInv ==
    /\ PaidOnlyIfSettled
    /\ \A h \in Hooks : hook[h].pc = "credit" => AmountMatches(hook[h].link)

(* A webhook that is about to be answered 200 is not needed any more: its  *)
(* order is paid, or its amount is wrong.                                  *)
AckedInv ==
    /\ AckedMeansPaid
    /\ \A h \in Hooks :
          (hook[h].pc \in {"publish", "answer"} /\ Creditable(h)) => Paid(HookOrder(h))

(* Nor is it, with a queue to publish to, before ORDER_PAID was sent.      *)
ToldInv ==
    /\ AckedMeansTold
    /\ \A h \in Hooks :
          (hook[h].pc = "answer" /\ Creditable(h)) => Told(HookOrder(h))

(* A worker about to mail has not mailed yet, and one that has mailed will *)
(* find the order confirmed.                                               *)
MailInv ==
    /\ OncePerWorker
    /\ \A o \in OrderIds, w \in Workers : paidMails[o][w] > 0 => Confirmed(o)
    /\ \A w \in Workers :
          /\ wpc[w] = "confirm" => paidMails[CurOrder(w)][w] = 0
          /\ (wpc[w] = "mail" /\ CurType(w) = "ORDER_PAID") =>
                 Confirmed(CurOrder(w)) /\ paidMails[CurOrder(w)][w] = 0

(* A worker about to delete has done what the message asked for. *)
DoneInv ==
    /\ DeletedMeansDone
    /\ \A w \in Workers : wpc[w] = "delete" =>
          /\ CurType(w) = "ORDER_PAID" => Confirmed(CurOrder(w))
          /\ CurType(w) = "ORDER_PLACED" => CurOrder(w) \in placedMails

(* The row of a line is the user's own, and was asked for in that quantity *)
(* at least.                                                               *)
Bought(line, u) ==
    /\ rows[line.row].state # "unused"
    /\ rows[line.row].user = u
    /\ rows[line.row].product = line.product
    /\ line.qty <= rows[line.row].added

(* So it is with what a request has read of a cart and what an order has,  *)
(* since rows never change hands and what was asked for only grows.        *)
BilledInv ==
    /\ \A r \in RowIds : rows[r].state # "unused" => rows[r].qty <= rows[r].added
    /\ \A t \in Tabs : At(t, "update") =>
          /\ rows[req[t].row].state # "unused"
          /\ req[t].had <= rows[req[t].row].added
    /\ \A t \in Tabs : At(t, "create") =>
          \A line \in req[t].lines : Bought(line, TabUser[t])
    /\ \A o \in OrderIds : \A line \in orders[o].items : Bought(line, orders[o].user)

(* What a PlaceOrder is to clear it has read, but for rows written since;  *)
(* and what it has read is in its order.                                   *)
LostInv ==
    /\ LostOnlyIfLate
    /\ \A t \in Tabs : At(t, "update") => rows[req[t].row].user = TabUser[t]
    /\ \A t \in Tabs : req[t].pc \in {"create", "clear"} =>
          \A r \in CartRows(TabUser[t]) : r \notin late => LineOfRow(r) \in req[t].lines
    /\ \A t \in Tabs : At(t, "clear") => orders[req[t].order].items = req[t].lines

(* A request that is to insert a row has found none; with one tab per user *)
(* nobody else inserts one.                                                *)
OneRowInv ==
    /\ OneRowPerProduct
    /\ \A r \in RowIds : rows[r].state = "live" => rows[r].user \in Users
    /\ \A t \in Tabs : At(t, "insert") =>
          \A r \in CartRows(TabUser[t]) : rows[r].product # req[t].product

(* A row that was ordered and is still in the cart is about to be cleared  *)
(* by the request that ordered it; what a request has read is not ordered. *)
OrderedInv ==
    /\ RowOrderedOnce
    /\ \A r \in RowIds, o \in OrderIds : (LineOf(o, r) # {} /\ rows[r].state = "live") =>
          \E t \in Tabs : At(t, "clear") /\ req[t].order = o /\ rows[r].user = TabUser[t]
    /\ \A t \in Tabs : At(t, "create") =>
          \A line \in req[t].lines, o \in OrderIds : LineOf(o, line.row) = {}

(* What a request has read is still so when it writes: a cart with one tab *)
(* changes only by the requests of that tab.                               *)
AtomicInv ==
    /\ \A t \in Tabs :
          req[t].pc \in {"cart", "mkcart", "item", "insert", "update"} => req[t].qty \in Portions
    /\ \A t \in Tabs : At(t, "update") =>
          req[t].row \in CartRows(TabUser[t]) /\ req[t].had = rows[req[t].row].qty
    /\ \A t \in Tabs : At(t, "create") =>
          req[t].lines = LinesOf(TabUser[t]) /\ req[t].lines # {}
    /\ \A t \in Tabs : At(t, "clear") => \A r \in CartRows(TabUser[t]) : InOrder(r)

(* An order that a request has yet to announce is that request's alone, and *)
(* nobody has announced it.                                                *)
Announces(t, o) == req[t].pc \in {"clear", "publish"} /\ req[t].order = o

AnnouncedInv ==
    /\ PlacedEventOnce
    /\ \A t \in Tabs, o \in OrderIds : Announces(t, o) =>
          /\ \A m \in MsgIds : ~ IsEvent(m, "ORDER_PLACED", o)
          /\ \A s \in Tabs : Announces(s, o) => s = t
=============================================================================
