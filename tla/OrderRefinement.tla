-------------------------- MODULE OrderRefinement --------------------------
(***************************************************************************)
(* The order system implements the order's life cycle and, to a customer   *)
(* with one tab, a checkout in one step.                                   *)
(***************************************************************************)
EXTENDS OrderSystem

stageOf(o) ==
    CASE ~ Exists(o)                            -> "none"
      [] Exists(o) /\ Confirmed(o)              -> "confirmed"
      [] Exists(o) /\ ~ Confirmed(o) /\ Paid(o) -> "paid"
      [] OTHER                                  -> "pending"

billOf(o) == <<orders[o].user, orders[o].total, orders[o].items>>

Lifecycle == INSTANCE OrderLifecycle WITH
    Ids     <- OrderIds,
    stage   <- [o \in OrderIds |-> stageOf(o)],
    bill    <- [o \in OrderIds |-> billOf(o)],
    settled <- {o \in OrderIds : SettledBy(o)},
    told    <- {o \in OrderIds : \E w \in Workers : paidMails[o][w] > 0}

(* Every step of the API, the queue, payOS and the workers is a step of the *)
(* life cycle, or leaves it alone.                                          *)
Implements == Lifecycle!Spec

(* A row counts as being in the cart until an order has it: between the    *)
(* insert of the order and ClearCart the table still holds it.             *)
InOrder(r) == \E o \in OrderIds : LineOf(o, r) # {}
cartOf(u) == {LineOfRow(r) : r \in {k \in CartRows(u) : ~ InOrder(k)}}

boughtOf(o) == [by |-> orders[o].user, lines |-> orders[o].items]

Portions == {Wanted(q) : q \in Quantities}

Atomic == INSTANCE AtomicCheckout WITH
    People  <- Users,
    Ids     <- OrderIds,
    Amounts <- Portions,
    cart    <- [u \in Users |-> cartOf(u)],
    bought  <- [o \in OrderIds |-> boughtOf(o)]

(* To users who have one tab each, AddToCart, RemoveFromCart and PlaceOrder *)
(* look like one step each, though they are up to five statements: nothing  *)
(* added is lost, and PlaceOrder moves the whole cart, as it is, into the   *)
(* order, unless a write fails or the process dies between two of them.     *)
OrdersAtomically == Atomic!Spec
=============================================================================
