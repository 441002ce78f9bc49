------------------------------- MODULE Orders -------------------------------
(***************************************************************************)
(* The orders table, and the statements the repository layer runs on it.   *)
(* The API and the worker are separate processes that share only this      *)
(* table and the queue.  Every statement commits on its own: the code has  *)
(* no transaction around two of them.                                      *)
(***************************************************************************)
EXTENDS Integers

CONSTANTS
    MaxOrders,    \* bound: orders that can be placed
    Users         \* customers

ASSUME OrdersAssumption ==
    /\ MaxOrders \in Nat \ {0}
    /\ "none" \notin Users

OrderIds == 1 .. MaxOrders

VARIABLE orders   \* order id -> row, NoOrder while the id is unused

(* A row that has not been inserted. *)
NoOrder == [user |-> "none", status |-> "none", payment |-> "none",
            total |-> 0, link |-> 0, items |-> {}]

Exists(o) == orders[o].status # "none"

(* BIGSERIAL: the next id of the sequence. *)
NextOrder(o) ==
    /\ o \in OrderIds
    /\ ~ Exists(o)
    /\ \A p \in OrderIds : p < o => Exists(p)

(* INSERT of the order and, in the same transaction, of its items. *)
CreateOrder(o, user, total, items) ==
    orders' = [orders EXCEPT ![o] =
        [user |-> user, status |-> "pending", payment |-> "pending",
         total |-> total, link |-> 0, items |-> items]]

(* UPDATE orders SET <column> WHERE id = o, for the three columns the code *)
(* writes; a row that does not exist is not an error.                      *)
SetPaid(o) == orders' = [orders EXCEPT ![o].payment = "paid"]
SetConfirmed(o) == orders' = [orders EXCEPT ![o].status = "confirmed"]
SetLink(o, link) == orders' = [orders EXCEPT ![o].link = link]

Paid(o) == orders[o].payment = "paid"
Confirmed(o) == orders[o].status = "confirmed"

OrdersInit == orders = [o \in OrderIds |-> NoOrder]
=============================================================================
