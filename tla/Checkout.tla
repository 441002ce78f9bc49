------------------------------ MODULE Checkout ------------------------------
(***************************************************************************)
(* The shopping half of the API: carts and PlaceOrder.  A tab is one       *)
(* client session of a user; it sends one request at a time, and each      *)
(* database call of a request is a step of its own, because the code holds *)
(* no transaction and no lock between two of them.  A step that ends a     *)
(* request with an error and changes nothing is left out, unless it has    *)
(* to be told apart.                                                       *)
(***************************************************************************)
EXTENDS Catalog, Orders, Sqs, Money

CONSTANTS
    Tabs,         \* client sessions
    TabUser,      \* the user logged in on each
    Quantities,   \* the quantities clients ask for
    MaxRows,      \* bound: cart rows ever inserted
    MaxAdded      \* bound: an AddToCart starts only while no row has had
                  \* this quantity added to it

ASSUME CheckoutAssumption ==
    /\ TabUser \in [Tabs -> Users]
    /\ Quantities \subseteq Int
    /\ MaxRows \in Nat
    /\ MaxAdded \in Nat

VARIABLES
    carts,        \* user -> does the user have a carts row
    rows,         \* cart_items: row id -> row
    req,          \* tab -> the request it is in
    late          \* history: rows written while a PlaceOrder of their user
                  \* was between reading the cart and clearing it

checkoutVars == <<products, carts, rows, req, late>>

RowIds == 1 .. MaxRows

(* state says why a row is not in the cart: it was never inserted, its     *)
(* user removed it, or ClearCart deleted it.  added is history: the sum of *)
(* the quantities of the AddToCart requests that wrote this row.           *)
UnusedRow == [state |-> "unused", user |-> "none", product |-> "none",
              qty |-> 0, price |-> 0, added |-> 0]

(* A tab between requests, and one between two steps of a request: the     *)
(* local variables of AddToCart (product, qty and price, then the existing *)
(* item's row and the quantity it had) and of PlaceOrder (lines, order).   *)
IdleReq == [pc |-> "idle", product |-> "none", qty |-> 0, price |-> 0,
            row |-> 0, had |-> 0, lines |-> {}, order |-> 0]

At(t, pc) == req[t].pc = pc
GoTo(t, pc) == req' = [req EXCEPT ![t].pc = pc]
Answer(t) == req' = [req EXCEPT ![t] = IdleReq]

CartRows(u) == {r \in RowIds : rows[r].state = "live" /\ rows[r].user = u}

NextRow(r) ==
    /\ r \in RowIds
    /\ rows[r].state = "unused"
    /\ \A k \in RowIds : k < r => rows[k].state # "unused"

(* Some tab of u has read the cart for PlaceOrder and not cleared it yet. *)
Placing(u) == \E t \in Tabs : TabUser[t] = u /\ req[t].pc \in {"create", "clear"}
Touch(u, r) == late' = IF Placing(u) THEN late \cup {r} ELSE late

(***************************************************************************)
(* AddToCart                                                               *)
(***************************************************************************)

Wanted_Raw(q) == q                    \* a variant: the default is missing

(* input.Quantity <= 0 means one. *)
Wanted(q) == IF q <= 0 THEN 1 ELSE q

(* The bounds on what a run puts into carts. *)
RoomToAdd ==
    /\ \E r \in RowIds : rows[r].state = "unused"
    /\ \A r \in RowIds : rows[r].added < MaxAdded

(* The product is read and checked once; the row will carry this price.    *)
(* The stock is compared with this request's quantity only.                *)
BeginAdd(t, p, q) ==
    /\ At(t, "idle")
    /\ RoomToAdd
    /\ products[p].status = "active"
    /\ products[p].stock >= Wanted(q)
    /\ req' = [req EXCEPT ![t] = [IdleReq EXCEPT
                   !.pc = "cart", !.product = p, !.qty = Wanted(q),
                   !.price = products[p].price]]
    /\ UNCHANGED <<products, carts, rows, late, orders, queue, faults>>

(* FindOrCreateCart: a SELECT, then an INSERT that the unique index on     *)
(* user_id refuses when another request was faster.                        *)
FindCart(t) ==
    /\ At(t, "cart")
    /\ GoTo(t, IF carts[TabUser[t]] THEN "item" ELSE "mkcart")
    /\ UNCHANGED <<products, carts, rows, late, orders, queue, faults>>

MakeCart(t) ==
    /\ At(t, "mkcart")
    /\ IF carts[TabUser[t]]
       THEN Answer(t) /\ UNCHANGED carts
       ELSE GoTo(t, "item") /\ carts' = [carts EXCEPT ![TabUser[t]] = TRUE]
    /\ UNCHANGED <<products, rows, late, orders, queue, faults>>

InCart_SamePrice(t, r) ==             \* a variant: the price counts too
    /\ r \in CartRows(TabUser[t])
    /\ rows[r].product = req[t].product
    /\ rows[r].price = req[t].price

(* FindCartItem takes the row of this product with the least id.           *)
InCart(t, r) ==
    /\ r \in CartRows(TabUser[t])
    /\ rows[r].product = req[t].product
    /\ \A k \in CartRows(TabUser[t]) : rows[k].product = req[t].product => r <= k

FoundItem(t, r) ==
    /\ InCart(t, r)
    /\ req' = [req EXCEPT ![t].pc = "update", ![t].row = r,
                          ![t].had = rows[r].qty]
    /\ NoFault

(* Any error of the SELECT, not only "record not found", means no row. *)
NoItem(t) ==
    /\ \/ (\A r \in RowIds : ~ InCart(t, r)) /\ NoFault
       \/ Fault("dbread")
    /\ GoTo(t, "insert")

FindItem(t) ==
    /\ At(t, "item")
    /\ (\E r \in RowIds : FoundItem(t, r)) \/ NoItem(t)
    /\ UNCHANGED <<products, carts, rows, late, orders, queue>>

AddItem(t, r) ==
    /\ NextRow(r)
    /\ rows' = [rows EXCEPT ![r] =
                   [state |-> "live", user |-> TabUser[t],
                    product |-> req[t].product, qty |-> req[t].qty,
                    price |-> req[t].price, added |-> req[t].qty]]
    /\ Touch(TabUser[t], r)

InsertItem(t) ==
    /\ At(t, "insert")
    /\ \/ (\E r \in RowIds : AddItem(t, r)) /\ NoFault
       \/ Fault("dbwrite") /\ \/ UNCHANGED <<rows, late>>
                              \/ \E r \in RowIds : AddItem(t, r)
    /\ Answer(t)
    /\ UNCHANGED <<products, carts, orders, queue>>

NewQty_Twice(t) == req[t].had + 2 * req[t].qty    \* a variant

(* The quantity written is the one read by FindItem plus the request's.    *)
NewQty(t) == req[t].had + req[t].qty

(* UPDATE ... WHERE id = row: nothing happens, without an error, when the  *)
(* row is gone by now.                                                     *)
UpdateItemQuantity(t, r) ==
    IF rows[r].state = "live"
    THEN /\ rows' = [rows EXCEPT ![r].qty = NewQty(t),
                                 ![r].added = @ + req[t].qty]
         /\ Touch(TabUser[t], r)
    ELSE UNCHANGED <<rows, late>>

UpdateItem(t) ==
    /\ At(t, "update")
    /\ \/ UpdateItemQuantity(t, req[t].row) /\ NoFault
       \/ Fault("dbwrite") /\ \/ UNCHANGED <<rows, late>>
                              \/ UpdateItemQuantity(t, req[t].row)
    /\ Answer(t)
    /\ UNCHANGED <<products, carts, orders, queue>>

(***************************************************************************)
(* RemoveFromCart: find or create the cart, then one DELETE.  A cart never *)
(* goes away, so the two calls cannot be told from one.                    *)
(***************************************************************************)
RemoveFromCart(t, r) ==
    /\ At(t, "idle")
    /\ carts' = [carts EXCEPT ![TabUser[t]] = TRUE]
    /\ rows' = IF r \in CartRows(TabUser[t])
               THEN [rows EXCEPT ![r].state = "removed"]
               ELSE rows
    /\ UNCHANGED <<products, req, late, orders, queue, faults>>

(***************************************************************************)
(* PlaceOrder: read the cart, insert the order, clear the cart, publish.   *)
(***************************************************************************)

LineOfRow(r) == [row |-> r, product |-> rows[r].product, qty |-> rows[r].qty,
                 price |-> rows[r].price]

LinesOf_Active(u) ==                  \* a variant: archived products skipped
    {LineOfRow(r) : r \in {k \in CartRows(u) :
                              products[rows[k].product].status = "active"}}

LinesOf(u) == {LineOfRow(r) : r \in CartRows(u)}

(* Neither the product's status nor its stock is looked at again. *)
ReadCart(t) ==
    /\ At(t, "idle")
    /\ carts[TabUser[t]]
    /\ CartRows(TabUser[t]) # {}
    /\ req' = [req EXCEPT ![t] = [IdleReq EXCEPT
                   !.pc = "create", !.lines = LinesOf(TabUser[t])]]
    /\ UNCHANGED <<products, carts, rows, late, orders, queue, faults>>

(* An INSERT that reports an error may have been committed all the same;   *)
(* the request ends there, and the cart keeps its rows.                    *)
PlaceCreate(t) ==
    /\ At(t, "create")
    /\ \E o \in OrderIds :
        /\ NextOrder(o)
        /\ \/ /\ CreateOrder(o, TabUser[t], Cents(req[t].lines), req[t].lines)
              /\ req' = [req EXCEPT ![t].pc = "clear", ![t].order = o]
              /\ NoFault
           \/ /\ \/ UNCHANGED orders
                 \/ CreateOrder(o, TabUser[t], Cents(req[t].lines), req[t].lines)
              /\ Answer(t)
              /\ Fault("dbwrite")
    /\ UNCHANGED <<products, carts, rows, late, queue>>

ClearCart_Nothing(u) == rows' = rows  \* a variant: the cart is kept

(* DELETE FROM cart_items WHERE cart_id = ...: every row the cart has now. *)
ClearCart(u) ==
    rows' = [r \in RowIds |-> IF r \in CartRows(u)
                              THEN [rows[r] EXCEPT !.state = "cleared"]
                              ELSE rows[r]]

(* A failure is logged, and the request goes on. *)
PlaceClear(t) ==
    /\ At(t, "clear")
    /\ \/ ClearCart(TabUser[t]) /\ NoFault
       \/ Fault("dbwrite") /\ (UNCHANGED rows \/ ClearCart(TabUser[t]))
    /\ IF SqsEnabled THEN GoTo(t, "publish") ELSE Answer(t)
    /\ UNCHANGED <<products, carts, late, orders, queue>>

PlacePublish_Retry(t) ==              \* a variant: publish until it succeeds
    /\ At(t, "publish")
    /\ PublishOrderEvent("ORDER_PLACED", req[t].order)
    /\ IF faults' = faults THEN Answer(t) ELSE UNCHANGED req
    /\ UNCHANGED <<products, carts, rows, late, orders>>

(* A failure is logged, and the customer has the order all the same. *)
PlacePublish(t) ==
    /\ At(t, "publish")
    /\ PublishOrderEvent("ORDER_PLACED", req[t].order)
    /\ Answer(t)
    /\ UNCHANGED <<products, carts, rows, late, orders>>

CheckoutInit ==
    /\ CatalogInit
    /\ carts = [u \in Users |-> FALSE]
    /\ rows = [r \in RowIds |-> UnusedRow]
    /\ req = [t \in Tabs |-> IdleReq]
    /\ late = {}

Shop(t) ==
    \/ \E p \in Products, q \in Quantities : BeginAdd(t, p, q)
    \/ FindCart(t) \/ MakeCart(t) \/ FindItem(t) \/ InsertItem(t) \/ UpdateItem(t)
    \/ \E r \in RowIds : RemoveFromCart(t, r)

Place(t) == ReadCart(t) \/ PlaceCreate(t) \/ PlaceClear(t) \/ PlacePublish(t)

Sell ==
    /\ CatalogStep
    /\ UNCHANGED <<carts, rows, req, late, orders, queue, faults>>

(* The API process dies: every request in it is gone. *)
DropRequests == req' = [t \in Tabs |-> IdleReq]

CheckoutStep == (\E t \in Tabs : Shop(t) \/ Place(t)) \/ Sell

(***************************************************************************)
(* Properties                                                              *)
(***************************************************************************)
OrderLine == [row : RowIds, product : Products, qty : Nat, price : Nat]
CartRow == [state : {"unused", "live", "removed", "cleared"},
            user : Users \cup {"none"}, product : Products \cup {"none"},
            qty : Nat, price : Nat, added : Nat]
Request == [pc : {"idle", "cart", "mkcart", "item", "insert", "update",
                  "create", "clear", "publish"},
            product : Products \cup {"none"}, qty : Nat, price : Nat,
            row : RowIds \cup {0}, had : Nat, lines : SUBSET OrderLine,
            order : OrderIds \cup {0}]

CheckoutTypeOK ==
    /\ CatalogTypeOK
    /\ carts \in [Users -> BOOLEAN]
    /\ rows \in [RowIds -> CartRow]
    /\ req \in [Tabs -> Request]
    /\ late \in SUBSET RowIds

LineOf(o, r) == {line \in orders[o].items : line.row = r}
OrderedAs(r, q) == \E o \in OrderIds : \E line \in LineOf(o, r) : line.qty = q

(* However two tabs of a user interleave their AddToCart, RemoveFromCart    *)
(* and PlaceOrder requests, an order bills its user only for rows of that   *)
(* user, and for no more of a product than was asked for.                   *)
BilledForAdded ==
    \A o \in OrderIds : \A line \in orders[o].items :
        /\ rows[line.row].user = orders[o].user
        /\ rows[line.row].product = line.product
        /\ line.qty <= rows[line.row].added

(* ClearCart deletes by cart, not by what PlaceOrder read.  What it deletes *)
(* was ordered, in the quantity it had, except for rows another tab wrote   *)
(* between PlaceOrder's read and its clear.                                 *)
LostOnlyIfLate ==
    \A r \in RowIds :
        (rows[r].state = "cleared" /\ r \notin late) => OrderedAs(r, rows[r].qty)

(* With one tab per user and no failing write, nothing in a cart is ordered *)
(* twice.                                                                   *)
RowOrderedOnce ==
    \A r \in RowIds, o, p \in OrderIds :
        (LineOf(o, r) # {} /\ LineOf(p, r) # {}) => o = p

(* With one tab per user and no failing read, a product has one row in a    *)
(* cart, though no unique index says so.                                    *)
OneRowPerProduct ==
    \A u \in Users : \A r, k \in CartRows(u) :
        rows[r].product = rows[k].product => r = k

(* Each order is announced to the workers at most once by PlaceOrder.       *)
PlacedEventOnce ==
    \A m, k \in MsgIds, o \in OrderIds :
        (IsEvent(m, "ORDER_PLACED", o) /\ IsEvent(k, "ORDER_PLACED", o)) => m = k
=============================================================================
