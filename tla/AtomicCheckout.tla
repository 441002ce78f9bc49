--------------------------- MODULE AtomicCheckout ---------------------------
(***************************************************************************)
(* What a cart promises to a customer who does one thing at a time: what   *)
(* is put into it is there until it is taken out or ordered, no quantity   *)
(* that was asked for is lost, and placing an order moves all there is, as *)
(* it is, from the cart into the order, in one step.                       *)
(***************************************************************************)
EXTENDS Integers

CONSTANTS People, Ids, Amounts

VARIABLES
    cart,     \* person -> the lines in the cart
    bought    \* order -> whose it is, and its lines

cartVars == <<cart, bought>>

NotPlaced == [by |-> "none", lines |-> {}]

Init ==
    /\ cart = [u \in People |-> {}]
    /\ bought = [o \in Ids |-> NotPlaced]

(* A line of its own, which is in no cart and no order. *)
Put(u) ==
    /\ \E line \in cart'[u] :
          /\ line.qty \in Amounts
          /\ \A v \in People : \A other \in cart[v] : other.row # line.row
          /\ \A o \in Ids : \A other \in bought[o].lines : other.row # line.row
          /\ cart' = [cart EXCEPT ![u] = cart[u] \cup {line}]
    /\ UNCHANGED bought

(* More of what is there. *)
Increase(u) ==
    /\ \E line \in cart[u], q \in Amounts :
          cart' = [cart EXCEPT ![u] =
                      (cart[u] \ {line}) \cup {[line EXCEPT !.qty = line.qty + q]}]
    /\ UNCHANGED bought

TakeOut(u) ==
    /\ \E line \in cart[u] : cart' = [cart EXCEPT ![u] = cart[u] \ {line}]
    /\ UNCHANGED bought

Buy(u, o) ==
    /\ cart[u] # {}
    /\ bought[o] = NotPlaced
    /\ bought' = [bought EXCEPT ![o] = [by |-> u, lines |-> cart[u]]]
    /\ cart' = [cart EXCEPT ![u] = {}]

Next == \E u \in People :
    Put(u) \/ Increase(u) \/ TakeOut(u) \/ \E o \in Ids : Buy(u, o)

Spec == Init /\ [][Next]_cartVars
=============================================================================
