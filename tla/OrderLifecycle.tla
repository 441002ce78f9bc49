--------------------------- MODULE OrderLifecycle ---------------------------
(***************************************************************************)
(* What the shop promises about an order, without carts, links, webhooks,  *)
(* queues or workers: it is placed with a bill that never changes again;   *)
(* its customer settles the bill; then, and in this order, it is paid,     *)
(* confirmed, and its customer told so.  Nothing is ever taken back.       *)
(***************************************************************************)
CONSTANT Ids

VARIABLES
    stage,    \* none, pending, paid or confirmed
    bill,     \* who owes how much for what
    settled,  \* the orders whose customer has transferred the bill's amount
    told      \* the orders whose customer got the "payment received" mail

lifecycleVars == <<stage, bill, settled, told>>

Init ==
    /\ stage = [o \in Ids |-> "none"]
    /\ settled = {}
    /\ told = {}

Move(o, from, to) ==
    /\ stage[o] = from
    /\ stage' = [stage EXCEPT ![o] = to]

(* The bill of o is fixed here, and no other bill changes. *)
Place(o) ==
    /\ Move(o, "none", "pending")
    /\ bill' = [bill EXCEPT ![o] = bill'[o]]
    /\ UNCHANGED <<settled, told>>

Settle(o) ==
    /\ stage[o] # "none"
    /\ settled' = settled \cup {o}
    /\ UNCHANGED <<stage, bill, told>>

Credit(o) ==
    /\ o \in settled
    /\ Move(o, "pending", "paid")
    /\ UNCHANGED <<bill, settled, told>>

Confirm(o) ==
    /\ Move(o, "paid", "confirmed")
    /\ UNCHANGED <<bill, settled, told>>

Tell(o) ==
    /\ stage[o] = "confirmed"
    /\ told' = told \cup {o}
    /\ UNCHANGED <<stage, bill, settled>>

Next == \E o \in Ids :
    Place(o) \/ Settle(o) \/ Credit(o) \/ Confirm(o) \/ Tell(o)

Spec == Init /\ [][Next]_lifecycleVars
=============================================================================
