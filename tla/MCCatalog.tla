----------------------------- MODULE MCCatalog ------------------------------
(***************************************************************************)
(* What sellers do and what visitors are shown, for TLC.  The listing has  *)
(* a table of its own, of as many rows as a page needs, and its own words  *)
(* for what sellers do to it: each of the two is explored with the other   *)
(* at rest.                                                                *)
(***************************************************************************)
EXTENDS ProductAdmin, Listing, TLC

VARIABLE part         \* the one that is explored

PartsInit ==
    /\ part \in {"admin", "listing"}
    /\ Init /\ ListingInit

PartsNext ==
    \/ part = "admin" /\ Next /\ UNCHANGED <<part, listingVars>>
    \/ part = "listing" /\ ListingNext /\ UNCHANGED <<part, vars>>

PartsSpec == PartsInit /\ [][PartsNext]_<<vars, listingVars, part>>

(* A good draft, and two that are refused: one without a price and one     *)
(* without a category.                                                     *)
SomeDrafts ==
    {[price |-> 5, stock |-> 3, category |-> 1], [price |-> 0, stock |-> 3, category |-> 1],
     [price |-> 5, stock |-> 3, category |-> 0]}

(* A price without a stock, and a new listing of an archived product with  *)
(* two numbers that are not taken.                                         *)
SomeChanges ==
    {[price |-> 7, stock |-> 0, counted |-> FALSE, status |-> ""],
     [price |-> -1, stock |-> -1, counted |-> TRUE, status |-> "active"]}

(* Requests are alike, and so are sellers. *)
AnyDesk == Permutations(Desks) \cup Permutations(Sellers)
=============================================================================
