------------------------------ MODULE Catalog ------------------------------
(***************************************************************************)
(* The products of the shop, and what their seller does to them while      *)
(* customers shop.  A product is never removed from the table: a delete    *)
(* archives it, and an update may list it again.                           *)
(***************************************************************************)
EXTENDS Integers

CONSTANTS
    Products,     \* product ids
    Statuses,     \* the status strings sellers use
    FirstListing, \* the listing every product starts with
    Edits,        \* the bodies sellers send to PUT /products/:id
    Deletions     \* the products they send DELETE /products/:id for

ASSUME CatalogAssumption ==
    /\ "none" \notin Products
    /\ {"active", "archived"} \subseteq Statuses
    /\ FirstListing \in [price : Nat \ {0}, stock : Nat, status : Statuses]
    /\ Deletions \subseteq Products
    /\ Edits \subseteq [price : Nat, stock : Int, status : Statuses \cup {""}]

VARIABLE products \* product id -> listing

Listing == [price : Nat \ {0}, stock : Nat, status : Statuses]

CatalogTypeOK == products \in [Products -> Listing]

(* The row's new columns.  An empty field keeps the old value, except that *)
(* stock has no empty value: the zero an omitted field decodes to is a     *)
(* stock of zero like any other, and only a negative one is left alone.    *)
Edited(listing, edit) ==
    [price  |-> IF edit.price > 0 THEN edit.price ELSE listing.price,
     stock  |-> IF edit.stock >= 0 THEN edit.stock ELSE listing.stock,
     status |-> IF edit.status # "" THEN edit.status ELSE listing.status]

UpdateProduct(p, edit) ==
    products' = [products EXCEPT ![p] = Edited(@, edit)]

DeleteProduct(p) ==
    products' = [products EXCEPT ![p].status = "archived"]

CatalogInit == products = [p \in Products |-> FirstListing]

CatalogStep ==
    \/ \E p \in Products, edit \in Edits : UpdateProduct(p, edit)
    \/ \E p \in Deletions : DeleteProduct(p)
=============================================================================
