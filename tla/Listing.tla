------------------------------- MODULE Listing -------------------------------
(***************************************************************************)
(* GET /products: the listing of the active products, page by page, while  *)
(* sellers add products and archive them.  Count and Find are two          *)
(* statements, Find has no ORDER BY, and the page size that the repository *)
(* uses need not be the one that the handler reports.                      *)
(***************************************************************************)
EXTENDS Integers, Sequences, FiniteSets

CONSTANTS
    IntWidth,     \* bits of a Go int, 64 on every build of the server
    Sizes,        \* how many products there are at first
    Limits,       \* the limits clients ask for
    Jumps,        \* pages they ask for out of the blue
    MaxWrites     \* bound: writes of sellers during one walk

MaxInt == 2 ^ (IntWidth - 1) - 1

(* What the constants are: ints have bits, limits and page numbers are     *)
(* ints, a table has some rows at first.                                   *)
ListingConstants ==
    /\ IntWidth \in Nat \ {0}
    /\ Sizes \subseteq Nat /\ MaxWrites \in Nat
    /\ Limits \subseteq Int /\ Jumps \subseteq Int

(* The number of products fits an int, as the COUNT that is scanned does.  *)
SizesFit == \A n \in Sizes : n + MaxWrites <= MaxInt

ASSUME ListingAssumption == ListingConstants /\ SizesFit

(* An int as it wraps around. *)
Wrapped(n) == ((n + MaxInt + 1) % (2 * MaxInt + 2)) - MaxInt - 1

(***************************************************************************)
(* One request                                                             *)
(***************************************************************************)
DefaultLimit == 20
MaxLimit == 100

FirstPage(page) == IF page <= 0 THEN 1 ELSE page

(* The page size of the repository; a limit that is too large counts as    *)
(* none.                                                                   *)
Limit(limit) == IF limit <= 0 \/ limit > MaxLimit THEN DefaultLimit ELSE limit

(* The page size the handler reports. *)
MetaLimit(limit) == IF limit <= 0 THEN DefaultLimit ELSE limit

Offset_Page(page, limit) == Wrapped(page * limit)     \* a variant

Offset(page, limit) == Wrapped((page - 1) * limit)

(* LIMIT and OFFSET; an offset below zero is left out of the statement.    *)
Slice(rows, limit, offset) ==
    LET from == IF offset > 0 THEN offset ELSE 0
    IN  SubSeq(rows, from + 1, IF from + limit < Len(rows) THEN from + limit ELSE Len(rows))

Pages_Floor(total, limit) == IF total < limit THEN 1 ELSE total \div limit   \* a variant

(* The number of pages reported: total over limit, rounded up, at least 1. *)
Pages(total, limit) == IF total = 0 THEN 1 ELSE (total + limit - 1) \div limit

(***************************************************************************)
(* A client that turns the pages, and the sellers                          *)
(***************************************************************************)
VARIABLES
    rows,         \* the active products, in the order the table holds them
    holes,        \* has a row been rewritten, so that its old place is free
    next,         \* the next product
    writes,       \* writes of sellers so far
    walk,         \* the client
    shown,        \* the products it has been shown
    twice,        \* history: one of them more than once
    disturbed     \* history: a row left its place, or squeezed in, since it began

listingVars == <<rows, holes, next, writes, walk, shown, twice, disturbed>>
tableVars == <<rows, holes, next, writes>>

InRows == {rows[i] : i \in 1 .. Len(rows)}

(* start is what was listed when the client asked for the first page; pages *)
(* is what the last answer said.                                           *)
Walk == [pc : {"idle", "count", "find", "done"}, limit : Limits \cup {0}, page : Nat,
         total : Nat, pages : Nat, start : SUBSET Nat]
Idle == [pc |-> "idle", limit |-> 0, page |-> 0, total |-> 0, pages |-> 0, start |-> {}]

Begin(limit) ==
    /\ walk.pc \in {"idle", "done"}
    /\ walk' = [Idle EXCEPT !.pc = "count", !.limit = limit, !.start = InRows]
    /\ shown' = {} /\ twice' = FALSE /\ disturbed' = FALSE
    /\ UNCHANGED tableVars

Count ==
    /\ walk.pc = "count"
    /\ walk' = [walk EXCEPT !.pc = "find", !.total = Len(rows)]
    /\ UNCHANGED <<tableVars, shown, twice, disturbed>>

Found == Slice(rows, Limit(walk.limit), Offset(FirstPage(walk.page), Limit(walk.limit)))
MetaPages == Pages(walk.total, MetaLimit(walk.limit))

(* The rows of the page, and the answer with the page count.  The client   *)
(* goes on until it has seen the last page.                                *)
Find ==
    LET products == {Found[i] : i \in 1 .. Len(Found)} IN
    /\ walk.pc = "find"
    /\ shown' = shown \cup products
    /\ twice' = (twice \/ shown \cap products # {})
    /\ walk' = [walk EXCEPT !.pages = MetaPages,
                    !.page = FirstPage(@) + 1,
                    !.pc = IF FirstPage(walk.page) >= MetaPages THEN "done" ELSE "count"]
    /\ UNCHANGED <<tableVars, disturbed>>

Writes == writes < MaxWrites /\ writes' = writes + 1 /\ UNCHANGED <<walk, shown, twice>>

(* A new row goes to the end of the table, or where an older one was. *)
AddProduct ==
    /\ Writes
    /\ \E i \in 0 .. Len(rows) :
          /\ holes \/ i = Len(rows)
          /\ rows' = SubSeq(rows, 1, i) \o <<next>> \o SubSeq(rows, i + 1, Len(rows))
          /\ disturbed' = (disturbed \/ i < Len(rows))
    /\ next' = next + 1
    /\ UNCHANGED holes

Without(i) == SubSeq(rows, 1, i - 1) \o SubSeq(rows, i + 1, Len(rows))

(* An update writes the row anew: it is no longer listed, or it is listed  *)
(* at the end.                                                             *)
Rewrite(i) ==
    /\ Writes
    /\ rows' = Without(i) \/ rows' = Append(Without(i), rows[i])
    /\ holes' = TRUE /\ disturbed' = TRUE
    /\ UNCHANGED next

ListingInit ==
    /\ \E n \in Sizes : rows = [i \in 1 .. n |-> i] /\ next = n + 1
    /\ holes = FALSE
    /\ writes = 0
    /\ walk = Idle
    /\ shown = {} /\ twice = FALSE /\ disturbed = FALSE

ListingNext ==
    \/ \E limit \in Limits : Begin(limit)
    \/ Count \/ Find
    \/ AddProduct
    \/ \E i \in 1 .. Len(rows) : Rewrite(i)

ListingSpec == ListingInit /\ [][ListingNext]_listingVars

(***************************************************************************)
(* Properties                                                              *)
(***************************************************************************)

(* Whoever asks for page after page, with a limit the repository accepts,   *)
(* sees every product that was listed when it began, and none twice, though *)
(* each page is counted and read anew and products are added meanwhile; only *)
(* a row that is written in the middle of the table disturbs this.          *)
WalkShowsEachOnce ==
    (walk.pc = "done" /\ walk.limit <= MaxLimit /\ ~ disturbed) =>
        walk.start \subseteq shown /\ ~ twice

(* A page beyond the last is empty, whatever number is asked for, unless    *)
(* its offset exceeds an int.                                               *)
PastTheEndIsEmpty ==
    \A page \in Jumps, limit \in Limits :
        (page > Pages(Len(rows), Limit(limit)) /\ page - 1 <= MaxInt \div Limit(limit)) =>
            Slice(rows, Limit(limit), Offset(FirstPage(page), Limit(limit))) = <<>>

(* A page that is not the last one holds as many products as the answer     *)
(* says: the limit is the "Results per page"                                *)
(* (src/internal/api/rest/handlers/productHandler.go:25).                   *)
PagesHoldLimit ==
    [][(walk.pc = "find" /\ walk'.pc = "count" /\ ~ disturbed) =>
          Len(Found) = MetaLimit(walk.limit)]_listingVars
=============================================================================
