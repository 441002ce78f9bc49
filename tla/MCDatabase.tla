----------------------------- MODULE MCDatabase -----------------------------
(***************************************************************************)
(* What internal/database does, for TLC: the ten migrations, the tables    *)
(* each one refers to, and the seed.  A seed reads and writes rows and a   *)
(* migration tables, of which a shop that is seeded has all: each of the   *)
(* two is explored with the other at rest.                                 *)
(***************************************************************************)
EXTENDS Migrator, Seed, TLC

VARIABLE part         \* the one that is explored

schemaVars == <<schema, recorded, run, crossed>>
rowVars == <<table, seeder, seeded, raced>>

SchemaReferences ==
    [v \in 1 .. MaxVersion |->
        CASE v \in {2, 3, 7, 9} -> {1}     \* tokens, addresses, carts, orders: users
          [] v = 4 -> {4}                  \* categories: categories
          [] v = 5 -> {1, 4}               \* products: users, categories
          [] v = 6 -> {5}                  \* product_images: products
          [] v = 8 -> {5, 7}               \* cart_items: products, carts
          [] v = 10 -> {5, 9}              \* order_items: products, orders
          [] OTHER -> {}]

PartsInit ==
    /\ part \in {"migrations", "seed"}
    /\ Init /\ SeedInit

PartsNext ==
    \/ part = "migrations" /\ Next /\ UNCHANGED <<part, rowVars>>
    \/ part = "seed" /\ SeedNext /\ UNCHANGED <<part, schemaVars>>

PartsSpec == PartsInit /\ [][PartsNext]_<<vars, rowVars, part>>

(* Runners are alike, and so are seeds. *)
AnyProcess == Permutations(Runners) \cup Permutations(Seeders)
=============================================================================
