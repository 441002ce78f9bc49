----------------------------- MODULE MCAccounts -----------------------------
(***************************************************************************)
(* What userService does, for TLC: the sessions and roles of Membership,   *)
(* and the address book.  The two share no row, and no request of one      *)
(* reads what the other writes, so that a behaviour of both is one of each, *)
(* shuffled.  Each is therefore explored with the other at rest.           *)
(***************************************************************************)
EXTENDS AccountInvariants, Addresses, TLC

VARIABLE part         \* the one that is explored

bookVars == <<addresses, form, contested, chosen>>
accountVars == <<users, call, sessionVars, memberVars>>

PartsInit ==
    /\ part \in {"accounts", "addresses"}
    /\ Init /\ AddressesInit

PartsNext ==
    \/ part = "accounts" /\ Next /\ UNCHANGED <<part, bookVars>>
    \/ part = "addresses" /\ AddressesNext /\ UNCHANGED <<part, accountVars>>

PartsSpec == PartsInit /\ [][PartsNext]_<<vars, bookVars, part>>

(* Requests are alike, and so are the people with an address book. *)
AnyRequest == Permutations(Calls) \cup Permutations(Forms) \cup Permutations(People)
=============================================================================
