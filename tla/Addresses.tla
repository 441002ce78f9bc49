----------------------------- MODULE Addresses ------------------------------
(***************************************************************************)
(* The address book: every address belongs to one user, and one of them    *)
(* may be the default.  A new default is set in two statements, of which   *)
(* the first clears the flag of all others; the requests of one user may   *)
(* run at once.  A step that ends a request with an error and changes      *)
(* nothing is left out.                                                    *)
(***************************************************************************)
EXTENDS Faults

CONSTANTS
    People,       \* the users who keep addresses
    Forms,        \* requests to the address routes that run at once
    MaxAddresses  \* bound: addresses ever inserted

ASSUME AddressesAssumption ==
    /\ "none" \notin People
    /\ MaxAddresses \in Nat

VARIABLES
    addresses,    \* id -> row of the addresses table
    form,         \* the address requests
    contested,    \* history: user -> was a default last written although
                  \* another one could be standing
    chosen        \* history: user -> was a default set that no request has
                  \* since taken away, or failed to replace

addressVars == <<addresses, form, contested, chosen, faults>>

AddressIds == 1 .. MaxAddresses

Address == [state : {"unused", "live", "deleted"}, user : People \cup {"none"},
            default : BOOLEAN]
NoAddress == [state |-> "unused", user |-> "none", default |-> FALSE]

(* target is 0 for AddAddress.  cleared tells whether no other default has *)
(* appeared since this request cleared them.                               *)
Form == [pc : {"idle", "unset", "write", "delete"}, user : People \cup {"none"},
         target : AddressIds \cup {0}, default : BOOLEAN, cleared : BOOLEAN]
IdleForm == [pc |-> "idle", user |-> "none", target |-> 0, default |-> FALSE,
             cleared |-> FALSE]

At(c, pc) == form[c].pc = pc
Answer(c) == form' = [form EXCEPT ![c] = IdleForm]

Submit_Clears(c, u, a, default) ==    \* a variant: the flags are always cleared
    form' = [form EXCEPT ![c] =
        [IdleForm EXCEPT !.pc = "unset", !.user = u, !.target = a, !.default = default]]

(* Only a request that sets a default clears the others first. *)
Submit(c, u, a, default) ==
    form' = [form EXCEPT ![c] =
        [IdleForm EXCEPT !.pc = IF default THEN "unset" ELSE "write",
                         !.user = u, !.target = a, !.default = default]]

Live(a) == addresses[a].state = "live"
BookOf(u) == {a \in AddressIds : Live(a) /\ addresses[a].user = u}
Defaults(u) == {a \in BookOf(u) : addresses[a].default}

NextAddress(a) ==
    /\ a \in AddressIds
    /\ addresses[a].state = "unused"
    /\ \A k \in AddressIds : k < a => addresses[k].state # "unused"

AddAddress(c, u, default) ==
    /\ At(c, "idle")
    /\ Submit(c, u, 0, default)
    /\ UNCHANGED <<addresses, contested, chosen, faults>>

MayEdit_Anyone(u, a) == Live(a)       \* a variant: the owner is not compared

(* FindByID, and the comparison with the user who asks. *)
MayEdit(u, a) == Live(a) /\ addresses[a].user = u

UpdateAddress(c, u, a, default) ==
    /\ At(c, "idle")
    /\ MayEdit(u, a)
    /\ Submit(c, u, a, default)
    /\ UNCHANGED <<addresses, contested, chosen, faults>>

DeleteAddress(c, u, a) ==
    /\ At(c, "idle")
    /\ MayEdit(u, a)
    /\ form' = [form EXCEPT ![c] =
                   [IdleForm EXCEPT !.pc = "delete", !.user = u, !.target = a]]
    /\ UNCHANGED <<addresses, contested, chosen, faults>>

ClearFlags_Adding(c) ==               \* a variant: UpdateAddress forgets it
    addresses' = [a \in AddressIds |->
        IF a \in BookOf(form[c].user) /\ addresses[a].default /\ form[c].target = 0
        THEN [addresses[a] EXCEPT !.default = FALSE] ELSE addresses[a]]

ClearFlags(c) ==
    addresses' = [a \in AddressIds |->
        IF a \in Defaults(form[c].user)
        THEN [addresses[a] EXCEPT !.default = FALSE] ELSE addresses[a]]

(* An error is not looked at: the request goes on as if it had worked. *)
UnsetDefault(c) ==
    /\ At(c, "unset")
    /\ \/ /\ ClearFlags(c)
          /\ form' = [form EXCEPT ![c].pc = "write", ![c].cleared = TRUE]
          /\ contested' = [contested EXCEPT ![form[c].user] = FALSE]
          /\ NoFault
       \/ /\ UNCHANGED addresses \/ ClearFlags(c)
          /\ form' = [form EXCEPT ![c].pc = "write"]
          /\ UNCHANGED contested
          /\ Fault("dbwrite")
    /\ UNCHANGED chosen

(* The others who are about to write a default no longer have a clear      *)
(* field, and the user may now have two.                                   *)
DefaultWritten(c) ==
    /\ form' = [d \in Forms |->
                   IF d = c THEN IdleForm
                   ELSE IF form[d].user = form[c].user
                        THEN [form[d] EXCEPT !.cleared = FALSE] ELSE form[d]]
    /\ contested' = IF form[c].cleared THEN contested
                    ELSE [contested EXCEPT ![form[c].user] = TRUE]

(* The end of AddAddress and of UpdateAddress.  A row that was deleted     *)
(* meanwhile is not written: Update does not find it, or changes no row.   *)
Write(c) ==
    IF form[c].target = 0
    THEN \E a \in AddressIds :
            /\ NextAddress(a)
            /\ addresses' = [addresses EXCEPT ![a] =
                   [state |-> "live", user |-> form[c].user, default |-> form[c].default]]
    ELSE /\ Live(form[c].target)
         /\ addresses' = [addresses EXCEPT ![form[c].target].default = form[c].default]

IsDefault(a) == a # 0 /\ Live(a) /\ addresses[a].default

Chosen(u, yes) == chosen' = [chosen EXCEPT ![u] = yes]

Save(c) ==
    /\ At(c, "write")
    /\ \/ /\ Write(c)
          /\ IF form[c].default THEN DefaultWritten(c)
                               ELSE Answer(c) /\ UNCHANGED contested
          /\ Chosen(form[c].user, form[c].default \/ (chosen[form[c].user] /\ ~ IsDefault(form[c].target)))
          /\ NoFault \/ Fault("dbwrite")
       \/ /\ Fault("dbwrite") \/ (form[c].target # 0 /\ ~ Live(form[c].target) /\ NoFault)
          /\ Answer(c)
          /\ Chosen(form[c].user, chosen[form[c].user] /\ ~ form[c].default)
          /\ UNCHANGED <<addresses, contested>>

Delete(c) ==
    /\ At(c, "delete")
    /\ addresses' = [addresses EXCEPT ![form[c].target].state = "deleted"]
    /\ Chosen(form[c].user, chosen[form[c].user] /\ ~ IsDefault(form[c].target))
    /\ Answer(c)
    /\ UNCHANGED <<contested, faults>>

(* Has a request of the user cleared the flags, and not set its own yet? *)
Replacing(u) == \E c \in Forms : At(c, "write") /\ form[c].default /\ form[c].user = u

(* The API process dies, and every request with it. *)
CrashForms ==
    /\ Fault("crash")
    /\ form' = [c \in Forms |-> IdleForm]
    /\ chosen' = [u \in People |-> chosen[u] /\ ~ Replacing(u)]
    /\ UNCHANGED <<addresses, contested>>

AddressesInit ==
    /\ FaultsInit
    /\ addresses = [a \in AddressIds |-> NoAddress]
    /\ form = [c \in Forms |-> IdleForm]
    /\ contested = [u \in People |-> FALSE]
    /\ chosen = [u \in People |-> FALSE]

AddressesNext ==
    \/ \E c \in Forms, u \in People, default \in BOOLEAN : AddAddress(c, u, default)
    \/ \E c \in Forms, u \in People, a \in AddressIds, default \in BOOLEAN :
          UpdateAddress(c, u, a, default)
    \/ \E c \in Forms, u \in People, a \in AddressIds : DeleteAddress(c, u, a)
    \/ \E c \in Forms : UnsetDefault(c) \/ Save(c) \/ Delete(c)
    \/ CrashForms

AddressesSpec == AddressesInit /\ [][AddressesNext]_addressVars

(***************************************************************************)
(* Properties                                                              *)
(***************************************************************************)

(* Every variable has its type. *)
AddressesTypeOK ==
    /\ FaultsTypeOK
    /\ addresses \in [AddressIds -> Address]
    /\ form \in [Forms -> Form]
    /\ contested \in [People -> BOOLEAN]
    /\ chosen \in [People -> BOOLEAN]

(* A user has at most one default address, unless a default was written     *)
(* after its request failed to clear the others, or after another request   *)
(* of the user set one in between; the next undisturbed request that sets a *)
(* default heals it.                                                        *)
OneDefaultUnlessContested ==
    \A u \in People : ~ contested[u] =>
        \A a, b \in Defaults(u) : a = b

(* A default that a user has set stays, or makes way for the next one, while *)
(* other requests of the user come and go: it is lost only with its row, to *)
(* an update of its row that does not set the flag, or to a request that    *)
(* cleared the flags and then could not write its own address.              *)
ChosenStands ==
    \A u \in People : chosen[u] => Defaults(u) # {} \/ Replacing(u)

(* An address changes only by a request of its owner, and is never handed   *)
(* to another user or revived.                                              *)
OwnersOnly ==
    [][\A a \in AddressIds :
          (addresses[a].state # "unused" /\ addresses'[a] # addresses[a]) =>
              /\ addresses[a].state = "live"
              /\ addresses'[a].user = addresses[a].user
              /\ \E c \in Forms : form[c].user = addresses[a].user /\ form'[c] # form[c]]_addressVars
=============================================================================
