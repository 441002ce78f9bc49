------------------------------ MODULE Accounts ------------------------------
(***************************************************************************)
(* The users table and the requests of the account routes.  Several        *)
(* requests for one person may run at once; each statement of a request    *)
(* commits on its own, and is a step of its own.  A step that ends a       *)
(* request with an error and changes nothing is left out.                  *)
(***************************************************************************)
EXTENDS Faults

CONSTANTS
    Emails,       \* the people who may register; an email is unique
    Calls,        \* concurrent requests to the account routes
    MaxTokens,    \* bound: refresh tokens ever issued
    MaxCodes      \* bound: verification codes ever generated

ASSUME AccountsAssumption ==
    /\ "none" \notin Emails
    /\ MaxTokens \in Nat
    /\ MaxCodes \in Nat

VARIABLES
    users,        \* email -> row of the users table
    call          \* the account requests

TokenIds == 1 .. MaxTokens
Codes == 1 .. MaxCodes
Roles == {"none", "buyer", "seller"}

(* type is "none" until somebody registers with the email; code is the     *)
(* verification code last saved, 0 for none, and lapsed tells that its     *)
(* half hour is over.                                                      *)
UserRow == [type : Roles, verified : BOOLEAN, code : Codes \cup {0}, lapsed : BOOLEAN]
NoUser == [type |-> "none", verified |-> FALSE, code |-> 0, lapsed |-> FALSE]

Registered(e) == users[e].type # "none"

(* A request and its local variables: the refresh token it presented, the  *)
(* role of the user it loaded, the code it generated or was given.         *)
(* overtaken is history: the session it is renewing was ended meanwhile.   *)
CallRec == [pc : {"idle", "create", "revoke", "load", "issue", "endall",
                  "sms", "mail", "save", "verify", "promote"},
            email : Emails \cup {"none"}, token : TokenIds \cup {0},
            role : Roles, code : Codes \cup {0}, overtaken : BOOLEAN]
IdleCall == [pc |-> "idle", email |-> "none", token |-> 0, role |-> "none",
             code |-> 0, overtaken |-> FALSE]

In(c, pc) == call[c].pc = pc
Enter(c, pc, e) == call' = [call EXCEPT ![c] = [IdleCall EXCEPT !.pc = pc, !.email = e]]
GoOn(c, pc) == call' = [call EXCEPT ![c].pc = pc]
Reply(c) == call' = [call EXCEPT ![c] = IdleCall]

AccountsTypeOK ==
    /\ users \in [Emails -> UserRow]
    /\ call \in [Calls -> CallRec]

AccountsInit ==
    /\ users = [e \in Emails |-> NoUser]
    /\ call = [c \in Calls |-> IdleCall]
=============================================================================
