----------------------------- MODULE Membership -----------------------------
(***************************************************************************)
(* How a registered person becomes a verified one, and a seller: the       *)
(* verification code, Verify and BecomeSeller, next to the sessions whose  *)
(* access tokens carry the role.                                           *)
(***************************************************************************)
EXTENDS Sessions

VARIABLES
    nextCode,     \* the next verification code
    delivered,    \* history: email -> codes that were sent to the person
    proof         \* history: email -> the code that verified it, 0 for none

memberVars == <<nextCode, delivered, proof>>
vars == <<users, call, sessionVars, memberVars, faults>>

MembershipTypeOK ==
    /\ nextCode \in 1 .. MaxCodes + 1
    /\ delivered \in [Emails -> SUBSET Codes]
    /\ proof \in [Emails -> Codes \cup {0}]

(***************************************************************************)
(* GetVerificationCode: generate, send by SMS or else by mail, save.  A    *)
(* code is a fresh number; that two random codes coincide is left out.     *)
(***************************************************************************)
GetVerificationCode(c, e) ==
    /\ In(c, "idle")
    /\ Registered(e) /\ ~ users[e].verified
    /\ nextCode \in Codes
    /\ nextCode' = nextCode + 1
    /\ call' = [call EXCEPT ![c] = [IdleCall EXCEPT
                   !.pc = "sms", !.email = e, !.code = nextCode]]
    /\ UNCHANGED <<users, sessionVars, delivered, proof, faults>>

Deliver(c) == delivered' = [delivered EXCEPT ![call[c].email] = @ \cup {call[c].code}]

(* A message may arrive although its sending reported an error. *)
SendSMS(c) ==
    /\ In(c, "sms")
    /\ \/ Deliver(c) /\ GoOn(c, "save") /\ NoFault
       \/ (UNCHANGED delivered \/ Deliver(c)) /\ GoOn(c, "mail") /\ Fault("sms")
    /\ UNCHANGED <<users, sessionVars, nextCode, proof>>

MailFails_Saves(c) == GoOn(c, "save")      \* a variant: saved all the same

(* Neither way worked: the code is not saved. *)
MailFails(c) == Reply(c)

SendMail(c) ==
    /\ In(c, "mail")
    /\ \/ Deliver(c) /\ GoOn(c, "save") /\ NoFault
       \/ (UNCHANGED delivered \/ Deliver(c)) /\ MailFails(c) /\ Fault("email")
    /\ UNCHANGED <<users, sessionVars, nextCode, proof>>

(* Code and expiry are written; the other columns keep their values. *)
WriteCode(c) == users' = [users EXCEPT ![call[c].email].code = call[c].code,
                                       ![call[c].email].lapsed = FALSE]

SaveCode(c) ==
    /\ In(c, "save")
    /\ \/ WriteCode(c) /\ NoFault
       \/ (UNCHANGED users \/ WriteCode(c)) /\ Fault("dbwrite")
    /\ Reply(c)
    /\ UNCHANGED <<sessionVars, memberVars>>

(* Half an hour has passed since the code was saved. *)
CodeLapses(e) ==
    /\ users[e].code # 0 /\ ~ users[e].lapsed
    /\ users' = [users EXCEPT ![e].lapsed = TRUE]
    /\ UNCHANGED <<call, sessionVars, memberVars, faults>>

(***************************************************************************)
(* Verify and BecomeSeller                                                 *)
(***************************************************************************)

(* The code given is the one saved, and in time. *)
Verify(c, e, code) ==
    /\ In(c, "idle")
    /\ Registered(e) /\ ~ users[e].verified
    /\ users[e].code = code
    /\ ~ users[e].lapsed
    /\ call' = [call EXCEPT ![c] = [IdleCall EXCEPT
                   !.pc = "verify", !.email = e, !.code = code]]
    /\ UNCHANGED <<users, sessionVars, memberVars, faults>>

WriteVerified(c) ==
    /\ users' = [users EXCEPT ![call[c].email].verified = TRUE]
    /\ proof' = [proof EXCEPT ![call[c].email] = call[c].code]

SetVerified(c) ==
    /\ In(c, "verify")
    /\ \/ WriteVerified(c) /\ NoFault
       \/ (UNCHANGED <<users, proof>> \/ WriteVerified(c)) /\ Fault("dbwrite")
    /\ Reply(c)
    /\ UNCHANGED <<sessionVars, nextCode, delivered>>

MayBecomeSeller(e) == users[e].type = "buyer" /\ users[e].verified

BecomeSeller(c, e) ==
    /\ In(c, "idle")
    /\ MayBecomeSeller(e)
    /\ Enter(c, "promote", e)
    /\ UNCHANGED <<users, sessionVars, memberVars, faults>>

WriteSeller(c) == users' = [users EXCEPT ![call[c].email].type = "seller"]

(* The row is written and read again; the mail that follows may fail       *)
(* without consequence.  The pair has the role that was read.              *)
Promote(c) ==
    /\ In(c, "promote")
    /\ \/ /\ WriteSeller(c)
          /\ call' = [call EXCEPT ![c].pc = "issue", ![c].role = "seller"]
          /\ NoFault
       \/ /\ UNCHANGED users \/ WriteSeller(c)
          /\ Reply(c)
          /\ Fault("dbwrite")
    /\ UNCHANGED <<sessionVars, memberVars>>

MemberStep ==
    \/ \E c \in Calls, e \in Emails : GetVerificationCode(c, e) \/ BecomeSeller(c, e)
    \/ \E c \in Calls, e \in Emails, code \in Codes : Verify(c, e, code)
    \/ \E c \in Calls : SendSMS(c) \/ SendMail(c) \/ SaveCode(c) \/ SetVerified(c) \/ Promote(c)
    \/ \E e \in Emails : CodeLapses(e)

(* The API process dies, and every request with it. *)
Crash ==
    /\ Fault("crash")
    /\ call' = [c \in Calls |-> IdleCall]
    /\ UNCHANGED <<users, sessionVars, memberVars>>

Init ==
    /\ FaultsInit /\ AccountsInit /\ SessionsInit
    /\ nextCode = 1
    /\ delivered = [e \in Emails |-> {}]
    /\ proof = [e \in Emails |-> 0]

Next ==
    \/ SessionStep /\ UNCHANGED memberVars
    \/ MemberStep
    \/ Crash

Spec == Init /\ [][Next]_vars

(***************************************************************************)
(* Properties                                                              *)
(***************************************************************************)

(* Every variable has its type. *)
AccountTypesOK ==
    FaultsTypeOK /\ AccountsTypeOK /\ SessionsTypeOK /\ MembershipTypeOK

(* A pair that says "seller" belongs to a verified seller, and a person is  *)
(* verified only with a code that was sent to that person, whatever fails   *)
(* between sending it, saving it and checking it.                           *)
RolesAreEarned ==
    /\ \A t \in TokenIds : tokens[t].role = "seller" => users[tokens[t].email].type = "seller"
    /\ \A e \in Emails :
          /\ users[e].type = "seller" => users[e].verified
          /\ users[e].verified => proof[e] \in delivered[e]
=============================================================================
