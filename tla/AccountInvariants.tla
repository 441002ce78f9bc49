------------------------- MODULE AccountInvariants --------------------------
(***************************************************************************)
(* The inductive invariants behind the properties of Sessions and of       *)
(* Membership: what a request in flight already knows about the rows it    *)
(* read statements ago.                                                    *)
(***************************************************************************)
EXTENDS Membership

(* A refresh about to revoke holds a stored token; sign-up and promotion   *)
(* hold none.                                                              *)
RevokersKnown ==
    /\ \A c \in Calls : call[c].pc = "revoke" =>
          call[c].token # 0 /\ tokens[call[c].token].state # "unused"
    /\ \A c \in Calls : call[c].pc \in {"create", "promote"} => call[c].token = 0

(* Requests and tokens belong to people; only a stored token was handed    *)
(* out, and what is sent is a code.                                        *)
PeopleKnown ==
    /\ \A c \in Calls : call[c].pc # "idle" => call[c].email \in Emails
    /\ \A c \in Calls : call[c].pc \in {"sms", "mail"} => call[c].code # 0
    /\ \A t \in TokenIds : tokens[t].state # "unused" => tokens[t].email \in Emails
    /\ \A t \in TokenIds : tokens[t].held => tokens[t].state # "unused"
    /\ RevokersKnown

AccountTyped == AccountTypesOK /\ PeopleKnown

(* A refresh past its revocation has revoked the token it presented. *)
RotationInv ==
    /\ ReplacedIsRevoked
    /\ \A c \in Calls :
          (call[c].pc \in {"load", "issue"} /\ call[c].token # 0) =>
              tokens[call[c].token].state = "revoked"

(* The refreshes under way for a token, and the pairs it bought, are one   *)
(* together, unless there was a race.                                      *)
SpentInv ==
    /\ SpentOnceUnlessRaced
    /\ \A t \in TokenIds, c, d \in Calls :
          (c # d /\ Renewing(c, t) /\ Renewing(d, t)) => t \in raced
    /\ \A t, k \in TokenIds, c \in Calls :
          (Renewing(c, t) /\ tokens[k].parent = t) => t \in raced

(* Whoever renews a token holds the only one of its session that may still *)
(* be good, and is alone with it, unless there was a race.  A session is   *)
(* named after a token that was stored.                                    *)
SessionInv ==
    /\ OneLiveUnlessRaced
    /\ \A t, k \in TokenIds, c \in Calls :
          (Renewing(c, t) /\ k # t /\ Unrevoked(k) /\ tokens[k].session = tokens[t].session) =>
              Torn(tokens[t].session)
    /\ \A t, k \in TokenIds, c, d \in Calls :
          (c # d /\ Renewing(c, t) /\ Renewing(d, k) /\ tokens[k].session = tokens[t].session) =>
              Torn(tokens[t].session)
    /\ \A t \in TokenIds : tokens[t].state # "unused" =>
          tokens[t].session \in TokenIds /\ tokens[tokens[t].session].state # "unused"
    /\ \A r \in raced : tokens[r].state # "unused"

(* What was ended is revoked, and a refresh of it under way was overtaken. *)
EndedInv ==
    /\ EndedUnlessOvertaken
    /\ \A t \in ended : tokens[t].state = "revoked"
    /\ \A t \in ended, c \in Calls : Renewing(c, t) => call[c].overtaken

(* A code that is saved, about to be saved or about to verify was sent.    *)
EarnedInv ==
    /\ RolesAreEarned
    /\ \A t \in TokenIds : tokens[t].role = "seller" => tokens[t].email \in Emails
    /\ \A e \in Emails : users[e].code # 0 => users[e].code \in delivered[e]
    /\ \A c \in Calls :
          /\ call[c].pc \in {"save", "verify"} => call[c].code \in delivered[call[c].email]
          /\ call[c].pc = "promote" => users[call[c].email].verified
          /\ (call[c].pc = "issue" /\ call[c].role = "seller") =>
                 users[call[c].email].type = "seller"
=============================================================================
