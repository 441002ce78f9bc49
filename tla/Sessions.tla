------------------------------ MODULE Sessions ------------------------------
(***************************************************************************)
(* Registration, and the sessions a person has: a refresh token is issued  *)
(* at sign-up and login, replaced at each refresh, and revoked at logout.  *)
(***************************************************************************)
EXTENDS Accounts

VARIABLES
    tokens,       \* refresh_tokens: id -> row
    ended,        \* history: tokens that a logout, or the detection of a
                  \* reuse, meant to end
    raced         \* history: tokens that two refreshes found live at once

sessionVars == <<tokens, ended, raced>>

(* parent and session are history: the token this one replaces, 0 after a  *)
(* login, and the one the login gave out.  role is the claim of the access *)
(* token in the same pair; held, that the pair reached the client.  late   *)
(* is history: the parent had been ended when this one was issued;         *)
(* overtaken, that this happened during the refresh.                       *)
Token == [state : {"unused", "live", "expired", "revoked"}, email : Emails \cup {"none"},
          parent : TokenIds \cup {0}, session : TokenIds \cup {0}, role : Roles,
          held : BOOLEAN, late : BOOLEAN, overtaken : BOOLEAN]
NoToken == [state |-> "unused", email |-> "none", parent |-> 0, session |-> 0,
            role |-> "none", held |-> FALSE, late |-> FALSE, overtaken |-> FALSE]

SessionsTypeOK ==
    /\ tokens \in [TokenIds -> Token]
    /\ ended \in SUBSET TokenIds
    /\ raced \in SUBSET TokenIds

NextToken(t) ==
    /\ t \in TokenIds
    /\ tokens[t].state = "unused"
    /\ \A k \in TokenIds : k < t => tokens[k].state # "unused"

TokensOf(e) == {t \in TokenIds : tokens[t].state # "unused" /\ tokens[t].email = e}

(* Refreshes that have found token t live and not stored its successor.    *)
Renewing(c, t) == call[c].token = t /\ call[c].pc \in {"revoke", "load", "issue"}

(***************************************************************************)
(* SignUp and Login                                                        *)
(***************************************************************************)

(* Any error of the lookup counts as "no such user". *)
SignUp(c, e) ==
    /\ In(c, "idle")
    /\ \/ ~ Registered(e) /\ NoFault
       \/ Fault("dbread")
    /\ Enter(c, "create", e)
    /\ UNCHANGED <<users, sessionVars>>

InsertUser(e) == users' = [users EXCEPT ![e].type = "buyer"]

(* The unique index on the email refuses a second row. *)
CreateUser(c) ==
    LET e == call[c].email IN
    /\ In(c, "create")
    /\ \/ /\ ~ Registered(e)
          /\ InsertUser(e)
          /\ call' = [call EXCEPT ![c].pc = "issue", ![c].role = "buyer"]
          /\ NoFault
       \/ /\ Registered(e)
          /\ Reply(c)
          /\ UNCHANGED users
          /\ NoFault
       \/ /\ \/ UNCHANGED users
             \/ ~ Registered(e) /\ InsertUser(e)
          /\ Reply(c)
          /\ Fault("dbwrite")
    /\ UNCHANGED sessionVars

Login(c, e) ==
    /\ In(c, "idle")
    /\ Registered(e)
    /\ call' = [call EXCEPT ![c] = [IdleCall EXCEPT
                   !.pc = "issue", !.email = e, !.role = users[e].type]]
    /\ UNCHANGED <<users, sessionVars, faults>>

(***************************************************************************)
(* issueTokenPair, the end of every request that answers with a pair       *)
(***************************************************************************)
StoreToken(c, t, held) ==
    tokens' = [tokens EXCEPT ![t] =
        [state |-> "live", email |-> call[c].email, parent |-> call[c].token,
         session |-> IF call[c].token = 0 THEN t ELSE tokens[call[c].token].session,
         role |-> call[c].role, held |-> held,
         late |-> call[c].token \in ended, overtaken |-> call[c].overtaken]]

(* A row whose INSERT reported an error may be there, for a token nobody   *)
(* was told.                                                               *)
Issue(c) ==
    /\ In(c, "issue")
    /\ \E t \in TokenIds :
        /\ NextToken(t)
        /\ \/ StoreToken(c, t, TRUE) /\ NoFault
           \/ (UNCHANGED tokens \/ StoreToken(c, t, FALSE)) /\ Fault("dbwrite")
    /\ Reply(c)
    /\ UNCHANGED <<users, ended, raced>>

(***************************************************************************)
(* Refresh                                                                 *)
(***************************************************************************)
Reused_Lenient(t) ==                  \* a variant: with a grace for retries
    /\ tokens[t].state = "revoked"
    /\ \A k \in TokenIds : tokens[k].parent = t => tokens[k].state = "revoked"

(* The row found for the presented token has been revoked. *)
Reused(t) == tokens[t].state = "revoked"

(* A revoked token ends all sessions, expired or not; an expired one is    *)
(* just refused.                                                           *)
Refresh(c, t) ==
    /\ In(c, "idle")
    /\ tokens[t].held
    /\ Reused(t) \/ tokens[t].state # "expired"
    /\ call' = [call EXCEPT ![c] = [IdleCall EXCEPT
                   !.pc = IF Reused(t) THEN "endall" ELSE "revoke",
                   !.email = tokens[t].email, !.token = t]]
    /\ raced' = IF ~ Reused(t) /\ \E d \in Calls : Renewing(d, t) /\ In(d, "revoke")
                THEN raced \cup {t} ELSE raced
    /\ UNCHANGED <<users, tokens, ended, faults>>

RevokeToken(t) == tokens' = [tokens EXCEPT ![t].state = "revoked"]

RevokeFails_GoesOn(c) == GoOn(c, "load")   \* a variant: the error is ignored

(* The request ends without a new pair. *)
RevokeFails(c) == Reply(c)

(* UPDATE ... WHERE id: whoever else may have revoked it by now. *)
Revoke(c) ==
    /\ In(c, "revoke")
    /\ \/ RevokeToken(call[c].token) /\ GoOn(c, "load") /\ NoFault
       \/ /\ UNCHANGED tokens \/ RevokeToken(call[c].token)
          /\ RevokeFails(c)
          /\ Fault("dbwrite")
    /\ UNCHANGED <<users, ended, raced>>

LoadUser(c) ==
    /\ In(c, "load")
    /\ \/ /\ call' = [call EXCEPT ![c].pc = "issue",
                                  ![c].role = users[call[c].email].type]
          /\ NoFault
       \/ Reply(c) /\ Fault("dbread")
    /\ UNCHANGED <<users, sessionVars>>

(***************************************************************************)
(* Logout, LogoutAll, and the reuse of a revoked token                     *)
(***************************************************************************)

(* These tokens are meant to end, and with them the refreshes under way.   *)
End(T) == ended' = ended \cup T
Overtake(T) ==
    [c \in Calls |-> IF \E t \in T : Renewing(c, t)
                     THEN [call[c] EXCEPT !.overtaken = TRUE] ELSE call[c]]

(* Find the token, then revoke it: rows never go away, so that the two     *)
(* statements cannot be told from one.                                     *)
Logout(c, t) ==
    /\ In(c, "idle")
    /\ tokens[t].held
    /\ RevokeToken(t)
    /\ End({t})
    /\ call' = Overtake({t})
    /\ UNCHANGED <<users, raced, faults>>

RevokeAllForUser_Revoked(e) ==        \* a variant: IS NOT NULL for IS NULL
    tokens' = [t \in TokenIds |-> IF t \in TokensOf(e) /\ tokens[t].state = "revoked"
                                  THEN [tokens[t] EXCEPT !.state = "revoked"]
                                  ELSE tokens[t]]

(* Every token of the user that is not revoked yet. *)
RevokeAllForUser(e) ==
    tokens' = [t \in TokenIds |-> IF t \in TokensOf(e) /\ tokens[t].state # "revoked"
                                  THEN [tokens[t] EXCEPT !.state = "revoked"]
                                  ELSE tokens[t]]

LogoutAll(c, e) ==
    /\ In(c, "idle")
    /\ Registered(e)
    /\ RevokeAllForUser(e)
    /\ End(TokensOf(e))
    /\ call' = Overtake(TokensOf(e))
    /\ UNCHANGED <<users, raced, faults>>

(* A failure of the statement is not even looked at. *)
EndAll(c) ==
    LET e == call[c].email IN
    /\ In(c, "endall")
    /\ \/ /\ RevokeAllForUser(e)
          /\ End(TokensOf(e))
          /\ call' = [Overtake(TokensOf(e)) EXCEPT ![c] = IdleCall]
          /\ NoFault
       \/ /\ UNCHANGED tokens \/ RevokeAllForUser(e)
          /\ UNCHANGED ended
          /\ Reply(c)
          /\ Fault("dbwrite")
    /\ UNCHANGED <<users, raced>>

(* Seven days have passed.  revoked_at is looked at before expires_at, so  *)
(* that the expiry of a revoked token makes no difference.                 *)
Expire(t) ==
    /\ tokens[t].state = "live"
    /\ tokens' = [tokens EXCEPT ![t].state = "expired"]
    /\ UNCHANGED <<users, call, ended, raced, faults>>

SessionsInit ==
    /\ tokens = [t \in TokenIds |-> NoToken]
    /\ ended = {}
    /\ raced = {}

SessionStep ==
    \/ \E c \in Calls, e \in Emails : SignUp(c, e) \/ Login(c, e) \/ LogoutAll(c, e)
    \/ \E c \in Calls, t \in TokenIds : Refresh(c, t) \/ Logout(c, t)
    \/ \E c \in Calls : CreateUser(c) \/ Issue(c) \/ Revoke(c) \/ LoadUser(c) \/ EndAll(c)
    \/ \E t \in TokenIds : Expire(t)

(***************************************************************************)
(* Properties                                                              *)
(***************************************************************************)

(* A token that has been replaced is revoked, whichever statement of        *)
(* Refresh failed.  Two refreshes of one token may both replace it.         *)
ReplacedIsRevoked ==
    \A t \in TokenIds : tokens[t].parent # 0 => tokens[tokens[t].parent].state = "revoked"

Unrevoked(t) == tokens[t].state \in {"live", "expired"}
Torn(s) == \E r \in raced : tokens[r].session = s

(* Of all the tokens a login has led to, through any number of refreshes,   *)
(* at most one is not revoked, unless two refreshes of one of them found it *)
(* live at once: then the session goes on twice.                            *)
OneLiveUnlessRaced ==
    \A t, k \in TokenIds :
        (t # k /\ Unrevoked(t) /\ Unrevoked(k) /\ tokens[t].session = tokens[k].session) =>
            Torn(tokens[t].session)

(* A refresh token buys one new pair, unless two refreshes found it live    *)
(* before either revoked it.                                                *)
SpentOnceUnlessRaced ==
    \A t, k \in TokenIds :
        (t # k /\ tokens[t].parent # 0 /\ tokens[t].parent = tokens[k].parent) =>
            tokens[t].parent \in raced

(* Logout, LogoutAll and the detection of a reuse end a session for good:   *)
(* no pair is issued for a token they ended, except by a refresh that had   *)
(* found it live before.                                                    *)
EndedUnlessOvertaken ==
    \A t \in TokenIds : tokens[t].late => tokens[t].overtaken
=============================================================================
