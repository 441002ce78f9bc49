--------------------------- MODULE AccountProofs ----------------------------
(***************************************************************************)
(* The accounts of the shop -- Sessions and Membership, and the address    *)
(* book -- for any number of people, concurrent requests, tokens, codes,   *)
(* addresses, crashes and failures.  First the types, one step per action, *)
(* and what a step can do to a token and to a refresh under way; then the  *)
(* properties of sessions, of roles and of addresses, each with its        *)
(* inductive invariant.                                                    *)
(***************************************************************************)
EXTENDS AccountInvariants, Addresses, TLAPS

(***************************************************************************)
(* Types                                                                   *)
(***************************************************************************)

(* A step with or without a failure keeps the count of failures in range. *)
LEMMA FaultTyped ==
    ASSUME FaultsTypeOK, NEW k, Fault(k) \/ NoFault
    PROVE  FaultsTypeOK'
BY FaultsAssumption DEF FaultsTypeOK, Fault, NoFault

(* The record of a client between requests is one of the request records. *)
LEMMA IdleTyped == IdleCall \in CallRec
BY DEF IdleCall, CallRec, Roles

(* The requests table and its owners after one request advanced, or all    *)
(* were overtaken.                                                         *)
CallsOK ==
    /\ call \in [Calls -> CallRec]
    /\ \A c \in Calls : call[c].pc # "idle" => call[c].email \in Emails
    /\ \A c \in Calls : call[c].pc \in {"sms", "mail"} => call[c].code # 0

LEMMA OneCall ==
    ASSUME CallsOK, NEW c \in Calls, NEW rec \in CallRec,
           rec.pc # "idle" => rec.email \in Emails,
           rec.pc \in {"sms", "mail"} => rec.code # 0,
           call' = [call EXCEPT ![c] = rec]
    PROVE  CallsOK'
<1>1. call' \in [Calls -> CallRec] BY DEF CallsOK
<1>2. \A d \in Calls : call'[d] = IF d = c THEN rec ELSE call[d] BY DEF CallsOK
<1>3. QED BY <1>1, <1>2 DEF CallsOK

LEMMA ToIssue ==
    ASSUME CallsOK, NEW c \in Calls, call[c].email \in Emails, NEW r \in Roles,
           call' = [call EXCEPT ![c].pc = "issue", ![c].role = r]
    PROVE  CallsOK'
<1> DEFINE rec == [call[c] EXCEPT !.pc = "issue", !.role = r]
<1>1. call \in [Calls -> CallRec] BY DEF CallsOK
<1>2. rec \in CallRec /\ rec.pc = "issue" /\ rec.email = call[c].email
  BY <1>1 DEF CallRec
<1>3. call' = [call EXCEPT ![c] = rec] BY <1>1
<1>4. QED BY <1>2, <1>3, OneCall

LEMMA OvertakeTyped ==
    ASSUME CallsOK, NEW T \in SUBSET TokenIds
    PROVE  Overtake(T) \in [Calls -> CallRec]
BY DEF CallsOK, Overtake, CallRec

LEMMA OvertakeNext ==
    ASSUME CallsOK, NEW T \in SUBSET TokenIds, NEW d \in Calls, call'[d] = Overtake(T)[d]
    PROVE  /\ call'[d].pc = call[d].pc
           /\ call'[d].email = call[d].email
           /\ call'[d].token = call[d].token
           /\ call'[d].role = call[d].role
           /\ call'[d].code = call[d].code
           /\ call[d].overtaken => call'[d].overtaken
           /\ \A t \in T : Renewing(d, t) => call'[d].overtaken
BY DEF CallsOK, Overtake, CallRec

LEMMA CallSteps ==
    ASSUME CallsOK
    PROVE  /\ \A c \in Calls : Reply(c) => CallsOK'
           /\ \A c \in Calls, pc \in {"load", "save", "mail"} :
                 (call[c].pc # "idle" /\ GoOn(c, pc) /\ (pc = "mail" => In(c, "sms")))
                     => CallsOK'
           /\ \A c \in Calls, e \in Emails, pc \in {"create", "promote"} :
                 Enter(c, pc, e) => CallsOK'
           /\ \A T \in SUBSET TokenIds : call' = Overtake(T) => CallsOK'
           /\ \A c \in Calls, T \in SUBSET TokenIds :
                 call' = [Overtake(T) EXCEPT ![c] = IdleCall] => CallsOK'
<1>1. ASSUME NEW c \in Calls, Reply(c)
      PROVE  CallsOK'
  BY <1>1, IdleTyped DEF CallsOK, Reply, IdleCall
<1>2. ASSUME NEW c \in Calls, NEW pc \in {"load", "save", "mail"},
             call[c].pc # "idle", GoOn(c, pc), pc = "mail" => In(c, "sms")
      PROVE  CallsOK'
  BY <1>2 DEF CallsOK, GoOn, CallRec, In
<1>3. ASSUME NEW c \in Calls, NEW e \in Emails, NEW pc \in {"create", "promote"},
             Enter(c, pc, e)
      PROVE  CallsOK'
  <2> DEFINE rec == [IdleCall EXCEPT !.pc = pc, !.email = e]
  <2>1. rec \in CallRec BY IdleTyped DEF CallRec
  <2>2. rec.pc = pc /\ rec.email = e BY DEF IdleCall
  <2>3. call' = [call EXCEPT ![c] = rec] BY <1>3 DEF Enter
  <2>4. QED BY <2>1, <2>2, <2>3, OneCall
<1>4. ASSUME NEW T \in SUBSET TokenIds, call' = Overtake(T)
      PROVE  CallsOK'
  <2>1. call' \in [Calls -> CallRec] BY <1>4, OvertakeTyped
  <2>2. \A d \in Calls : /\ call'[d].pc = call[d].pc
                         /\ call'[d].email = call[d].email
                         /\ call'[d].code = call[d].code
    BY <1>4, OvertakeNext
  <2>3. QED BY <2>1, <2>2 DEF CallsOK
<1>5. ASSUME NEW c \in Calls, NEW T \in SUBSET TokenIds,
             call' = [Overtake(T) EXCEPT ![c] = IdleCall]
      PROVE  CallsOK'
  <2>1. Overtake(T) \in [Calls -> CallRec] BY OvertakeTyped
  <2>2. call' \in [Calls -> CallRec] BY <1>5, <2>1, IdleTyped
  <2>3. call'[c].pc = "idle" BY <1>5, <2>1 DEF IdleCall
  <2>4. ASSUME NEW d \in Calls, d # c
        PROVE  /\ call'[d].pc = call[d].pc
               /\ call'[d].email = call[d].email
               /\ call'[d].code = call[d].code
    BY <1>5, <2>1, <2>4, OvertakeNext
  <2>5. QED BY <2>2, <2>3, <2>4 DEF CallsOK
<1>6. QED BY <1>1, <1>2, <1>3, <1>4, <1>5

(* The statements on refresh_tokens keep the table's type, its unused rows *)
(* and its owners.                                                         *)
TokensKept ==
    /\ tokens' \in [TokenIds -> Token]
    /\ \A t \in TokenIds :
          /\ tokens[t].state = "unused" <=> tokens'[t].state = "unused"
          /\ tokens[t].state = "revoked" => tokens'[t].state = "revoked"
          /\ tokens'[t].email = tokens[t].email
          /\ tokens'[t].parent = tokens[t].parent
          /\ tokens'[t].session = tokens[t].session
          /\ tokens'[t].role = tokens[t].role
          /\ tokens'[t].held = tokens[t].held
          /\ tokens'[t].late = tokens[t].late
          /\ tokens'[t].overtaken = tokens[t].overtaken

LEMMA TokenStatements ==
    ASSUME tokens \in [TokenIds -> Token]
    PROVE  /\ UNCHANGED tokens => TokensKept
           /\ \A t \in TokenIds :
                 (tokens[t].state # "unused" /\ RevokeToken(t)) => TokensKept
           /\ \A e \in Emails : RevokeAllForUser(e) => TokensKept
           /\ \A t \in TokenIds : Expire(t) => TokensKept
<1>1. UNCHANGED tokens => TokensKept
  BY DEF TokensKept
<1>2. ASSUME NEW t \in TokenIds, tokens[t].state # "unused", RevokeToken(t)
      PROVE  TokensKept
  BY <1>2 DEF TokensKept, RevokeToken, Token
<1>3. ASSUME NEW e \in Emails, RevokeAllForUser(e)
      PROVE  TokensKept
  BY <1>3 DEF TokensKept, RevokeAllForUser, TokensOf, Token
<1>4. ASSUME NEW t \in TokenIds, Expire(t)
      PROVE  TokensKept
  BY <1>4 DEF TokensKept, Expire, Token
<1>5. QED BY <1>1, <1>2, <1>3, <1>4

(* Types and owners stay good in every step of Sessions. *)
UsersOK == users \in [Emails -> UserRow]

LEMMA AddUser ==
    ASSUME UsersOK, NEW e \in Emails, InsertUser(e)
    PROVE  UsersOK'
BY DEF UsersOK, InsertUser, UserRow, Roles

StoreOK ==
    /\ SessionsTypeOK
    /\ \A t \in TokenIds : tokens[t].state # "unused" => tokens[t].email \in Emails
    /\ \A t \in TokenIds : tokens[t].held => tokens[t].state # "unused"

LEMMA StoreKept ==
    ASSUME StoreOK, TokensKept, ended' \in SUBSET TokenIds, raced' \in SUBSET TokenIds
    PROVE  StoreOK'
BY DEF StoreOK, SessionsTypeOK, TokensKept

LEMMA TypedParts ==
    AccountTyped <=> /\ FaultsTypeOK /\ UsersOK /\ CallsOK /\ StoreOK
                     /\ MembershipTypeOK /\ RevokersKnown
BY DEF AccountTyped, AccountTypesOK, AccountsTypeOK, UsersOK, CallsOK, StoreOK, PeopleKnown

LEMMA SessionTyped ==
    ASSUME AccountTyped, SessionStep
    PROVE  FaultsTypeOK' /\ UsersOK' /\ CallsOK' /\ StoreOK'
<1>1. FaultsTypeOK /\ UsersOK /\ CallsOK /\ StoreOK /\ RevokersKnown BY TypedParts
<1>2. ended \in SUBSET TokenIds /\ raced \in SUBSET TokenIds
      /\ tokens \in [TokenIds -> Token]
  BY <1>1 DEF StoreOK, SessionsTypeOK
<1>3. UNCHANGED sessionVars => StoreOK'
  BY <1>1 DEF StoreOK, SessionsTypeOK, sessionVars
<1>4. UNCHANGED users => UsersOK' BY <1>1 DEF UsersOK
<1>5. \A e \in Emails : TokensOf(e) \in SUBSET TokenIds BY DEF TokensOf
<1>6. ASSUME NEW c \in Calls, NEW e \in Emails, SignUp(c, e)
      PROVE  FaultsTypeOK' /\ UsersOK' /\ CallsOK' /\ StoreOK'
  BY <1>1, <1>3, <1>4, <1>6, FaultTyped, CallSteps DEF SignUp
<1>7. ASSUME NEW c \in Calls, NEW e \in Emails, Login(c, e)
      PROVE  FaultsTypeOK' /\ UsersOK' /\ CallsOK' /\ StoreOK'
  <2>1. [IdleCall EXCEPT !.pc = "issue", !.email = e, !.role = users[e].type] \in CallRec
    BY <1>1, IdleTyped DEF UsersOK, UserRow, CallRec
  <2>2. /\ [IdleCall EXCEPT !.pc = "issue", !.email = e, !.role = users[e].type].email = e
        /\ [IdleCall EXCEPT !.pc = "issue", !.email = e, !.role = users[e].type].pc = "issue"
    BY DEF IdleCall
  <2>3. CallsOK' BY <1>1, <1>7, <2>1, <2>2 DEF Login, CallsOK
  <2>4. FaultsTypeOK' BY <1>1, <1>7 DEF Login, FaultsTypeOK
  <2>5. QED BY <1>3, <1>4, <1>7, <2>3, <2>4 DEF Login
<1>8. ASSUME NEW c \in Calls, NEW e \in Emails, LogoutAll(c, e)
      PROVE  FaultsTypeOK' /\ UsersOK' /\ CallsOK' /\ StoreOK'
  <2>1. TokensKept BY <1>2, <1>8, TokenStatements DEF LogoutAll
  <2>2. StoreOK' BY <1>1, <1>2, <1>5, <1>8, <2>1, StoreKept DEF LogoutAll, End
  <2>3. CallsOK' BY <1>1, <1>5, <1>8, CallSteps DEF LogoutAll
  <2>4. FaultsTypeOK' BY <1>1, <1>8 DEF LogoutAll, FaultsTypeOK
  <2>5. QED BY <1>4, <1>8, <2>2, <2>3, <2>4 DEF LogoutAll
<1>9. ASSUME NEW c \in Calls, NEW t \in TokenIds, Refresh(c, t)
      PROVE  FaultsTypeOK' /\ UsersOK' /\ CallsOK' /\ StoreOK'
  <2> DEFINE pc == IF Reused(t) THEN "endall" ELSE "revoke"
             rec == [IdleCall EXCEPT !.pc = pc, !.email = tokens[t].email, !.token = t]
  <2>1. tokens[t].email \in Emails BY <1>1, <1>9 DEF Refresh, StoreOK
  <2>2. rec \in CallRec /\ rec.email = tokens[t].email /\ rec.pc \in {"endall", "revoke"}
    BY <2>1, IdleTyped DEF CallRec, IdleCall
  <2>3. CallsOK' BY <1>1, <1>9, <2>1, <2>2 DEF Refresh, CallsOK
  <2>4. raced' \in SUBSET TokenIds /\ UNCHANGED <<tokens, ended>>
    BY <1>2, <1>9 DEF Refresh
  <2>5. StoreOK' BY <1>1, <2>4 DEF StoreOK, SessionsTypeOK
  <2>6. FaultsTypeOK' BY <1>1, <1>9 DEF Refresh, FaultsTypeOK
  <2>7. QED BY <1>4, <1>9, <2>3, <2>5, <2>6 DEF Refresh
<1>10. ASSUME NEW c \in Calls, NEW t \in TokenIds, Logout(c, t)
      PROVE  FaultsTypeOK' /\ UsersOK' /\ CallsOK' /\ StoreOK'
  <2>1. tokens[t].state # "unused" BY <1>1, <1>10 DEF Logout, StoreOK
  <2>2. TokensKept BY <1>2, <1>10, <2>1, TokenStatements DEF Logout
  <2>3. StoreOK' BY <1>1, <1>2, <1>10, <2>2, StoreKept DEF Logout, End
  <2>4. CallsOK' BY <1>1, <1>10, CallSteps DEF Logout
  <2>5. FaultsTypeOK' BY <1>1, <1>10 DEF Logout, FaultsTypeOK
  <2>6. QED BY <1>4, <1>10, <2>3, <2>4, <2>5 DEF Logout
<1>11. ASSUME NEW c \in Calls, CreateUser(c)
      PROVE  FaultsTypeOK' /\ UsersOK' /\ CallsOK' /\ StoreOK'
  <2>1. call[c].email \in Emails BY <1>1, <1>11 DEF CreateUser, In, CallsOK
  <2>2. UsersOK' BY <1>4, <1>1, <1>11, <2>1, AddUser DEF CreateUser
  <2>3. FaultsTypeOK' BY <1>1, <1>11, FaultTyped DEF CreateUser
  <2>4. CASE call' = [call EXCEPT ![c].pc = "issue", ![c].role = "buyer"]
    <3>1. "buyer" \in Roles BY DEF Roles
    <3>2. CallsOK' BY <1>1, <2>1, <2>4, <3>1, ToIssue
    <3>3. QED BY <1>3, <1>11, <2>2, <2>3, <3>2 DEF CreateUser
  <2>5. CASE Reply(c)
    BY <1>1, <1>3, <1>11, <2>2, <2>3, <2>5, CallSteps DEF CreateUser
  <2>6. QED BY <1>11, <2>4, <2>5 DEF CreateUser
<1>12. ASSUME NEW c \in Calls, Issue(c)
      PROVE  FaultsTypeOK' /\ UsersOK' /\ CallsOK' /\ StoreOK'
  <2>1. call[c] \in CallRec /\ call[c].email \in Emails
    BY <1>1, <1>12 DEF Issue, In, CallsOK
  <2>2. ASSUME NEW t \in TokenIds, NEW held \in BOOLEAN, StoreToken(c, t, held)
        PROVE  StoreOK'
    <3>1. UNCHANGED <<ended, raced>> BY <1>12 DEF Issue
    <3>2. (call[c].token \in ended) \in BOOLEAN OBVIOUS
    <3> DEFINE s == IF call[c].token = 0 THEN t ELSE tokens[call[c].token].session
    <3>3. s \in TokenIds \cup {0} BY <1>2, <2>1 DEF CallRec, Token
    <3>4. QED BY <1>1, <2>1, <2>2, <3>1, <3>2, <3>3
            DEF StoreOK, SessionsTypeOK, StoreToken, Token, CallRec
  <2>3. UNCHANGED tokens => StoreOK'
    BY <1>1, <1>12 DEF Issue, StoreOK, SessionsTypeOK
  <2>4. StoreOK' BY <1>12, <2>2, <2>3 DEF Issue
  <2>5. FaultsTypeOK' BY <1>1, <1>12, FaultTyped DEF Issue
  <2>6. QED BY <1>1, <1>4, <1>12, <2>4, <2>5, CallSteps DEF Issue
<1>13. ASSUME NEW c \in Calls, Revoke(c)
      PROVE  FaultsTypeOK' /\ UsersOK' /\ CallsOK' /\ StoreOK'
  <2>1. call[c] \in CallRec BY <1>1, <1>13 DEF Revoke, CallsOK
  <2>2. call[c].token \in TokenIds /\ tokens[call[c].token].state # "unused"
    BY <1>1, <1>13, <2>1 DEF Revoke, In, RevokersKnown, CallRec, TokenIds
  <2>3. TokensKept BY <1>2, <1>13, <2>2, TokenStatements DEF Revoke
  <2>4. StoreOK' BY <1>1, <1>2, <1>13, <2>3, StoreKept DEF Revoke
  <2>5. CallsOK'
    BY <1>1, <1>13, CallSteps DEF Revoke, RevokeFails, In
  <2>6. FaultsTypeOK' BY <1>1, <1>13, FaultTyped DEF Revoke
  <2>7. QED BY <1>4, <1>13, <2>4, <2>5, <2>6 DEF Revoke
<1>14. ASSUME NEW c \in Calls, LoadUser(c)
      PROVE  FaultsTypeOK' /\ UsersOK' /\ CallsOK' /\ StoreOK'
  <2>1. call[c].email \in Emails BY <1>1, <1>14 DEF LoadUser, In, CallsOK
  <2>2. users[call[c].email].type \in Roles BY <1>1, <2>1 DEF UsersOK, UserRow
  <2>3. CASE call' = [call EXCEPT ![c].pc = "issue", ![c].role = users[call[c].email].type]
    <3>1. CallsOK' BY <1>1, <2>1, <2>2, <2>3, ToIssue
    <3>2. QED BY <1>1, <1>3, <1>4, <1>14, <3>1, FaultTyped DEF LoadUser
  <2>4. CASE Reply(c)
    BY <1>1, <1>3, <1>4, <1>14, <2>4, CallSteps, FaultTyped DEF LoadUser
  <2>5. QED BY <1>14, <2>3, <2>4 DEF LoadUser
<1>15. ASSUME NEW c \in Calls, EndAll(c)
      PROVE  FaultsTypeOK' /\ UsersOK' /\ CallsOK' /\ StoreOK'
  <2>1. call[c].email \in Emails BY <1>1, <1>15 DEF EndAll, In, CallsOK
  <2>2. TokensKept BY <1>2, <1>15, <2>1, TokenStatements DEF EndAll
  <2>3. StoreOK' BY <1>1, <1>2, <1>5, <1>15, <2>1, <2>2, StoreKept DEF EndAll, End
  <2>4. CallsOK' BY <1>1, <1>5, <1>15, <2>1, CallSteps DEF EndAll
  <2>5. FaultsTypeOK' BY <1>1, <1>15, FaultTyped DEF EndAll
  <2>6. QED BY <1>4, <1>15, <2>3, <2>4, <2>5 DEF EndAll
<1>16. ASSUME NEW t \in TokenIds, Expire(t)
      PROVE  FaultsTypeOK' /\ UsersOK' /\ CallsOK' /\ StoreOK'
  <2>1. TokensKept BY <1>2, <1>16, TokenStatements
  <2>2. StoreOK' BY <1>1, <1>2, <1>16, <2>1, StoreKept DEF Expire
  <2>3. QED BY <1>1, <1>4, <1>16, <2>2 DEF Expire, FaultsTypeOK, CallsOK
<1>17. QED
  BY <1>6, <1>7, <1>8, <1>9, <1>10, <1>11, <1>12, <1>13, <1>14, <1>15, <1>16
     DEF SessionStep

(* Types and owners stay good in every step of Membership. *)
LEMMA MemberTyped ==
    ASSUME AccountTyped, MemberStep
    PROVE  FaultsTypeOK' /\ UsersOK' /\ CallsOK' /\ StoreOK' /\ MembershipTypeOK'
<1>1. /\ FaultsTypeOK /\ UsersOK /\ CallsOK /\ StoreOK /\ MembershipTypeOK
      /\ call \in [Calls -> CallRec]
  BY TypedParts DEF CallsOK
<1>2. UNCHANGED sessionVars => StoreOK'
  BY <1>1 DEF StoreOK, SessionsTypeOK, sessionVars
<1>3. UNCHANGED users => UsersOK' BY <1>1 DEF UsersOK
<1>4. UNCHANGED memberVars => MembershipTypeOK'
  BY <1>1 DEF MembershipTypeOK, memberVars
<1>5. UNCHANGED faults => FaultsTypeOK' BY <1>1 DEF FaultsTypeOK
<1>6. \A c \in Calls : call[c].pc # "idle" =>
          call[c].email \in Emails /\ call[c].code \in Codes \cup {0}
  BY <1>1 DEF CallsOK, CallRec
<1>7. ASSUME NEW c \in Calls, NEW e \in Emails, NEW pc \in {"sms", "verify"},
             NEW code \in Codes,
             call' = [call EXCEPT ![c] = [IdleCall EXCEPT !.pc = pc, !.email = e, !.code = code]]
      PROVE  CallsOK'
  <2>1. [IdleCall EXCEPT !.pc = pc, !.email = e, !.code = code] \in CallRec
    BY IdleTyped DEF CallRec
  <2>2. /\ [IdleCall EXCEPT !.pc = pc, !.email = e, !.code = code].email = e
        /\ [IdleCall EXCEPT !.pc = pc, !.email = e, !.code = code].code # 0
    BY DEF IdleCall, Codes
  <2>3. QED BY <1>1, <1>7, <2>1, <2>2 DEF CallsOK
<1>8. ASSUME NEW c \in Calls, call[c].pc \in {"sms", "mail"}, Deliver(c)
      PROVE  delivered' \in [Emails -> SUBSET Codes]
  <2>1. call[c].email \in Emails /\ call[c].code \in Codes
    BY <1>1, <1>6, <1>8 DEF CallsOK
  <2>2. QED BY <1>1, <1>8, <2>1 DEF Deliver, MembershipTypeOK
<1>9. ASSUME NEW c \in Calls, NEW e \in Emails, GetVerificationCode(c, e)
      PROVE  FaultsTypeOK' /\ UsersOK' /\ CallsOK' /\ StoreOK' /\ MembershipTypeOK'
  <2>1. CallsOK' BY <1>7, <1>9 DEF GetVerificationCode
  <2>2. nextCode' \in 1 .. MaxCodes + 1
    BY <1>9, AccountsAssumption DEF GetVerificationCode, Codes
  <2>3. MembershipTypeOK' BY <1>1, <1>9, <2>2 DEF GetVerificationCode, MembershipTypeOK
  <2>4. QED BY <1>2, <1>3, <1>5, <1>9, <2>1, <2>3 DEF GetVerificationCode
<1>10. ASSUME NEW c \in Calls, NEW e \in Emails, BecomeSeller(c, e)
       PROVE  FaultsTypeOK' /\ UsersOK' /\ CallsOK' /\ StoreOK' /\ MembershipTypeOK'
  BY <1>1, <1>2, <1>3, <1>4, <1>5, <1>10, CallSteps DEF BecomeSeller
<1>11. ASSUME NEW c \in Calls, NEW e \in Emails, NEW code \in Codes, Verify(c, e, code)
       PROVE  FaultsTypeOK' /\ UsersOK' /\ CallsOK' /\ StoreOK' /\ MembershipTypeOK'
  BY <1>1, <1>2, <1>3, <1>4, <1>5, <1>7, <1>11 DEF Verify
<1>12. ASSUME NEW c \in Calls, SendSMS(c)
       PROVE  FaultsTypeOK' /\ UsersOK' /\ CallsOK' /\ StoreOK' /\ MembershipTypeOK'
  <2>1. delivered' \in [Emails -> SUBSET Codes]
    BY <1>1, <1>8, <1>12 DEF SendSMS, In, MembershipTypeOK
  <2>2. MembershipTypeOK' BY <1>1, <1>12, <2>1 DEF SendSMS, MembershipTypeOK
  <2>3. CallsOK' BY <1>1, <1>12, CallSteps DEF SendSMS, In
  <2>4. QED BY <1>1, <1>2, <1>3, <1>12, <2>2, <2>3, FaultTyped DEF SendSMS
<1>13. ASSUME NEW c \in Calls, SendMail(c)
       PROVE  FaultsTypeOK' /\ UsersOK' /\ CallsOK' /\ StoreOK' /\ MembershipTypeOK'
  <2>1. delivered' \in [Emails -> SUBSET Codes]
    BY <1>1, <1>8, <1>13 DEF SendMail, In, MembershipTypeOK
  <2>2. MembershipTypeOK' BY <1>1, <1>13, <2>1 DEF SendMail, MembershipTypeOK
  <2>3. CallsOK' BY <1>1, <1>13, CallSteps DEF SendMail, MailFails, In
  <2>4. QED BY <1>1, <1>2, <1>3, <1>13, <2>2, <2>3, FaultTyped DEF SendMail
<1>14. ASSUME NEW c \in Calls, SaveCode(c)
       PROVE  FaultsTypeOK' /\ UsersOK' /\ CallsOK' /\ StoreOK' /\ MembershipTypeOK'
  <2>1. call[c].email \in Emails /\ call[c].code \in Codes \cup {0}
    BY <1>6, <1>14 DEF SaveCode, In
  <2>2. WriteCode(c) => UsersOK' BY <1>1, <2>1 DEF WriteCode, UsersOK, UserRow
  <2>3. QED BY <1>1, <1>2, <1>3, <1>4, <1>14, <2>2, CallSteps, FaultTyped DEF SaveCode
<1>15. ASSUME NEW c \in Calls, SetVerified(c)
       PROVE  FaultsTypeOK' /\ UsersOK' /\ CallsOK' /\ StoreOK' /\ MembershipTypeOK'
  <2>1. call[c].email \in Emails /\ call[c].code \in Codes \cup {0}
    BY <1>6, <1>15 DEF SetVerified, In
  <2>2. WriteVerified(c) => UsersOK'
    BY <1>1, <2>1, ZenonT(40) DEF WriteVerified, UsersOK, UserRow
  <2>3. MembershipTypeOK'
    BY <1>1, <1>15, <2>1 DEF SetVerified, WriteVerified, MembershipTypeOK
  <2>4. QED BY <1>1, <1>2, <1>3, <1>15, <2>2, <2>3, CallSteps, FaultTyped DEF SetVerified
<1>16. ASSUME NEW c \in Calls, Promote(c)
       PROVE  FaultsTypeOK' /\ UsersOK' /\ CallsOK' /\ StoreOK' /\ MembershipTypeOK'
  <2>1. call[c].email \in Emails BY <1>6, <1>16 DEF Promote, In
  <2>2. "seller" \in Roles BY DEF Roles
  <2>3. WriteSeller(c) => UsersOK'
    BY <1>1, <2>1, <2>2 DEF WriteSeller, UsersOK, UserRow
  <2>4. call' = [call EXCEPT ![c].pc = "issue", ![c].role = "seller"] => CallsOK'
    BY <1>1, <2>1, <2>2, ToIssue
  <2>5. QED BY <1>1, <1>2, <1>3, <1>4, <1>16, <2>3, <2>4, CallSteps, FaultTyped DEF Promote
<1>17. ASSUME NEW e \in Emails, CodeLapses(e)
       PROVE  FaultsTypeOK' /\ UsersOK' /\ CallsOK' /\ StoreOK' /\ MembershipTypeOK'
  <2>1. UsersOK' BY <1>1, <1>17 DEF CodeLapses, UsersOK, UserRow
  <2>2. CallsOK' BY <1>1, <1>17 DEF CodeLapses, CallsOK
  <2>3. QED BY <1>2, <1>4, <1>5, <1>17, <2>1, <2>2 DEF CodeLapses
<1>18. QED
  BY <1>9, <1>10, <1>11, <1>12, <1>13, <1>14, <1>15, <1>16, <1>17 DEF MemberStep

(***************************************************************************)
(* The properties of Sessions, for any number of people, requests, tokens, *)
(* codes, crashes and failures.  Every step has one shape: what it does to *)
(* the tokens, what it does to the refreshes under way, what it ends.  The *)
(* three invariants are then preserved by the shape.                       *)
(***************************************************************************)

(***************************************************************************)
(* The shape of a step                                                     *)
(***************************************************************************)
Refreshing == {"revoke", "load", "issue"}
Starting == {"create", "promote"}

(* One request stores the pair it was working for, and is done. *)
Stored(c, t) ==
    /\ In(c, "issue") /\ tokens[t].state = "unused"
    /\ \E held \in BOOLEAN : StoreToken(c, t, held)
    /\ Reply(c)
    /\ UNCHANGED <<users, ended, raced>>

TokensStep == TokensKept \/ \E c \in Calls, t \in TokenIds : Stored(c, t)

(* The request stays where it is in its refresh, or moves on; it gets past *)
(* the revocation only with the token revoked.                             *)
Continues(c) ==
    /\ call[c].pc \in Refreshing
    /\ call'[c].token = call[c].token
    /\ call[c].overtaken => call'[c].overtaken
    /\ call'[c].pc = "revoke" => call[c].pc = "revoke"
    /\ (call'[c].pc # "revoke" /\ call[c].pc = "revoke") =>
           tokens'[call[c].token].state = "revoked"

(* The request has just found a token that is not revoked. *)
Begins(c) ==
    LET t == call'[c].token IN
    /\ call'[c].pc = "revoke"
    /\ t \in TokenIds /\ tokens[t].state \notin {"unused", "revoked"}
    /\ UNCHANGED <<tokens, ended>>
    /\ \A d \in Calls : d # c => call'[d] = call[d]
    /\ (\E d \in Calls : Renewing(d, t) /\ In(d, "revoke")) => t \in raced'

CallStep(c) ==
    /\ call'[c].pc \in Refreshing =>
           \/ Continues(c)
           \/ Begins(c)
           \/ call'[c].pc = "issue" /\ call'[c].token = 0
    /\ call'[c].pc \in Starting =>
           \/ call'[c].token = 0
           \/ call'[c].pc = call[c].pc /\ call'[c].token = call[c].token

(* What is ended is revoked, and its refreshes are overtaken; what is raced *)
(* for is there.                                                           *)
EndStep ==
    /\ ended \subseteq ended' /\ raced \subseteq raced'
    /\ \A t \in raced' \ raced : t \in TokenIds /\ tokens[t].state # "unused"
    /\ \A t \in ended' \ ended :
          /\ t \in TokenIds
          /\ tokens'[t].state = "revoked"
          /\ \A c \in Calls : (call'[c].token = t /\ call'[c].pc \in Refreshing) =>
                                  call'[c].overtaken

StepShape == TokensStep /\ (\A c \in Calls : CallStep(c)) /\ EndStep

(* One request changes; the others have then taken a CallStep. *)
LEMMA OneMoves ==
    ASSUME CallsOK, NEW c \in Calls, NEW rec, call' = [call EXCEPT ![c] = rec],
           call'[c] = rec => CallStep(c)
    PROVE  \A d \in Calls : CallStep(d)
<1>1. call'[c] = rec BY DEF CallsOK
<1>2. ASSUME NEW d \in Calls, d # c PROVE CallStep(d)
  <2>1. call'[d] = call[d] BY <1>2 DEF CallsOK
  <2>2. QED BY <2>1 DEF CallStep, Continues, Refreshing
<1>3. QED BY <1>1, <1>2

(* Nobody's refresh begins in these steps. *)
LEMMA CallShapes ==
    ASSUME CallsOK
    PROVE  /\ UNCHANGED call => \A d \in Calls : CallStep(d)
           /\ \A c \in Calls : Reply(c) => \A d \in Calls : CallStep(d)
           /\ \A c \in Calls, e \in Emails, pc \in Starting :
                 Enter(c, pc, e) => \A d \in Calls : CallStep(d)
           /\ \A c \in Calls, pc \in {"save", "mail"} :
                 GoOn(c, pc) => \A d \in Calls : CallStep(d)
           /\ \A T \in SUBSET TokenIds :
                 call' = Overtake(T) => \A d \in Calls : CallStep(d)
           /\ \A c \in Calls, T \in SUBSET TokenIds :
                 call' = [Overtake(T) EXCEPT ![c] = IdleCall] => \A d \in Calls : CallStep(d)
<1>1. ASSUME UNCHANGED call PROVE \A d \in Calls : CallStep(d)
  BY <1>1 DEF CallStep, Continues, Refreshing
<1>2. ASSUME NEW c \in Calls, Reply(c) PROVE \A d \in Calls : CallStep(d)
  <2>1. call'[c] = IdleCall => CallStep(c)
    BY DEF IdleCall, CallStep, Refreshing, Starting
  <2>2. QED BY <1>2, <2>1, OneMoves DEF Reply
<1>3. ASSUME NEW c \in Calls, NEW e \in Emails, NEW pc \in Starting, Enter(c, pc, e)
      PROVE  \A d \in Calls : CallStep(d)
  <2> DEFINE rec == [IdleCall EXCEPT !.pc = pc, !.email = e]
  <2>1. rec.pc = pc /\ rec.token = 0 BY DEF IdleCall
  <2>2. call'[c] = rec => CallStep(c) BY <2>1 DEF CallStep, Refreshing, Starting
  <2>3. call' = [call EXCEPT ![c] = rec] BY <1>3 DEF Enter
  <2>4. QED BY <2>2, <2>3, OneMoves
<1>4. ASSUME NEW c \in Calls, NEW pc \in {"save", "mail"}, GoOn(c, pc)
      PROVE  \A d \in Calls : CallStep(d)
  <2> DEFINE rec == [call[c] EXCEPT !.pc = pc]
  <2>1. rec.pc = pc BY DEF CallsOK, CallRec
  <2>2. call'[c] = rec => CallStep(c) BY <2>1 DEF CallStep, Refreshing, Starting
  <2>3. call' = [call EXCEPT ![c] = rec] BY <1>4 DEF GoOn
  <2>4. QED BY <2>2, <2>3, OneMoves
<1>5. ASSUME NEW T \in SUBSET TokenIds, NEW d \in Calls, call'[d] = Overtake(T)[d]
      PROVE  CallStep(d)
  BY <1>5, OvertakeNext DEF CallStep, Continues, Refreshing
<1>6. ASSUME NEW c \in Calls, NEW T \in SUBSET TokenIds,
             call' = [Overtake(T) EXCEPT ![c] = IdleCall]
      PROVE  \A d \in Calls : CallStep(d)
  <2>1. Overtake(T) \in [Calls -> CallRec] BY OvertakeTyped
  <2>2. call'[c] = IdleCall BY <1>6, <2>1
  <2>3. CallStep(c) BY <2>2 DEF IdleCall, CallStep, Refreshing, Starting
  <2>4. \A d \in Calls : d # c => call'[d] = Overtake(T)[d] BY <1>6, <2>1
  <2>5. QED BY <1>5, <2>3, <2>4
<1>7. QED BY <1>1, <1>2, <1>3, <1>4, <1>5, <1>6

(* Getting a role to be stored: from the row, or as a newcomer. *)
LEMMA IssueShape ==
    ASSUME CallsOK, NEW c \in Calls, NEW r \in Roles,
           call' = [call EXCEPT ![c].pc = "issue", ![c].role = r],
           call[c].pc = "load" \/ call[c].token = 0
    PROVE  \A d \in Calls : CallStep(d)
<1> DEFINE rec == [call[c] EXCEPT !.pc = "issue", !.role = r]
<1>1. /\ rec.pc = "issue" /\ rec.token = call[c].token
      /\ rec.overtaken = call[c].overtaken
  BY DEF CallsOK, CallRec
<1>2. call' = [call EXCEPT ![c] = rec] BY DEF CallsOK
<1>3. call'[c] = rec => CallStep(c)
  BY <1>1 DEF CallStep, Continues, Refreshing, Starting
<1>4. QED BY <1>2, <1>3, OneMoves

(* A step of Sessions has the shape. *)
LEMMA SessionShape ==
    ASSUME AccountTyped, SessionStep
    PROVE  StepShape
<1>1. FaultsTypeOK /\ UsersOK /\ CallsOK /\ StoreOK /\ RevokersKnown BY TypedParts
<1>2. /\ call \in [Calls -> CallRec] /\ tokens \in [TokenIds -> Token]
      /\ ended \in SUBSET TokenIds
  BY <1>1 DEF CallsOK, StoreOK, SessionsTypeOK
<1>3. UNCHANGED tokens => TokensStep BY <1>2, TokenStatements DEF TokensStep
<1>4. UNCHANGED <<ended, raced>> => EndStep BY DEF EndStep
<1>5. \A e \in Emails : TokensOf(e) \in SUBSET TokenIds BY DEF TokensOf
<1>6. ASSUME NEW c \in Calls, NEW e \in Emails, SignUp(c, e)
      PROVE  StepShape
  BY <1>1, <1>3, <1>4, <1>6, CallShapes DEF SignUp, StepShape, sessionVars, Starting
<1>7. ASSUME NEW c \in Calls, NEW e \in Emails, Login(c, e)
      PROVE  StepShape
  <2> DEFINE rec == [IdleCall EXCEPT !.pc = "issue", !.email = e, !.role = users[e].type]
  <2>1. rec.pc = "issue" /\ rec.token = 0 BY DEF IdleCall
  <2>2. call'[c] = rec => CallStep(c) BY <2>1 DEF CallStep, Refreshing, Starting
  <2>3. call' = [call EXCEPT ![c] = rec] BY <1>7 DEF Login
  <2>4. \A d \in Calls : CallStep(d) BY <1>1, <2>2, <2>3, OneMoves
  <2>5. QED BY <1>3, <1>4, <1>7, <2>4 DEF Login, StepShape, sessionVars
<1>8. ASSUME NEW e \in Emails, RevokeAllForUser(e), End(TokensOf(e)), UNCHANGED raced,
             \A d \in Calls : call'[d] = Overtake(TokensOf(e))[d] \/ call'[d] = IdleCall
      PROVE  EndStep
  <2>1. ASSUME NEW t \in TokensOf(e) PROVE t \in TokenIds /\ tokens'[t].state = "revoked"
    BY <1>2, <1>8, <2>1 DEF RevokeAllForUser, TokensOf, Token
  <2>2. ASSUME NEW t \in TokensOf(e), NEW d \in Calls,
               call'[d].token = t, call'[d].pc \in Refreshing
        PROVE  call'[d].overtaken
    <3>1. call'[d] = Overtake(TokensOf(e))[d]
      BY <1>8, <2>2 DEF IdleCall, Refreshing
    <3>2. Renewing(d, t)
      BY <1>1, <1>5, <2>2, <3>1, OvertakeNext DEF Renewing, Refreshing
    <3>3. QED BY <1>1, <1>5, <3>1, <3>2, OvertakeNext
  <2>3. QED BY <1>8, <2>1, <2>2 DEF EndStep, End
<1>9. ASSUME NEW c \in Calls, NEW e \in Emails, LogoutAll(c, e)
      PROVE  StepShape
  <2>1. TokensStep BY <1>2, <1>9, TokenStatements DEF LogoutAll, TokensStep
  <2>2. \A d \in Calls : CallStep(d) BY <1>1, <1>5, <1>9, CallShapes DEF LogoutAll
  <2>3. EndStep BY <1>8, <1>9 DEF LogoutAll
  <2>4. QED BY <2>1, <2>2, <2>3 DEF StepShape
<1>10. ASSUME NEW c \in Calls, NEW t \in TokenIds, Refresh(c, t)
       PROVE  StepShape
  <2> DEFINE pc == IF Reused(t) THEN "endall" ELSE "revoke"
             rec == [IdleCall EXCEPT !.pc = pc, !.email = tokens[t].email, !.token = t]
  <2>1. rec.pc = pc /\ rec.token = t BY DEF IdleCall
  <2>2. call' = [call EXCEPT ![c] = rec] BY <1>10 DEF Refresh
  <2>3. call'[c] = rec /\ \A d \in Calls : d # c => call'[d] = call[d] BY <1>2, <2>2
  <2>4. tokens[t].state # "unused" BY <1>1, <1>10 DEF Refresh, StoreOK
  <2>5. CASE Reused(t)
    <3>1. CallStep(c) BY <2>1, <2>3, <2>5 DEF CallStep, Refreshing, Starting
    <3>2. \A d \in Calls : CallStep(d) BY <1>1, <2>2, <3>1, OneMoves
    <3>3. UNCHANGED <<tokens, ended>> /\ raced' = raced BY <1>10, <2>5 DEF Refresh
    <3>4. QED BY <1>3, <1>4, <3>2, <3>3 DEF StepShape
  <2>6. CASE ~ Reused(t)
    <3>1. UNCHANGED <<tokens, ended>> BY <1>10 DEF Refresh
    <3>2. /\ raced \subseteq raced' /\ raced' \subseteq raced \cup {t}
          /\ (\E d \in Calls : Renewing(d, t) /\ In(d, "revoke")) => t \in raced'
      BY <1>10, <2>6 DEF Refresh
    <3>3. call'[c].pc = "revoke" /\ call'[c].token = t BY <2>1, <2>3, <2>6
    <3>4. Begins(c) BY <2>3, <2>4, <2>6, <3>1, <3>2, <3>3 DEF Begins, Reused
    <3>5. CallStep(c) BY <3>3, <3>4 DEF CallStep, Starting
    <3>6. \A d \in Calls : CallStep(d) BY <1>1, <2>2, <3>5, OneMoves
    <3>7. EndStep BY <2>4, <3>1, <3>2 DEF EndStep
    <3>8. QED BY <1>3, <3>1, <3>6, <3>7 DEF StepShape
  <2>7. QED BY <2>5, <2>6
<1>11. ASSUME NEW c \in Calls, NEW t \in TokenIds, Logout(c, t)
       PROVE  StepShape
  <2>1. tokens[t].state # "unused" BY <1>1, <1>11 DEF Logout, StoreOK
  <2>2. TokensStep BY <1>2, <1>11, <2>1, TokenStatements DEF Logout, TokensStep
  <2>3. call' = Overtake({t}) /\ {t} \in SUBSET TokenIds BY <1>11 DEF Logout
  <2>4. \A d \in Calls : CallStep(d) BY <1>1, <2>3, CallShapes
  <2>5. tokens'[t].state = "revoked" BY <1>2, <1>11 DEF Logout, RevokeToken, Token
  <2>6. ASSUME NEW d \in Calls, call'[d].token = t, call'[d].pc \in Refreshing
        PROVE  call'[d].overtaken
    <3>1. call'[d] = Overtake({t})[d] BY <2>3
    <3>2. Renewing(d, t) BY <1>1, <2>3, <2>6, <3>1, OvertakeNext DEF Renewing, Refreshing
    <3>3. QED BY <1>1, <2>3, <3>1, <3>2, OvertakeNext
  <2>7. EndStep BY <1>11, <2>5, <2>6 DEF EndStep, Logout, End
  <2>8. QED BY <2>2, <2>4, <2>7 DEF StepShape
<1>12. ASSUME NEW c \in Calls, CreateUser(c)
       PROVE  StepShape
  <2>1. UNCHANGED <<tokens, ended, raced>> BY <1>12 DEF CreateUser, sessionVars
  <2>2. "buyer" \in Roles BY DEF Roles
  <2>3. call[c].token = 0 BY <1>1, <1>12 DEF CreateUser, In, RevokersKnown
  <2>4. \A d \in Calls : CallStep(d)
    BY <1>1, <1>12, <2>2, <2>3, IssueShape, CallShapes DEF CreateUser
  <2>5. QED BY <1>3, <1>4, <2>1, <2>4 DEF StepShape
<1>13. ASSUME NEW c \in Calls, Issue(c)
       PROVE  StepShape
  <2>1. \A d \in Calls : CallStep(d) BY <1>1, <1>13, CallShapes DEF Issue
  <2>2. EndStep BY <1>4, <1>13 DEF Issue
  <2>3. UNCHANGED tokens \/ \E t \in TokenIds : Stored(c, t)
    BY <1>13 DEF Issue, NextToken, Stored
  <2>4. QED BY <1>3, <2>1, <2>2, <2>3 DEF StepShape, TokensStep
<1>14. ASSUME NEW c \in Calls, Revoke(c)
       PROVE  StepShape
  <2>1. call[c].token \in TokenIds /\ tokens[call[c].token].state # "unused"
    BY <1>1, <1>2, <1>14 DEF Revoke, In, RevokersKnown, CallRec, TokenIds
  <2>2. TokensStep BY <1>2, <1>14, <2>1, TokenStatements DEF Revoke, TokensStep
  <2>3. EndStep BY <1>4, <1>14 DEF Revoke
  <2>4. CASE RevokeToken(call[c].token) /\ GoOn(c, "load")
    <3> DEFINE rec == [call[c] EXCEPT !.pc = "load"]
    <3>1. /\ rec.pc = "load" /\ rec.token = call[c].token
          /\ rec.overtaken = call[c].overtaken
      BY <1>2 DEF CallRec
    <3>2. tokens'[call[c].token].state = "revoked"
      BY <1>2, <2>1, <2>4 DEF RevokeToken, Token
    <3>3. call'[c] = rec => CallStep(c)
      BY <1>14, <3>1, <3>2 DEF Revoke, In, CallStep, Continues, Refreshing, Starting
    <3>4. call' = [call EXCEPT ![c] = rec] BY <2>4 DEF GoOn
    <3>5. \A d \in Calls : CallStep(d) BY <1>1, <3>3, <3>4, OneMoves
    <3>6. QED BY <2>2, <2>3, <3>5 DEF StepShape
  <2>5. CASE Reply(c)
    BY <1>1, <2>2, <2>3, <2>5, CallShapes DEF StepShape
  <2>6. QED BY <1>14, <2>4, <2>5 DEF Revoke, RevokeFails
<1>15. ASSUME NEW c \in Calls, LoadUser(c)
       PROVE  StepShape
  <2>1. UNCHANGED <<tokens, ended, raced>> BY <1>15 DEF LoadUser, sessionVars
  <2>2. call[c].email \in Emails BY <1>1, <1>15 DEF LoadUser, In, CallsOK
  <2>3. users[call[c].email].type \in Roles BY <1>1, <2>2 DEF UsersOK, UserRow
  <2>4. \A d \in Calls : CallStep(d)
    BY <1>1, <1>15, <2>3, IssueShape, CallShapes DEF LoadUser, In
  <2>5. QED BY <1>3, <1>4, <2>1, <2>4 DEF StepShape
<1>16. ASSUME NEW c \in Calls, EndAll(c)
       PROVE  StepShape
  <2> DEFINE e == call[c].email
  <2>1. e \in Emails BY <1>1, <1>16 DEF EndAll, In, CallsOK
  <2>2. TokensStep BY <1>2, <1>16, <2>1, TokenStatements DEF EndAll, TokensStep
  <2>3. CASE /\ RevokeAllForUser(e) /\ End(TokensOf(e))
             /\ call' = [Overtake(TokensOf(e)) EXCEPT ![c] = IdleCall]
    <3>1. Overtake(TokensOf(e)) \in [Calls -> CallRec]
      BY <1>1, <1>5, <2>1, OvertakeTyped
    <3>2. \A d \in Calls : call'[d] = Overtake(TokensOf(e))[d] \/ call'[d] = IdleCall
      BY <2>3, <3>1
    <3>3. EndStep BY <1>8, <1>16, <2>1, <2>3, <3>2 DEF EndAll
    <3>4. \A d \in Calls : CallStep(d) BY <1>1, <1>5, <2>1, <2>3, CallShapes
    <3>5. QED BY <2>2, <3>3, <3>4 DEF StepShape
  <2>4. CASE UNCHANGED ended /\ Reply(c)
    BY <1>1, <1>4, <1>16, <2>2, <2>4, CallShapes DEF EndAll, StepShape
  <2>5. QED BY <1>16, <2>3, <2>4 DEF EndAll
<1>17. ASSUME NEW t \in TokenIds, Expire(t)
       PROVE  StepShape
  <2>1. TokensStep BY <1>2, <1>17, TokenStatements DEF TokensStep
  <2>2. QED BY <1>1, <1>4, <1>17, <2>1, CallShapes DEF Expire, StepShape
<1>18. QED
  BY <1>6, <1>7, <1>9, <1>10, <1>11, <1>12, <1>13, <1>14, <1>15, <1>16, <1>17
     DEF SessionStep

(* So has a step of Membership, a crash, and a step of anything else.      *)
LEMMA OtherShape ==
    ASSUME AccountTyped, MemberStep \/ Crash \/ UNCHANGED vars
    PROVE  StepShape /\ TokensKept
<1>1. FaultsTypeOK /\ UsersOK /\ CallsOK /\ StoreOK /\ RevokersKnown BY TypedParts
<1>2. tokens \in [TokenIds -> Token] BY <1>1 DEF StoreOK, SessionsTypeOK
<1>3. ASSUME UNCHANGED <<tokens, ended, raced>>, \A d \in Calls : CallStep(d)
      PROVE  StepShape /\ TokensKept
  BY <1>2, <1>3, TokenStatements DEF StepShape, TokensStep, EndStep
<1>4. ASSUME NEW c \in Calls, NEW e \in Emails, GetVerificationCode(c, e)
      PROVE  StepShape /\ TokensKept
  <2> DEFINE rec == [IdleCall EXCEPT !.pc = "sms", !.email = e, !.code = nextCode]
  <2>1. rec.pc = "sms" BY DEF IdleCall
  <2>2. call' = [call EXCEPT ![c] = rec] BY <1>4 DEF GetVerificationCode
  <2>3. call'[c] = rec => CallStep(c) BY <2>1 DEF CallStep, Refreshing, Starting
  <2>4. \A d \in Calls : CallStep(d) BY <1>1, <2>2, <2>3, OneMoves
  <2>5. QED BY <1>3, <1>4, <2>4 DEF GetVerificationCode, sessionVars
<1>5. ASSUME NEW c \in Calls, NEW e \in Emails, NEW code \in Codes, Verify(c, e, code)
      PROVE  StepShape /\ TokensKept
  <2> DEFINE rec == [IdleCall EXCEPT !.pc = "verify", !.email = e, !.code = code]
  <2>1. rec.pc = "verify" BY DEF IdleCall
  <2>2. call' = [call EXCEPT ![c] = rec] BY <1>5 DEF Verify
  <2>3. call'[c] = rec => CallStep(c) BY <2>1 DEF CallStep, Refreshing, Starting
  <2>4. \A d \in Calls : CallStep(d) BY <1>1, <2>2, <2>3, OneMoves
  <2>5. QED BY <1>3, <1>5, <2>4 DEF Verify, sessionVars
<1>6. ASSUME NEW c \in Calls, NEW e \in Emails, BecomeSeller(c, e)
      PROVE  StepShape /\ TokensKept
  BY <1>1, <1>3, <1>6, CallShapes DEF BecomeSeller, sessionVars, Starting
<1>7. ASSUME NEW c \in Calls, SendSMS(c) PROVE StepShape /\ TokensKept
  BY <1>1, <1>3, <1>7, CallShapes DEF SendSMS, sessionVars
<1>8. ASSUME NEW c \in Calls, SendMail(c) PROVE StepShape /\ TokensKept
  BY <1>1, <1>3, <1>8, CallShapes DEF SendMail, MailFails, sessionVars
<1>9. ASSUME NEW c \in Calls, SaveCode(c) PROVE StepShape /\ TokensKept
  BY <1>1, <1>3, <1>9, CallShapes DEF SaveCode, sessionVars
<1>10. ASSUME NEW c \in Calls, SetVerified(c) PROVE StepShape /\ TokensKept
  BY <1>1, <1>3, <1>10, CallShapes DEF SetVerified, sessionVars
<1>11. ASSUME NEW c \in Calls, Promote(c) PROVE StepShape /\ TokensKept
  <2>1. "seller" \in Roles BY DEF Roles
  <2>2. call[c].token = 0 BY <1>1, <1>11 DEF Promote, In, RevokersKnown
  <2>3. \A d \in Calls : CallStep(d)
    BY <1>1, <1>11, <2>1, <2>2, IssueShape, CallShapes DEF Promote
  <2>4. QED BY <1>3, <1>11, <2>3 DEF Promote, sessionVars
<1>12. ASSUME NEW e \in Emails, CodeLapses(e) PROVE StepShape /\ TokensKept
  BY <1>1, <1>3, <1>12, CallShapes DEF CodeLapses, sessionVars
<1>13. ASSUME Crash PROVE StepShape /\ TokensKept
  <2>1. \A d \in Calls : CallStep(d)
    BY <1>13 DEF Crash, IdleCall, CallStep, Refreshing, Starting
  <2>2. QED BY <1>3, <1>13, <2>1 DEF Crash, sessionVars
<1>14. ASSUME UNCHANGED vars PROVE StepShape /\ TokensKept
  BY <1>1, <1>3, <1>14, CallShapes DEF vars, sessionVars
<1>15. QED
  BY <1>4, <1>5, <1>6, <1>7, <1>8, <1>9, <1>10, <1>11, <1>12, <1>13, <1>14
     DEF MemberStep

(***************************************************************************)
(* Types                                                                   *)
(***************************************************************************)

(* What the new row holds, and that no other row changes. *)
LEMMA StoredRow ==
    ASSUME AccountTyped, NEW c \in Calls, NEW t \in TokenIds, Stored(c, t)
    PROVE  /\ \A k \in TokenIds : k # t => tokens'[k] = tokens[k]
           /\ tokens'[t].state = "live"
           /\ tokens'[t].email = call[c].email
           /\ tokens'[t].role = call[c].role
           /\ tokens'[t].parent = call[c].token
           /\ tokens'[t].session =
                 IF call[c].token = 0 THEN t ELSE tokens[call[c].token].session
           /\ tokens'[t].late = (call[c].token \in ended)
           /\ tokens'[t].overtaken = call[c].overtaken
           /\ call'[c].pc = "idle"
<1>1. tokens \in [TokenIds -> Token] /\ call \in [Calls -> CallRec]
  BY TypedParts DEF StoreOK, SessionsTypeOK, CallsOK
<1>2. PICK held \in BOOLEAN : StoreToken(c, t, held) BY DEF Stored
<1>3. call'[c].pc = "idle" BY <1>1 DEF Stored, Reply, IdleCall
<1>4. QED BY <1>1, <1>2, <1>3 DEF StoreToken

(* No row becomes unused, and no revoked one anything else. *)
LEMMA RowsLast ==
    ASSUME AccountTyped, TokensStep, NEW t \in TokenIds
    PROVE  /\ tokens[t].state # "unused" => tokens'[t].state # "unused"
           /\ tokens[t].state = "revoked" => tokens'[t].state = "revoked"
<1>1. CASE TokensKept BY <1>1 DEF TokensKept
<1>2. CASE \E c \in Calls, k \in TokenIds : Stored(c, k)
  <2>1. PICK c \in Calls, k \in TokenIds : Stored(c, k) BY <1>2
  <2>2. tokens[k].state = "unused" /\ tokens'[k].state = "live" BY <2>1, StoredRow DEF Stored
  <2>3. k # t => tokens'[t] = tokens[t] BY <2>1, StoredRow
  <2>4. QED BY <2>2, <2>3
<1>3. QED BY <1>1, <1>2 DEF TokensStep

LEMMA RevokersKept ==
    ASSUME AccountTyped, StepShape
    PROVE  RevokersKnown'
<1>1. RevokersKnown /\ CallsOK BY TypedParts
<1>2. ASSUME NEW c \in Calls, call'[c].pc = "revoke"
      PROVE  call'[c].token # 0 /\ tokens'[call'[c].token].state # "unused"
  <2>1. CASE Continues(c)
    <3>1. /\ call[c].pc = "revoke" /\ call'[c].token = call[c].token
          /\ call[c].token # 0 /\ tokens[call[c].token].state # "unused"
      BY <1>1, <1>2, <2>1 DEF Continues, RevokersKnown
    <3>2. call[c].token \in TokenIds BY <1>1, <3>1 DEF CallsOK, CallRec
    <3>3. QED BY <3>1, <3>2, RowsLast DEF StepShape
  <2>2. CASE Begins(c) BY <2>2 DEF Begins, TokenIds
  <2>3. QED BY <1>2, <2>1, <2>2 DEF StepShape, CallStep, Refreshing
<1>3. ASSUME NEW c \in Calls, call'[c].pc \in {"create", "promote"}
      PROVE  call'[c].token = 0
  BY <1>1, <1>3 DEF StepShape, CallStep, Starting, RevokersKnown
<1>4. QED BY <1>2, <1>3 DEF RevokersKnown

LEMMA NextShape ==
    ASSUME AccountTyped, [Next]_vars
    PROVE  StepShape
BY SessionShape, OtherShape DEF Next

LEMMA TypedInit == Init => AccountTyped
<1> SUFFICES ASSUME Init PROVE AccountTyped OBVIOUS
<1>1. FaultsTypeOK BY FaultsAssumption DEF Init, FaultsInit, FaultsTypeOK
<1>2. UsersOK BY DEF Init, AccountsInit, UsersOK, UserRow, NoUser, Roles
<1>3. CallsOK BY IdleTyped DEF Init, AccountsInit, CallsOK, IdleCall
<1>4. NoToken \in Token BY DEF NoToken, Token, Roles
<1>5. StoreOK BY <1>4 DEF Init, SessionsInit, StoreOK, SessionsTypeOK, NoToken
<1>6. MembershipTypeOK BY AccountsAssumption DEF Init, MembershipTypeOK
<1>7. RevokersKnown BY DEF Init, AccountsInit, RevokersKnown, IdleCall
<1>8. QED BY <1>1, <1>2, <1>3, <1>5, <1>6, <1>7, TypedParts

LEMMA TypedStep ==
    ASSUME AccountTyped, [Next]_vars
    PROVE  AccountTyped'
<1>1. /\ FaultsTypeOK /\ UsersOK /\ CallsOK /\ StoreOK
      /\ MembershipTypeOK /\ RevokersKnown
  BY TypedParts
<1>2. RevokersKnown' BY NextShape, RevokersKept
<1>3. UNCHANGED memberVars => MembershipTypeOK' BY <1>1 DEF memberVars, MembershipTypeOK
<1>4. UNCHANGED sessionVars => StoreOK' BY <1>1 DEF sessionVars, StoreOK, SessionsTypeOK
<1>5. UNCHANGED users => UsersOK' BY <1>1 DEF UsersOK
<1>6. (FaultsTypeOK /\ UsersOK /\ CallsOK /\ StoreOK /\ MembershipTypeOK)'
  <2>1. CASE SessionStep /\ UNCHANGED memberVars BY <1>3, <2>1, SessionTyped
  <2>2. CASE MemberStep BY <2>2, MemberTyped
  <2>3. CASE Crash
    <3>1. FaultsTypeOK' BY <1>1, <2>3, FaultTyped DEF Crash
    <3>2. CallsOK' BY <2>3, IdleTyped DEF Crash, CallsOK, IdleCall
    <3>3. QED BY <1>3, <1>4, <1>5, <2>3, <3>1, <3>2 DEF Crash
  <2>4. CASE UNCHANGED vars
    <3>1. FaultsTypeOK' /\ CallsOK' BY <1>1, <2>4 DEF vars, FaultsTypeOK, CallsOK
    <3>2. QED BY <1>3, <1>4, <1>5, <2>4, <3>1 DEF vars
  <2>5. QED BY <2>1, <2>2, <2>3, <2>4 DEF Next
<1>7. (AccountTyped <=> /\ FaultsTypeOK /\ UsersOK /\ CallsOK /\ StoreOK
                        /\ MembershipTypeOK /\ RevokersKnown)'
  BY TypedParts, PTL
<1>8. QED BY <1>2, <1>6, <1>7

LEMMA Typed == Spec => []AccountTyped
<1>1. Init => AccountTyped BY TypedInit
<1>2. AccountTyped /\ [Next]_vars => AccountTyped' BY TypedStep
<1>3. QED BY <1>1, <1>2, PTL DEF Spec

(* In every reachable state each variable of the accounts part has its     *)
(* type, whatever requests run at once and whatever fails.                 *)
THEOREM AccountsTyped == Spec => []AccountTypesOK
<1>1. AccountTyped => AccountTypesOK BY DEF AccountTyped
<1>2. QED BY <1>1, Typed, PTL

(***************************************************************************)
(* Rotation: a token that was replaced is revoked                          *)
(***************************************************************************)
LEMMA RotationStep ==
    ASSUME AccountTyped, RotationInv, StepShape
    PROVE  RotationInv'
<1>1. /\ CallsOK /\ call \in [Calls -> CallRec]
      /\ StoreOK /\ tokens \in [TokenIds -> Token]
  BY TypedParts DEF CallsOK, StoreOK, SessionsTypeOK
<1>2. ASSUME NEW t \in TokenIds, tokens'[t].parent # 0
      PROVE  tokens'[tokens'[t].parent].state = "revoked"
  <2>1. ASSUME tokens'[t].parent = tokens[t].parent
        PROVE  tokens'[tokens'[t].parent].state = "revoked"
    <3>1. tokens[t].parent \in TokenIds BY <1>1, <1>2, <2>1 DEF Token
    <3>2. tokens[tokens[t].parent].state = "revoked"
      BY <1>2, <2>1 DEF RotationInv, ReplacedIsRevoked
    <3>3. QED BY <2>1, <3>1, <3>2, RowsLast DEF StepShape
  <2>2. CASE TokensKept BY <2>1, <2>2 DEF TokensKept
  <2>3. CASE \E c \in Calls, k \in TokenIds : Stored(c, k)
    <3>1. PICK c \in Calls, k \in TokenIds : Stored(c, k) BY <2>3
    <3>2. CASE t # k BY <2>1, <3>1, <3>2, StoredRow
    <3>3. CASE t = k
      <4>1. tokens'[t].parent = call[c].token BY <3>1, <3>3, StoredRow
      <4>2. call[c].token \in TokenIds BY <1>1, <1>2, <4>1 DEF CallRec
      <4>3. tokens[call[c].token].state = "revoked"
        BY <1>2, <3>1, <4>1 DEF Stored, In, RotationInv
      <4>4. QED BY <4>1, <4>2, <4>3, RowsLast DEF StepShape
    <3>4. QED BY <3>2, <3>3
  <2>4. QED BY <2>2, <2>3 DEF StepShape, TokensStep
<1>3. ASSUME NEW c \in Calls, call'[c].pc \in {"load", "issue"}, call'[c].token # 0
      PROVE  tokens'[call'[c].token].state = "revoked"
  <2>1. Continues(c) BY <1>3 DEF StepShape, CallStep, Refreshing, Begins
  <2>2. call'[c].token = call[c].token /\ call[c].token \in TokenIds
    BY <1>1, <1>3, <2>1 DEF Continues, CallRec
  <2>3. CASE call[c].pc = "revoke" BY <1>3, <2>1, <2>2, <2>3 DEF Continues
  <2>4. CASE call[c].pc \in {"load", "issue"}
    <3>1. tokens[call[c].token].state = "revoked"
      BY <1>3, <2>2, <2>4 DEF RotationInv
    <3>2. QED BY <2>2, <3>1, RowsLast DEF StepShape
  <2>5. QED BY <2>1, <2>3, <2>4 DEF Continues, Refreshing
<1>4. QED BY <1>2, <1>3 DEF RotationInv, ReplacedIsRevoked

LEMMA RotationHolds == Spec => []RotationInv
<1>1. Init => RotationInv
  BY DEF Init, SessionsInit, AccountsInit, RotationInv, ReplacedIsRevoked, NoToken, IdleCall
<1>2. AccountTyped /\ RotationInv /\ [Next]_vars => RotationInv'
  BY RotationStep, NextShape
<1>3. QED BY <1>1, <1>2, Typed, PTL DEF Spec

(* A token that has been replaced is revoked in every reachable state,     *)
(* whichever statement of Refresh fails and whatever runs next to it.      *)
THEOREM Rotation == Spec => []ReplacedIsRevoked
<1>1. RotationInv => ReplacedIsRevoked BY DEF RotationInv
<1>2. QED BY <1>1, RotationHolds, PTL

(***************************************************************************)
(* A refresh token buys one pair, unless there was a race                  *)
(***************************************************************************)

(* A refresh under way for t was under way before, or has just begun.      *)
LEMMA RenewingBefore ==
    ASSUME AccountTyped, StepShape, NEW t \in TokenIds, NEW c \in Calls,
           call'[c].token = t, call'[c].pc \in Refreshing
    PROVE  (Continues(c) /\ Renewing(c, t)) \/ Begins(c)
<1>1. t # 0 BY DEF TokenIds
<1>2. QED BY <1>1 DEF StepShape, CallStep, Continues, Renewing, Refreshing

LEMMA SpentStep ==
    ASSUME AccountTyped, RotationInv, SpentInv, StepShape
    PROVE  SpentInv'
<1>1. /\ CallsOK /\ call \in [Calls -> CallRec]
      /\ StoreOK /\ tokens \in [TokenIds -> Token]
  BY TypedParts DEF CallsOK, StoreOK, SessionsTypeOK
<1>2. raced \subseteq raced' BY DEF StepShape, EndStep
<1>3. 0 \notin TokenIds BY DEF TokenIds
<1>4. ASSUME NEW t \in TokenIds, NEW k \in TokenIds, t # k,
             tokens'[t].parent # 0, tokens'[t].parent = tokens'[k].parent
      PROVE  tokens'[t].parent \in raced'
  <2>1. CASE tokens'[t].parent = tokens[t].parent /\ tokens'[k].parent = tokens[k].parent
    BY <1>2, <1>4, <2>1 DEF SpentInv, SpentOnceUnlessRaced
  <2>2. CASE TokensKept BY <2>1, <2>2 DEF TokensKept
  <2>3. ASSUME NEW c \in Calls, NEW j \in TokenIds, Stored(c, j)
        PROVE  tokens'[t].parent \in raced'
    <3> DEFINE p == tokens'[t].parent
    <3>1. CASE j \notin {t, k} BY <2>1, <2>3, <3>1, StoredRow
    <3>2. ASSUME NEW i \in {t, k}, i # j, j \in {t, k}
          PROVE  p \in raced'
      <4>1. tokens'[j].parent = call[c].token BY <2>3, StoredRow
      <4>2. tokens'[i] = tokens[i] BY <2>3, <3>2, StoredRow
      <4>3. p = call[c].token /\ tokens[i].parent = p BY <1>4, <3>2, <4>1, <4>2
      <4>4. p \in TokenIds BY <1>1, <1>4, <4>3 DEF CallRec
      <4>5. Renewing(c, p) BY <2>3, <4>3 DEF Renewing, Stored, In
      <4>6. QED BY <1>2, <3>2, <4>3, <4>4, <4>5 DEF SpentInv
    <3>3. QED BY <1>4, <3>1, <3>2
  <2>4. QED BY <2>2, <2>3 DEF StepShape, TokensStep
<1>5. ASSUME NEW t \in TokenIds, NEW c \in Calls, NEW d \in Calls, c # d,
             call'[c].token = t, call'[c].pc \in Refreshing, Begins(c),
             call'[d].token = t, call'[d].pc \in Refreshing
      PROVE  t \in raced'
  <2>1. call'[d] = call[d] BY <1>5 DEF Begins
  <2>2. Renewing(d, t) BY <1>5, <2>1 DEF Renewing, Refreshing
  <2>3. tokens[t].state # "revoked" BY <1>5 DEF Begins
  <2>4. call[d].pc = "revoke" BY <1>3, <2>2, <2>3 DEF RotationInv, Renewing
  <2>5. QED BY <1>5, <2>2, <2>4 DEF Begins, In
<1>6. ASSUME NEW t \in TokenIds, NEW c \in Calls, NEW d \in Calls, c # d,
             call'[c].token = t, call'[c].pc \in Refreshing,
             call'[d].token = t, call'[d].pc \in Refreshing
      PROVE  t \in raced'
  <2>1. CASE Begins(c) \/ Begins(d) BY <1>5, <1>6, <2>1
  <2>2. CASE Renewing(c, t) /\ Renewing(d, t) BY <1>2, <1>6, <2>2 DEF SpentInv
  <2>3. QED BY <1>6, <2>1, <2>2, RenewingBefore
<1>7. ASSUME NEW t \in TokenIds, NEW k \in TokenIds, NEW c \in Calls,
             call'[c].token = t, call'[c].pc \in Refreshing, tokens'[k].parent = t
      PROVE  t \in raced'
  <2>1. CASE Begins(c)
    <3>1. tokens[k].parent = t /\ tokens[t].state # "revoked" BY <1>7, <2>1 DEF Begins
    <3>2. QED BY <1>3, <3>1 DEF RotationInv, ReplacedIsRevoked
  <2>2. CASE Renewing(c, t)
    <3>1. CASE tokens[k].parent = t BY <1>2, <2>2, <3>1 DEF SpentInv
    <3>2. CASE TokensKept BY <1>7, <3>1, <3>2 DEF TokensKept
    <3>3. ASSUME NEW d \in Calls, NEW j \in TokenIds, Stored(d, j)
          PROVE  t \in raced'
      <4>1. CASE j # k BY <1>7, <3>1, <3>3, <4>1, StoredRow
      <4>2. CASE j = k
        <5>1. call[d].token = t /\ call'[d].pc = "idle" BY <1>7, <3>3, <4>2, StoredRow
        <5>2. d # c BY <1>7, <5>1 DEF Refreshing
        <5>3. Renewing(d, t) BY <3>3, <5>1 DEF Stored, In, Renewing
        <5>4. QED BY <1>2, <2>2, <5>2, <5>3 DEF SpentInv
      <4>3. QED BY <4>1, <4>2
    <3>4. QED BY <3>2, <3>3 DEF StepShape, TokensStep
  <2>3. QED BY <1>7, <2>1, <2>2, RenewingBefore
<1>8. QED BY <1>4, <1>6, <1>7 DEF SpentInv, SpentOnceUnlessRaced, Renewing, Refreshing

(* A refresh token buys one new pair, unless two refreshes found it live   *)
(* before either of them revoked it.                                       *)
THEOREM SpentOnce == Spec => []SpentOnceUnlessRaced
<1>1. Init => SpentInv
  BY DEF Init, SessionsInit, AccountsInit, SpentInv, SpentOnceUnlessRaced, Renewing,
         NoToken, IdleCall, TokenIds
<1>2. AccountTyped /\ RotationInv /\ SpentInv /\ [Next]_vars => SpentInv'
  BY SpentStep, NextShape
<1>3. SpentInv => SpentOnceUnlessRaced BY DEF SpentInv
<1>4. QED BY <1>1, <1>2, <1>3, Typed, RotationHolds, PTL DEF Spec

(***************************************************************************)
(* A session goes on once, unless there was a race                         *)
(***************************************************************************)

(* The session was raced for, in the state after the step. *)
TornNext(s) == \E r \in raced' : tokens'[r].session = s

(* A row that is in use keeps its session, and a session stays torn.       *)
LEMMA SessionsLast ==
    ASSUME AccountTyped, SessionInv, StepShape
    PROVE  /\ \A t \in TokenIds : tokens[t].state # "unused" =>
                 tokens'[t].session = tokens[t].session
           /\ \A s \in TokenIds : Torn(s) => TornNext(s)
<1>1. raced \in SUBSET TokenIds /\ raced \subseteq raced'
  BY TypedParts DEF StoreOK, SessionsTypeOK, StepShape, EndStep
<1>2. ASSUME NEW t \in TokenIds, tokens[t].state # "unused"
      PROVE  tokens'[t].session = tokens[t].session
  <2>1. CASE TokensKept BY <2>1 DEF TokensKept
  <2>2. ASSUME NEW c \in Calls, NEW j \in TokenIds, Stored(c, j)
        PROVE  tokens'[t].session = tokens[t].session
    <3>1. j # t BY <1>2, <2>2 DEF Stored
    <3>2. QED BY <2>2, <3>1, StoredRow
  <2>3. QED BY <2>1, <2>2 DEF StepShape, TokensStep
<1>3. ASSUME NEW s \in TokenIds, Torn(s) PROVE TornNext(s)
  <2>1. PICK r \in raced : tokens[r].session = s BY <1>3 DEF Torn
  <2>2. r \in TokenIds /\ tokens[r].state # "unused" BY <1>1 DEF SessionInv
  <2>3. r \in raced' /\ tokens'[r].session = s BY <1>1, <1>2, <2>1, <2>2
  <2>4. QED BY <2>3 DEF TornNext
<1>4. QED BY <1>2, <1>3

(* A row that is not revoked after the step is new, or was not before.     *)
LEMMA UnrevokedBefore ==
    ASSUME AccountTyped, StepShape, NEW t \in TokenIds, Unrevoked(t)'
    PROVE  Unrevoked(t) \/ \E c \in Calls : Stored(c, t)
<1>1. tokens[t] \in Token BY TypedParts DEF StoreOK, SessionsTypeOK
<1>2. CASE TokensKept BY <1>1, <1>2 DEF TokensKept, Unrevoked, Token
<1>3. ASSUME NEW c \in Calls, NEW j \in TokenIds, Stored(c, j), j # t
      PROVE  Unrevoked(t)
  <2>1. tokens'[t] = tokens[t] BY <1>3, StoredRow
  <2>2. QED BY <2>1 DEF Unrevoked
<1>4. QED BY <1>2, <1>3 DEF StepShape, TokensStep

(* The session of a new pair is that of the token it replaces, which is    *)
(* being renewed and revoked, or a new one.                                *)
LEMMA NewSession ==
    ASSUME AccountTyped, RotationInv, NEW c \in Calls, NEW j \in TokenIds, Stored(c, j)
    PROVE  \/ tokens'[j].session = j
           \/ \E p \in TokenIds :
                 /\ Renewing(c, p) /\ tokens[p].state = "revoked"
                 /\ tokens'[j].session = tokens[p].session
<1>1. CASE call[c].token = 0 BY <1>1, StoredRow
<1>2. CASE call[c].token # 0
  <2>1. call[c].token \in TokenIds BY <1>2, TypedParts DEF CallsOK, CallRec
  <2>2. tokens[call[c].token].state = "revoked" BY <1>2 DEF RotationInv, Stored, In
  <2>3. Renewing(c, call[c].token) BY DEF Renewing, Stored, In
  <2>4. QED BY <1>2, <2>1, <2>2, <2>3, StoredRow
<1>3. QED BY <1>1, <1>2

(* Who is renewed was stored before the step. *)
LEMMA RenewedThere ==
    ASSUME AccountTyped, RotationInv, StepShape, NEW t \in TokenIds, NEW c \in Calls,
           Renewing(c, t)'
    PROVE  tokens[t].state # "unused" /\ (Renewing(c, t) \/ Begins(c))
<1>1. 0 \notin TokenIds BY DEF TokenIds
<1>2. call'[c].token = t /\ call'[c].pc \in Refreshing BY DEF Renewing, Refreshing
<1>3. Renewing(c, t) \/ Begins(c) BY <1>2, RenewingBefore
<1>4. Begins(c) => tokens[t].state # "unused" BY <1>2 DEF Begins
<1>5. ASSUME Renewing(c, t), call[c].pc = "revoke"
      PROVE  tokens[t].state # "unused"
  BY <1>5, TypedParts DEF Renewing, RevokersKnown
<1>6. ASSUME Renewing(c, t), call[c].pc # "revoke"
      PROVE  tokens[t].state # "unused"
  BY <1>1, <1>6 DEF Renewing, RotationInv
<1>7. QED BY <1>3, <1>4, <1>5, <1>6

LEMMA SessionInvStep ==
    ASSUME AccountTyped, RotationInv, SessionInv, StepShape
    PROVE  SessionInv'
<1>1. /\ tokens \in [TokenIds -> Token]
      /\ raced \in SUBSET TokenIds
  BY TypedParts DEF StoreOK, SessionsTypeOK
<1>2. \A t \in TokenIds : Unrevoked(t) => tokens[t].state \notin {"unused", "revoked"}
  BY DEF Unrevoked
<1>3. ASSUME NEW t \in TokenIds, tokens[t].state # "unused", Torn(tokens[t].session)
      PROVE  TornNext(tokens'[t].session)
  <2>1. tokens[t].session \in TokenIds BY <1>3 DEF SessionInv
  <2>2. QED BY <1>3, <2>1, SessionsLast
<1>4. ASSUME NEW c \in Calls, NEW t \in TokenIds, Stored(c, t)
      PROVE  /\ tokens[t].state = "unused" /\ call'[c].pc = "idle"
             /\ \A k \in TokenIds : k # t => tokens'[k] = tokens[k]
             /\ \A k \in TokenIds : tokens[k].session = t => tokens[k].state = "unused"
  BY <1>4, StoredRow DEF Stored, SessionInv
<1>5. ASSUME NEW c \in Calls, NEW t \in TokenIds, Stored(c, t),
             NEW k \in TokenIds, k # t, Unrevoked(k)', tokens'[k].session = tokens'[t].session
      PROVE  TornNext(tokens'[k].session)
  <2>1. tokens'[k] = tokens[k] BY <1>4, <1>5
  <2>2. Unrevoked(k) BY <1>5, <2>1 DEF Unrevoked
  <2>3. tokens[k].state # "unused" BY <1>2, <2>2
  <2>4. tokens'[t].session # t BY <1>4, <1>5, <2>1, <2>3
  <2>5. PICK p \in TokenIds : /\ Renewing(c, p) /\ tokens[p].state = "revoked"
                              /\ tokens'[t].session = tokens[p].session
    BY <1>5, <2>4, NewSession
  <2>6. k # p /\ tokens[k].session = tokens[p].session BY <1>2, <1>5, <2>1, <2>2, <2>5
  <2>7. Torn(tokens[k].session) BY <2>2, <2>5, <2>6 DEF SessionInv
  <2>8. QED BY <1>3, <2>3, <2>7
<1>6. OneLiveUnlessRaced'
  <2> SUFFICES ASSUME NEW t \in TokenIds, NEW k \in TokenIds, t # k,
                      Unrevoked(t)', Unrevoked(k)', tokens'[t].session = tokens'[k].session
               PROVE  TornNext(tokens'[t].session)
    BY DEF OneLiveUnlessRaced, Torn, TornNext
  <2>1. CASE Unrevoked(t) /\ Unrevoked(k)
    <3>1. tokens[t].state # "unused" /\ tokens[k].state # "unused" BY <1>2, <2>1
    <3>2. tokens[t].session = tokens[k].session BY <3>1, SessionsLast
    <3>3. Torn(tokens[t].session) BY <2>1, <3>2 DEF SessionInv, OneLiveUnlessRaced
    <3>4. QED BY <1>3, <3>1, <3>3
  <2>2. CASE \E c \in Calls : Stored(c, t) BY <1>5, <2>2
  <2>3. CASE \E c \in Calls : Stored(c, k) BY <1>5, <2>3
  <2>4. QED BY <2>1, <2>2, <2>3, UnrevokedBefore
<1>7. ASSUME NEW t \in TokenIds, NEW k \in TokenIds, NEW c \in Calls, Renewing(c, t)',
             k # t, Unrevoked(k)', tokens'[k].session = tokens'[t].session
      PROVE  TornNext(tokens'[t].session)
  <2>1. tokens[t].state # "unused" /\ (Renewing(c, t) \/ Begins(c)) BY <1>7, RenewedThere
  <2>2. tokens'[t].session = tokens[t].session BY <2>1, SessionsLast
  <2>3. CASE Begins(c)
    <3>1. call'[c].token = t /\ UNCHANGED tokens /\ tokens[t].state \notin {"unused", "revoked"}
      BY <1>7, <2>3 DEF Begins, Renewing
    <3>2. Unrevoked(t) /\ Unrevoked(k) BY <1>1, <1>7, <3>1 DEF Unrevoked, Token
    <3>3. Torn(tokens[t].session)
      BY <1>7, <3>1, <3>2 DEF SessionInv, OneLiveUnlessRaced
    <3>4. QED BY <1>3, <2>1, <3>3
  <2>4. CASE Renewing(c, t) /\ Unrevoked(k)
    <3>1. tokens[k].session = tokens[t].session BY <1>2, <1>7, <2>2, <2>4, SessionsLast
    <3>2. Torn(tokens[t].session) BY <1>7, <2>4, <3>1 DEF SessionInv
    <3>3. QED BY <1>3, <2>1, <3>2
  <2>5. ASSUME Renewing(c, t), NEW d \in Calls, Stored(d, k)
        PROVE  TornNext(tokens'[t].session)
    <3>1. d # c BY <1>4, <1>7, <2>5 DEF Renewing
    <3>2. tokens'[k].session # k BY <1>4, <1>7, <2>1, <2>2, <2>5
    <3>3. PICK p \in TokenIds : Renewing(d, p) /\ tokens'[k].session = tokens[p].session
      BY <2>5, <3>2, NewSession
    <3>4. tokens[p].session = tokens[t].session BY <1>7, <2>2, <3>3
    <3>5. Torn(tokens[t].session) BY <2>5, <3>1, <3>3, <3>4 DEF SessionInv
    <3>6. QED BY <1>3, <2>1, <3>5
  <2>6. QED BY <1>7, <2>1, <2>3, <2>4, <2>5, UnrevokedBefore
<1>8. ASSUME NEW t \in TokenIds, NEW k \in TokenIds, NEW c \in Calls, NEW d \in Calls, c # d,
             Begins(c), Renewing(c, t)', Renewing(d, k)',
             tokens'[k].session = tokens'[t].session
      PROVE  TornNext(tokens'[t].session)
  <2>1. /\ call'[c].token = t /\ call'[d] = call[d] /\ UNCHANGED tokens
        /\ tokens[t].state \notin {"unused", "revoked"}
    BY <1>8 DEF Begins, Renewing
  <2>2. Renewing(d, k) BY <1>8, <2>1 DEF Renewing
  <2>3. CASE k = t
    <3>1. call[d].pc = "revoke" BY <2>1, <2>2, <2>3 DEF RotationInv, Renewing, TokenIds
    <3>2. t \in raced' BY <1>8, <2>1, <2>2, <2>3, <3>1 DEF Begins, In
    <3>3. QED BY <3>2 DEF TornNext
  <2>4. CASE k # t
    <3>1. Unrevoked(t) BY <1>1, <2>1 DEF Unrevoked, Token
    <3>2. Torn(tokens[k].session) BY <1>8, <2>1, <2>2, <2>4, <3>1 DEF SessionInv
    <3>3. QED BY <1>3, <1>8, <2>1, <3>2
  <2>5. QED BY <2>3, <2>4
<1>9. ASSUME NEW t \in TokenIds, NEW k \in TokenIds, NEW c \in Calls, NEW d \in Calls, c # d,
             Renewing(c, t)', Renewing(d, k)', tokens'[k].session = tokens'[t].session
      PROVE  TornNext(tokens'[t].session)
  <2>1. /\ tokens[t].state # "unused" /\ tokens[k].state # "unused"
        /\ Renewing(c, t) \/ Begins(c)
        /\ Renewing(d, k) \/ Begins(d)
    BY <1>9, RenewedThere
  <2>2. CASE Begins(c) \/ Begins(d) BY <1>8, <1>9, <2>2
  <2>3. CASE Renewing(c, t) /\ Renewing(d, k)
    <3>1. tokens[k].session = tokens[t].session BY <1>9, <2>1, SessionsLast
    <3>2. Torn(tokens[t].session) BY <1>9, <2>3, <3>1 DEF SessionInv
    <3>3. QED BY <1>3, <2>1, <3>2
  <2>4. QED BY <2>1, <2>2, <2>3
<1>10. ASSUME NEW t \in TokenIds, tokens'[t].state # "unused"
       PROVE  tokens'[t].session \in TokenIds /\ tokens'[tokens'[t].session].state # "unused"
  <2>1. CASE tokens[t].state # "unused"
    <3>1. /\ tokens[t].session \in TokenIds /\ tokens[tokens[t].session].state # "unused"
          /\ tokens'[t].session = tokens[t].session
      BY <2>1, SessionsLast DEF SessionInv
    <3>2. QED BY <3>1, RowsLast DEF StepShape
  <2>2. CASE tokens[t].state = "unused"
    <3>1. ~ TokensKept BY <1>10, <2>2 DEF TokensKept
    <3>2. PICK c \in Calls, j \in TokenIds : Stored(c, j) BY <3>1 DEF StepShape, TokensStep
    <3>3. j = t BY <1>4, <1>10, <2>2, <3>2
    <3>4. CASE tokens'[t].session = t BY <1>10, <3>4
    <3>5. ASSUME NEW p \in TokenIds, tokens[p].state = "revoked",
                 tokens'[t].session = tokens[p].session
          PROVE  tokens'[t].session \in TokenIds /\ tokens'[tokens'[t].session].state # "unused"
      BY <3>5, RowsLast DEF SessionInv, StepShape
    <3>6. QED BY <3>2, <3>3, <3>4, <3>5, NewSession
  <2>3. QED BY <2>1, <2>2
<1>11. ASSUME NEW r \in raced'
       PROVE  tokens'[r].state # "unused"
  <2>1. r \in TokenIds /\ tokens[r].state # "unused"
    BY <1>1, <1>11 DEF SessionInv, StepShape, EndStep
  <2>2. TokensStep BY DEF StepShape
  <2>3. QED BY <2>1, <2>2, RowsLast
<1>12. QED BY <1>6, <1>7, <1>9, <1>10, <1>11 DEF SessionInv, Torn, TornNext

(* Of all the tokens a login has led to, at most one is not revoked, for    *)
(* any number of refreshes, failures and crashes, unless two refreshes      *)
(* found one of them live before either revoked it.                         *)
THEOREM OneLive == Spec => []OneLiveUnlessRaced
<1>1. Init => SessionInv
  BY DEF Init, SessionsInit, AccountsInit, SessionInv, OneLiveUnlessRaced, Renewing,
         Unrevoked, NoToken, IdleCall
<1>2. AccountTyped /\ RotationInv /\ SessionInv /\ [Next]_vars => SessionInv'
  BY SessionInvStep, NextShape
<1>3. SessionInv => OneLiveUnlessRaced BY DEF SessionInv
<1>4. QED BY <1>1, <1>2, <1>3, Typed, RotationHolds, PTL DEF Spec

(***************************************************************************)
(* What was ended stays ended                                              *)
(***************************************************************************)
LEMMA EndedStep ==
    ASSUME AccountTyped, EndedInv, StepShape
    PROVE  EndedInv'
<1>1. /\ CallsOK /\ call \in [Calls -> CallRec] /\ ended \in SUBSET TokenIds
      /\ StoreOK /\ tokens \in [TokenIds -> Token]
  BY TypedParts DEF CallsOK, StoreOK, SessionsTypeOK
<1>2. ASSUME NEW t \in TokenIds, tokens'[t].late
      PROVE  tokens'[t].overtaken
  <2>1. CASE tokens'[t].late = tokens[t].late /\ tokens'[t].overtaken = tokens[t].overtaken
    BY <1>2, <2>1 DEF EndedInv, EndedUnlessOvertaken
  <2>2. CASE TokensKept BY <2>1, <2>2 DEF TokensKept
  <2>3. ASSUME NEW c \in Calls, NEW j \in TokenIds, Stored(c, j)
        PROVE  tokens'[t].overtaken
    <3>1. CASE j # t BY <2>1, <2>3, <3>1, StoredRow
    <3>2. CASE j = t
      <4>1. call[c].token \in ended BY <1>2, <2>3, <3>2, StoredRow
      <4>2. Renewing(c, call[c].token) BY <2>3 DEF Stored, In, Renewing
      <4>3. call[c].overtaken BY <4>1, <4>2 DEF EndedInv
      <4>4. QED BY <2>3, <3>2, <4>3, StoredRow
    <3>3. QED BY <3>1, <3>2
  <2>4. QED BY <2>2, <2>3 DEF StepShape, TokensStep
<1>3. ASSUME NEW t \in ended'
      PROVE  tokens'[t].state = "revoked"
  <2>1. CASE t \in ended
    <3>1. t \in TokenIds /\ tokens[t].state = "revoked" BY <1>1, <2>1 DEF EndedInv
    <3>2. QED BY <3>1, RowsLast DEF StepShape
  <2>2. CASE t \notin ended BY <1>3, <2>2 DEF StepShape, EndStep
  <2>3. QED BY <2>1, <2>2
<1>4. ASSUME NEW t \in ended', NEW c \in Calls,
             call'[c].token = t, call'[c].pc \in Refreshing
      PROVE  call'[c].overtaken
  <2>1. CASE t \notin ended BY <1>4, <2>1 DEF StepShape, EndStep
  <2>2. CASE t \in ended
    <3>1. t \in TokenIds /\ tokens[t].state = "revoked" BY <1>1, <2>2 DEF EndedInv
    <3>2. ~ Begins(c) BY <1>4, <3>1 DEF Begins
    <3>3. Continues(c) /\ Renewing(c, t) BY <1>4, <3>1, <3>2, RenewingBefore
    <3>4. QED BY <2>2, <3>3 DEF EndedInv, Continues
  <2>3. QED BY <2>1, <2>2
<1>5. QED BY <1>2, <1>3, <1>4 DEF EndedInv, EndedUnlessOvertaken, Renewing, Refreshing

(* No pair is issued for a token that Logout, LogoutAll or the detection   *)
(* of a reuse ended, except by a refresh that had found it live before.    *)
THEOREM EndedStaysEnded == Spec => []EndedUnlessOvertaken
<1>1. Init => EndedInv
  BY DEF Init, SessionsInit, AccountsInit, EndedInv, EndedUnlessOvertaken, NoToken
<1>2. AccountTyped /\ EndedInv /\ [Next]_vars => EndedInv'
  BY EndedStep, NextShape
<1>3. EndedInv => EndedUnlessOvertaken BY DEF EndedInv
<1>4. QED BY <1>1, <1>2, <1>3, Typed, PTL DEF Spec

(***************************************************************************)
(* Roles are earned, for any number of people, requests, tokens, codes,    *)
(* crashes and failures.  What a request in flight relies on -- the code   *)
(* it carries was sent, the person it promotes is verified -- is lasting:  *)
(* rows only grow.                                                         *)
(***************************************************************************)

(* What request c may take for granted until its last statement. *)
CallEarned(c) ==
    /\ call[c].pc \in {"save", "verify"} => call[c].code \in delivered[call[c].email]
    /\ call[c].pc = "promote" => users[call[c].email].verified
    /\ (call[c].pc = "issue" /\ call[c].role = "seller") =>
           users[call[c].email].type = "seller"

RowsEarned ==
    /\ \A e \in Emails :
          /\ users[e].type = "seller" => users[e].verified
          /\ users[e].verified => proof[e] \in delivered[e]
          /\ users[e].code # 0 => users[e].code \in delivered[e]

PairsEarned ==
    \A t \in TokenIds : tokens[t].role = "seller" =>
        /\ tokens[t].email \in Emails
        /\ users[tokens[t].email].type = "seller"

LEMMA EarnedParts ==
    EarnedInv <=> PairsEarned /\ RowsEarned /\ \A c \in Calls : CallEarned(c)
BY DEF EarnedInv, RolesAreEarned, PairsEarned, RowsEarned, CallEarned

(* Nobody loses a role, a verification or a code that was sent. *)
RowsGrow ==
    \A e \in Emails :
        /\ users[e].type = "seller" => users'[e].type = "seller"
        /\ users[e].verified => users'[e].verified
        /\ delivered[e] \subseteq delivered'[e]

(* A request that does not move keeps what it relies on. *)
LEMMA EarnedCallKept ==
    ASSUME CallsOK, RowsGrow, NEW d \in Calls, CallEarned(d),
           call'[d].pc = call[d].pc, call'[d].email = call[d].email,
           call'[d].role = call[d].role, call'[d].code = call[d].code
    PROVE  CallEarned(d)'
<1>1. call[d].pc # "idle" => call[d].email \in Emails BY DEF CallsOK
<1>2. QED BY <1>1 DEF CallEarned, RowsGrow

(* One request moves. *)
LEMMA EarnedOneMoves ==
    ASSUME CallsOK, RowsGrow, \A d \in Calls : CallEarned(d),
           NEW c \in Calls, NEW rec, call' = [call EXCEPT ![c] = rec],
           call'[c] = rec => CallEarned(c)'
    PROVE  \A d \in Calls : CallEarned(d)'
<1>1. call'[c] = rec BY DEF CallsOK
<1>2. ASSUME NEW d \in Calls, d # c PROVE CallEarned(d)'
  <2>1. call'[d] = call[d] BY <1>2 DEF CallsOK
  <2>2. QED BY <2>1, EarnedCallKept
<1>3. QED BY <1>1, <1>2

LEMMA EarnedCalls ==
    ASSUME CallsOK, RowsGrow, \A d \in Calls : CallEarned(d)
    PROVE  /\ UNCHANGED call => \A d \in Calls : CallEarned(d)'
           /\ \A c \in Calls : Reply(c) => \A d \in Calls : CallEarned(d)'
           /\ \A c \in Calls, pc \in {"load", "mail"} :
                 GoOn(c, pc) => \A d \in Calls : CallEarned(d)'
           /\ \A T \in SUBSET TokenIds :
                 call' = Overtake(T) => \A d \in Calls : CallEarned(d)'
           /\ \A c \in Calls, T \in SUBSET TokenIds :
                 call' = [Overtake(T) EXCEPT ![c] = IdleCall] =>
                     \A d \in Calls : CallEarned(d)'
<1>1. ASSUME UNCHANGED call PROVE \A d \in Calls : CallEarned(d)'
  BY <1>1, EarnedCallKept
<1>2. ASSUME NEW c \in Calls, Reply(c) PROVE \A d \in Calls : CallEarned(d)'
  <2>1. call'[c] = IdleCall => CallEarned(c)' BY DEF IdleCall, CallEarned
  <2>2. QED BY <1>2, <2>1, EarnedOneMoves DEF Reply
<1>3. ASSUME NEW c \in Calls, NEW pc \in {"load", "mail"}, GoOn(c, pc)
      PROVE  \A d \in Calls : CallEarned(d)'
  <2> DEFINE rec == [call[c] EXCEPT !.pc = pc]
  <2>1. rec.pc = pc BY DEF CallsOK, CallRec
  <2>2. call'[c] = rec => CallEarned(c)' BY <2>1 DEF CallEarned
  <2>3. call' = [call EXCEPT ![c] = rec] BY <1>3 DEF GoOn
  <2>4. QED BY <2>2, <2>3, EarnedOneMoves
<1>4. ASSUME NEW T \in SUBSET TokenIds, NEW d \in Calls, call'[d] = Overtake(T)[d]
      PROVE  CallEarned(d)'
  BY <1>4, OvertakeNext, EarnedCallKept
<1>5. ASSUME NEW c \in Calls, NEW T \in SUBSET TokenIds,
             call' = [Overtake(T) EXCEPT ![c] = IdleCall]
      PROVE  \A d \in Calls : CallEarned(d)'
  <2>1. Overtake(T) \in [Calls -> CallRec] BY OvertakeTyped
  <2>2. call'[c] = IdleCall BY <1>5, <2>1
  <2>3. CallEarned(c)' BY <2>2 DEF IdleCall, CallEarned
  <2>4. \A d \in Calls : d # c => call'[d] = Overtake(T)[d] BY <1>5, <2>1
  <2>5. QED BY <1>4, <2>3, <2>4
<1>6. QED BY <1>1, <1>2, <1>3, <1>4, <1>5

(* A pair has the role of the request that stored it. *)
LEMMA PairsKept ==
    ASSUME AccountTyped, EarnedInv, StepShape, RowsGrow
    PROVE  PairsEarned'
<1>1. /\ CallsOK /\ StoreOK /\ tokens \in [TokenIds -> Token]
      /\ PairsEarned /\ \A c \in Calls : CallEarned(c)
  BY TypedParts, EarnedParts DEF StoreOK, SessionsTypeOK
<1>2. SUFFICES ASSUME NEW t \in TokenIds, tokens'[t].role = "seller"
               PROVE  /\ tokens'[t].email \in Emails
                      /\ users'[tokens'[t].email].type = "seller"
  BY DEF PairsEarned
<1>3. CASE tokens'[t].role = tokens[t].role /\ tokens'[t].email = tokens[t].email
  BY <1>1, <1>2, <1>3 DEF PairsEarned, RowsGrow
<1>4. CASE TokensKept BY <1>3, <1>4 DEF TokensKept
<1>5. ASSUME NEW c \in Calls, NEW j \in TokenIds, Stored(c, j)
      PROVE  tokens'[t].email \in Emails /\ users'[tokens'[t].email].type = "seller"
  <2>1. CASE j # t BY <1>3, <1>5, <2>1, StoredRow
  <2>2. CASE j = t
    <3>1. call[c].role = "seller" /\ tokens'[t].email = call[c].email
      BY <1>2, <1>5, <2>2, StoredRow
    <3>2. call[c].pc = "issue" /\ UNCHANGED users BY <1>5 DEF Stored, In
    <3>3. users[call[c].email].type = "seller" BY <1>1, <3>1, <3>2 DEF CallEarned
    <3>4. call[c].email \in Emails BY <1>1, <3>2 DEF CallsOK
    <3>5. QED BY <3>1, <3>2, <3>3, <3>4
  <2>3. QED BY <2>1, <2>2
<1>6. QED BY <1>4, <1>5 DEF StepShape, TokensStep

(* The rows after a step that leaves them alone, but for one. *)
RowsOK == RowsGrow /\ RowsEarned'

LEMMA SameRows ==
    ASSUME RowsEarned, UNCHANGED <<users, delivered, proof>>
    PROVE  RowsOK
BY DEF RowsEarned, RowsOK, RowsGrow

LEMMA EarnedSession ==
    ASSUME AccountTyped, EarnedInv, SessionStep, UNCHANGED memberVars
    PROVE  RowsOK /\ \A c \in Calls : CallEarned(c)'
<1>1. /\ CallsOK /\ UsersOK /\ RowsEarned /\ \A c \in Calls : CallEarned(c)
      /\ UNCHANGED <<delivered, proof>>
  BY TypedParts, EarnedParts DEF memberVars
<1>2. /\ UNCHANGED users => RowsOK
      /\ RowsOK => RowsGrow
  BY <1>1, SameRows DEF RowsOK
<1>3. \A e \in Emails : TokensOf(e) \in SUBSET TokenIds BY DEF TokensOf
<1>4. ASSUME NEW c \in Calls, NEW e \in Emails, SignUp(c, e)
      PROVE  RowsOK /\ \A d \in Calls : CallEarned(d)'
  <2> DEFINE rec == [IdleCall EXCEPT !.pc = "create", !.email = e]
  <2>1. rec.pc = "create" BY DEF IdleCall
  <2>2. call' = [call EXCEPT ![c] = rec] BY <1>4 DEF SignUp, Enter
  <2>3. call'[c] = rec => CallEarned(c)' BY <2>1 DEF CallEarned
  <2>4. RowsOK BY <1>2, <1>4 DEF SignUp
  <2>5. QED BY <1>1, <1>2, <2>2, <2>3, <2>4, EarnedOneMoves
<1>5. ASSUME NEW c \in Calls, NEW e \in Emails, Login(c, e)
      PROVE  RowsOK /\ \A d \in Calls : CallEarned(d)'
  <2> DEFINE rec == [IdleCall EXCEPT !.pc = "issue", !.email = e, !.role = users[e].type]
  <2>1. rec.pc = "issue" /\ rec.email = e /\ rec.role = users[e].type BY DEF IdleCall
  <2>2. call' = [call EXCEPT ![c] = rec] /\ UNCHANGED users BY <1>5 DEF Login
  <2>3. call'[c] = rec => CallEarned(c)' BY <2>1, <2>2 DEF CallEarned
  <2>4. RowsOK BY <1>2, <2>2
  <2>5. QED BY <1>1, <1>2, <2>2, <2>3, <2>4, EarnedOneMoves
<1>6. ASSUME NEW c \in Calls, NEW e \in Emails, LogoutAll(c, e)
      PROVE  RowsOK /\ \A d \in Calls : CallEarned(d)'
  BY <1>1, <1>2, <1>3, <1>6, EarnedCalls DEF LogoutAll
<1>7. ASSUME NEW c \in Calls, NEW t \in TokenIds, Refresh(c, t)
      PROVE  RowsOK /\ \A d \in Calls : CallEarned(d)'
  <2> DEFINE pc == IF Reused(t) THEN "endall" ELSE "revoke"
             rec == [IdleCall EXCEPT !.pc = pc, !.email = tokens[t].email, !.token = t]
  <2>1. rec.pc \in {"endall", "revoke"} BY DEF IdleCall
  <2>2. call' = [call EXCEPT ![c] = rec] BY <1>7 DEF Refresh
  <2>3. call'[c] = rec => CallEarned(c)' BY <2>1 DEF CallEarned
  <2>4. RowsOK BY <1>2, <1>7 DEF Refresh
  <2>5. QED BY <1>1, <1>2, <2>2, <2>3, <2>4, EarnedOneMoves
<1>8. ASSUME NEW c \in Calls, NEW t \in TokenIds, Logout(c, t)
      PROVE  RowsOK /\ \A d \in Calls : CallEarned(d)'
  <2>1. {t} \in SUBSET TokenIds OBVIOUS
  <2>2. QED BY <1>1, <1>2, <1>8, <2>1, EarnedCalls DEF Logout
<1>9. ASSUME NEW c \in Calls, CreateUser(c)
       PROVE  RowsOK /\ \A d \in Calls : CallEarned(d)'
  <2> DEFINE e == call[c].email
  <2>1. e \in Emails BY <1>1, <1>9 DEF CreateUser, In, CallsOK
  <2>2. ASSUME ~ Registered(e), InsertUser(e) PROVE RowsOK
    <3>1. users[e].type # "seller" BY <2>2 DEF Registered
    <3>2. \A d \in Emails : /\ d # e => users'[d] = users[d]
                            /\ users'[e].type = "buyer"
                            /\ users'[e].verified = users[e].verified
                            /\ users'[e].code = users[e].code
      BY <1>1, <2>1, <2>2 DEF InsertUser, UsersOK, UserRow
    <3>3. RowsGrow BY <1>1, <3>1, <3>2 DEF RowsGrow
    <3>4. RowsEarned' BY <1>1, <2>1, <3>2 DEF RowsEarned
    <3>5. QED BY <3>3, <3>4 DEF RowsOK
  <2>3. RowsOK BY <1>2, <1>9, <2>2 DEF CreateUser
  <2>4. CASE call' = [call EXCEPT ![c].pc = "issue", ![c].role = "buyer"]
    <3> DEFINE rec == [call[c] EXCEPT !.pc = "issue", !.role = "buyer"]
    <3>1. rec.pc = "issue" /\ rec.role = "buyer" BY <1>1 DEF CallsOK, CallRec
    <3>2. call' = [call EXCEPT ![c] = rec] BY <1>1, <2>4 DEF CallsOK
    <3>3. call'[c] = rec => CallEarned(c)' BY <3>1 DEF CallEarned
    <3>4. QED BY <1>1, <1>2, <2>3, <3>2, <3>3, EarnedOneMoves
  <2>5. CASE Reply(c) BY <1>1, <1>2, <2>3, <2>5, EarnedCalls
  <2>6. QED BY <1>9, <2>4, <2>5 DEF CreateUser
<1>10. ASSUME NEW c \in Calls, Issue(c)
       PROVE  RowsOK /\ \A d \in Calls : CallEarned(d)'
  BY <1>1, <1>2, <1>10, EarnedCalls DEF Issue
<1>11. ASSUME NEW c \in Calls, Revoke(c)
       PROVE  RowsOK /\ \A d \in Calls : CallEarned(d)'
  BY <1>1, <1>2, <1>11, EarnedCalls DEF Revoke, RevokeFails
<1>12. ASSUME NEW c \in Calls, LoadUser(c)
       PROVE  RowsOK /\ \A d \in Calls : CallEarned(d)'
  <2> DEFINE r == users[call[c].email].type
             rec == [call[c] EXCEPT !.pc = "issue", !.role = r]
  <2>1. RowsOK /\ UNCHANGED users BY <1>2, <1>12 DEF LoadUser
  <2>2. CASE call' = [call EXCEPT ![c].pc = "issue", ![c].role = r]
    <3>1. rec.role = r /\ rec.email = call[c].email /\ rec.pc = "issue"
      BY <1>1 DEF CallsOK, CallRec
    <3>2. call' = [call EXCEPT ![c] = rec] BY <1>1, <2>2 DEF CallsOK
    <3>3. call'[c] = rec => CallEarned(c)' BY <2>1, <3>1 DEF CallEarned
    <3>4. QED BY <1>1, <1>2, <2>1, <3>2, <3>3, EarnedOneMoves
  <2>3. CASE Reply(c) BY <1>1, <1>2, <2>1, <2>3, EarnedCalls
  <2>4. QED BY <1>12, <2>2, <2>3 DEF LoadUser
<1>13. ASSUME NEW c \in Calls, EndAll(c)
       PROVE  RowsOK /\ \A d \in Calls : CallEarned(d)'
  <2>1. call[c].email \in Emails BY <1>1, <1>13 DEF EndAll, In, CallsOK
  <2>2. QED BY <1>1, <1>2, <1>3, <1>13, <2>1, EarnedCalls DEF EndAll
<1>14. ASSUME NEW t \in TokenIds, Expire(t)
       PROVE  RowsOK /\ \A d \in Calls : CallEarned(d)'
  BY <1>1, <1>2, <1>14, EarnedCalls DEF Expire
<1>15. QED
  BY <1>4, <1>5, <1>6, <1>7, <1>8, <1>9, <1>10, <1>11, <1>12, <1>13, <1>14
     DEF SessionStep

LEMMA EarnedMember ==
    ASSUME AccountTyped, EarnedInv, MemberStep
    PROVE  RowsOK /\ \A c \in Calls : CallEarned(c)'
<1>1. /\ CallsOK /\ UsersOK /\ MembershipTypeOK
      /\ RowsEarned /\ \A c \in Calls : CallEarned(c)
  BY TypedParts, EarnedParts
<1>2. /\ UNCHANGED <<users, delivered, proof>> => RowsOK
      /\ RowsOK => RowsGrow
  BY <1>1, SameRows DEF RowsOK
<1>3. \A c \in Calls : call[c].pc # "idle" => call[c].email \in Emails
  BY <1>1 DEF CallsOK
<1>4. ASSUME NEW c \in Calls, NEW e \in Emails, GetVerificationCode(c, e)
      PROVE  RowsOK /\ \A d \in Calls : CallEarned(d)'
  <2> DEFINE rec == [IdleCall EXCEPT !.pc = "sms", !.email = e, !.code = nextCode]
  <2>1. rec.pc = "sms" BY DEF IdleCall
  <2>2. call' = [call EXCEPT ![c] = rec] BY <1>4 DEF GetVerificationCode
  <2>3. call'[c] = rec => CallEarned(c)' BY <2>1 DEF CallEarned
  <2>4. RowsOK BY <1>2, <1>4 DEF GetVerificationCode
  <2>5. QED BY <1>1, <1>2, <2>2, <2>3, <2>4, EarnedOneMoves
<1>5. ASSUME NEW c \in Calls, NEW e \in Emails, BecomeSeller(c, e)
      PROVE  RowsOK /\ \A d \in Calls : CallEarned(d)'
  <2> DEFINE rec == [IdleCall EXCEPT !.pc = "promote", !.email = e]
  <2>1. rec.pc = "promote" /\ rec.email = e BY DEF IdleCall
  <2>2. call' = [call EXCEPT ![c] = rec] /\ UNCHANGED users BY <1>5 DEF BecomeSeller, Enter
  <2>3. users[e].verified BY <1>5 DEF BecomeSeller, MayBecomeSeller
  <2>4. call'[c] = rec => CallEarned(c)' BY <2>1, <2>2, <2>3 DEF CallEarned
  <2>5. RowsOK BY <1>2, <1>5 DEF BecomeSeller, memberVars
  <2>6. QED BY <1>1, <1>2, <2>2, <2>4, <2>5, EarnedOneMoves
<1>6. ASSUME NEW c \in Calls, NEW e \in Emails, NEW code \in Codes, Verify(c, e, code)
      PROVE  RowsOK /\ \A d \in Calls : CallEarned(d)'
  <2> DEFINE rec == [IdleCall EXCEPT !.pc = "verify", !.email = e, !.code = code]
  <2>1. rec.pc = "verify" /\ rec.email = e /\ rec.code = code BY DEF IdleCall
  <2>2. call' = [call EXCEPT ![c] = rec] /\ UNCHANGED delivered
    BY <1>6 DEF Verify, memberVars
  <2>3. code # 0 BY DEF Codes
  <2>4. code \in delivered[e] BY <1>1, <1>6, <2>3 DEF Verify, RowsEarned
  <2>5. call'[c] = rec => CallEarned(c)' BY <2>1, <2>2, <2>4 DEF CallEarned
  <2>6. RowsOK BY <1>2, <1>6 DEF Verify, memberVars
  <2>7. QED BY <1>1, <1>2, <2>2, <2>5, <2>6, EarnedOneMoves
<1>7. ASSUME NEW c \in Calls, call[c].pc \in {"sms", "mail"}, UNCHANGED <<users, proof>>,
             UNCHANGED delivered \/ Deliver(c)
      PROVE  RowsOK
  <2>1. CASE Deliver(c)
    <3>1. \A e \in Emails : delivered[e] \subseteq delivered'[e]
      BY <1>1, <2>1 DEF Deliver, MembershipTypeOK
    <3>2. QED BY <1>1, <1>7, <3>1 DEF RowsOK, RowsGrow, RowsEarned
  <2>2. QED BY <1>2, <1>7, <2>1
<1>8. ASSUME NEW c \in Calls, call[c].pc \in {"sms", "mail"}, UNCHANGED <<users, proof>>,
             Deliver(c), GoOn(c, "save")
      PROVE  RowsOK /\ \A d \in Calls : CallEarned(d)'
  <2> DEFINE rec == [call[c] EXCEPT !.pc = "save"]
  <2>1. rec.pc = "save" /\ rec.email = call[c].email /\ rec.code = call[c].code
    BY <1>1 DEF CallsOK, CallRec
  <2>2. call' = [call EXCEPT ![c] = rec] BY <1>8 DEF GoOn
  <2>3. call[c].email \in Emails BY <1>3, <1>8
  <2>4. call[c].code \in delivered'[call[c].email]
    BY <1>1, <1>8, <2>3 DEF Deliver, MembershipTypeOK
  <2>5. call'[c] = rec => CallEarned(c)' BY <2>1, <2>4 DEF CallEarned
  <2>6. RowsOK BY <1>7, <1>8
  <2>7. QED BY <1>1, <1>2, <2>2, <2>5, <2>6, EarnedOneMoves
<1>9. ASSUME NEW c \in Calls, SendSMS(c)
      PROVE  RowsOK /\ \A d \in Calls : CallEarned(d)'
  <2>1. call[c].pc = "sms" /\ UNCHANGED <<users, proof>> BY <1>9 DEF SendSMS, In
  <2>2. CASE Deliver(c) /\ GoOn(c, "save") BY <1>8, <2>1, <2>2
  <2>3. CASE (UNCHANGED delivered \/ Deliver(c)) /\ GoOn(c, "mail")
    BY <1>1, <1>2, <1>7, <2>1, <2>3, EarnedCalls
  <2>4. QED BY <1>9, <2>2, <2>3 DEF SendSMS
<1>10. ASSUME NEW c \in Calls, SendMail(c)
       PROVE  RowsOK /\ \A d \in Calls : CallEarned(d)'
  <2>1. call[c].pc = "mail" /\ UNCHANGED <<users, proof>> BY <1>10 DEF SendMail, In
  <2>2. CASE Deliver(c) /\ GoOn(c, "save") BY <1>8, <2>1, <2>2
  <2>3. CASE (UNCHANGED delivered \/ Deliver(c)) /\ Reply(c)
    BY <1>1, <1>2, <1>7, <2>1, <2>3, EarnedCalls
  <2>4. QED BY <1>10, <2>2, <2>3 DEF SendMail, MailFails
<1>11. ASSUME NEW c \in Calls, SaveCode(c)
       PROVE  RowsOK /\ \A d \in Calls : CallEarned(d)'
  <2> DEFINE e == call[c].email
  <2>1. /\ e \in Emails /\ call[c].code \in delivered[e]
        /\ UNCHANGED <<delivered, proof>> /\ Reply(c)
    BY <1>1, <1>3, <1>11 DEF SaveCode, In, CallEarned, memberVars
  <2>2. CASE WriteCode(c)
    <3>1. /\ \A d \in Emails : /\ users'[d].type = users[d].type
                               /\ users'[d].verified = users[d].verified
                               /\ d # e => users'[d].code = users[d].code
          /\ users'[e].code = call[c].code
      BY <1>1, <2>1, <2>2 DEF WriteCode, UsersOK, UserRow
    <3>2. RowsOK BY <1>1, <2>1, <3>1 DEF RowsOK, RowsGrow, RowsEarned
    <3>3. QED BY <1>1, <1>2, <2>1, <3>2, EarnedCalls
  <2>3. CASE UNCHANGED users BY <1>1, <1>2, <2>1, <2>3, EarnedCalls
  <2>4. QED BY <1>11, <2>2, <2>3 DEF SaveCode
<1>12. ASSUME NEW c \in Calls, SetVerified(c)
       PROVE  RowsOK /\ \A d \in Calls : CallEarned(d)'
  <2> DEFINE e == call[c].email
  <2>1. /\ e \in Emails /\ call[c].code \in delivered[e]
        /\ UNCHANGED delivered /\ Reply(c)
    BY <1>1, <1>3, <1>12 DEF SetVerified, In, CallEarned
  <2>2. CASE WriteVerified(c)
    <3>1. /\ \A d \in Emails : /\ users'[d].type = users[d].type
                               /\ users'[d].code = users[d].code
                               /\ d # e => /\ users'[d].verified = users[d].verified
                                           /\ proof'[d] = proof[d]
          /\ users'[e].verified /\ proof'[e] = call[c].code
      BY <1>1, <2>1, <2>2 DEF WriteVerified, UsersOK, UserRow, MembershipTypeOK
    <3>2. RowsOK BY <1>1, <2>1, <3>1 DEF RowsOK, RowsGrow, RowsEarned
    <3>3. QED BY <1>1, <1>2, <2>1, <3>2, EarnedCalls
  <2>3. CASE UNCHANGED <<users, proof>> BY <1>1, <1>2, <2>1, <2>3, EarnedCalls
  <2>4. QED BY <1>12, <2>2, <2>3 DEF SetVerified
<1>13. ASSUME NEW c \in Calls, Promote(c)
       PROVE  RowsOK /\ \A d \in Calls : CallEarned(d)'
  <2> DEFINE e == call[c].email
             rec == [call[c] EXCEPT !.pc = "issue", !.role = "seller"]
  <2>1. /\ e \in Emails /\ users[e].verified /\ UNCHANGED <<delivered, proof>>
    BY <1>1, <1>3, <1>13 DEF Promote, In, CallEarned, memberVars
  <2>2. ASSUME WriteSeller(c) PROVE RowsOK /\ users'[e].type = "seller"
    <3>1. /\ \A d \in Emails : /\ users'[d].verified = users[d].verified
                               /\ users'[d].code = users[d].code
                               /\ d # e => users'[d].type = users[d].type
          /\ users'[e].type = "seller"
      BY <1>1, <2>1, <2>2 DEF WriteSeller, UsersOK, UserRow
    <3>2. QED BY <1>1, <2>1, <3>1 DEF RowsOK, RowsGrow, RowsEarned
  <2>3. CASE WriteSeller(c) /\ call' = [call EXCEPT ![c].pc = "issue", ![c].role = "seller"]
    <3>1. rec.pc = "issue" /\ rec.email = e BY <1>1 DEF CallsOK, CallRec
    <3>2. call' = [call EXCEPT ![c] = rec] BY <1>1, <2>3 DEF CallsOK
    <3>3. call'[c] = rec => CallEarned(c)' BY <2>2, <2>3, <3>1 DEF CallEarned
    <3>4. QED BY <1>1, <1>2, <2>2, <2>3, <3>2, <3>3, EarnedOneMoves
  <2>4. CASE (UNCHANGED users \/ WriteSeller(c)) /\ Reply(c)
    BY <1>1, <1>2, <2>1, <2>2, <2>4, EarnedCalls
  <2>5. QED BY <1>13, <2>3, <2>4 DEF Promote
<1>14. ASSUME NEW e \in Emails, CodeLapses(e)
       PROVE  RowsOK /\ \A d \in Calls : CallEarned(d)'
  <2>1. \A d \in Emails : /\ users'[d].type = users[d].type
                          /\ users'[d].verified = users[d].verified
                          /\ users'[d].code = users[d].code
    BY <1>1, <1>14 DEF CodeLapses, UsersOK, UserRow
  <2>2. RowsOK
    BY <1>1, <1>14, <2>1 DEF CodeLapses, memberVars, RowsOK, RowsGrow, RowsEarned
  <2>3. QED BY <1>1, <1>2, <1>14, <2>2, EarnedCalls DEF CodeLapses
<1>15. QED
  BY <1>4, <1>5, <1>6, <1>9, <1>10, <1>11, <1>12, <1>13, <1>14 DEF MemberStep

LEMMA EarnedStep ==
    ASSUME AccountTyped, EarnedInv, [Next]_vars
    PROVE  EarnedInv'
<1>1. CallsOK /\ RowsEarned /\ \A c \in Calls : CallEarned(c)
  BY TypedParts, EarnedParts
<1>2. RowsOK /\ \A c \in Calls : CallEarned(c)'
  <2>1. CASE Crash
    <3>1. RowsOK BY <1>1, <2>1, SameRows DEF Crash, memberVars
    <3>2. \A c \in Calls : CallEarned(c)' BY <2>1 DEF Crash, CallEarned, IdleCall
    <3>3. QED BY <3>1, <3>2
  <2>2. CASE UNCHANGED vars
    BY <1>1, <2>2, SameRows, EarnedCalls DEF vars, memberVars, RowsOK
  <2>3. QED BY <2>1, <2>2, EarnedSession, EarnedMember DEF Next
<1>3. PairsEarned' BY <1>2, NextShape, PairsKept DEF RowsOK
<1>4. (EarnedInv <=> PairsEarned /\ RowsEarned /\ \A c \in Calls : CallEarned(c))'
  BY EarnedParts, PTL
<1>5. QED BY <1>2, <1>3, <1>4 DEF RowsOK

(* A pair that says "seller" belongs to a verified seller, and a person is *)
(* verified only with a code that was sent to that person, whatever fails  *)
(* between sending it, saving it and checking it.                          *)
THEOREM RolesEarned == Spec => []RolesAreEarned
<1>1. Init => EarnedInv
  BY DEF Init, SessionsInit, AccountsInit, EarnedInv, RolesAreEarned, NoToken, NoUser, IdleCall
<1>2. AccountTyped /\ EarnedInv /\ [Next]_vars => EarnedInv' BY EarnedStep
<1>3. EarnedInv => RolesAreEarned BY DEF EarnedInv
<1>4. QED BY <1>1, <1>2, <1>3, Typed, PTL DEF Spec

(***************************************************************************)
(* The address book, for any number of people, requests, addresses,        *)
(* crashes and failures.  A request that still knows its flags to be clear *)
(* faces a user without a default; a request that writes a row writes one  *)
(* of its own user.  The proof names what each kind of step does to the    *)
(* requests, to the rows and to the history, and then takes the parts of   *)
(* the inductive invariant one by one.                                     *)
(***************************************************************************)

(* What the local variables of a request have to do with each other. *)
FormSound(c) ==
    /\ form[c].pc # "idle" => form[c].user \in People
    /\ form[c].pc = "unset" => form[c].default
    /\ form[c].pc = "delete" => form[c].target # 0 /\ ~ form[c].default
    /\ form[c].cleared => form[c].pc = "write" /\ form[c].default
FormsSound == \A c \in Forms : FormSound(c)

(* A request that has a target has one of its own user. *)
TargetOwned(c) ==
    form[c].target # 0 =>
        /\ addresses[form[c].target].state # "unused"
        /\ addresses[form[c].target].user = form[c].user
TargetsOwned == \A c \in Forms : TargetOwned(c)

(* As long as a request knows the flags to be clear, they are. *)
ClearIsClear == \A c \in Forms : form[c].cleared => Defaults(form[c].user) = {}

AddressInv ==
    /\ AddressesTypeOK /\ FormsSound /\ TargetsOwned
    /\ ClearIsClear /\ OneDefaultUnlessContested /\ ChosenStands

(***************************************************************************)
(* Types                                                                   *)
(***************************************************************************)

(* One request moves. *)
LEMMA OneForm ==
    ASSUME form \in [Forms -> Form], NEW c \in Forms, NEW rec \in Form,
           form' = [form EXCEPT ![c] = rec]
    PROVE  /\ form' \in [Forms -> Form]
           /\ form'[c] = rec
           /\ \A d \in Forms : d # c => form'[d] = form[d]
OBVIOUS

LEMMA IdleFormIsForm == IdleForm \in Form BY DEF IdleForm, Form

(* What AddAddress and UpdateAddress do. *)
Begun(c) ==
    /\ form[c].pc = "idle"
    /\ form' \in [Forms -> Form]
    /\ form'[c].pc = IF form'[c].default THEN "unset" ELSE "write"
    /\ form'[c].user \in People /\ form'[c].cleared = FALSE
    /\ form'[c].target # 0 => MayEdit(form'[c].user, form'[c].target)
    /\ \A d \in Forms : d # c => form'[d] = form[d]
    /\ UNCHANGED <<addresses, contested, chosen, faults>>

LEMMA Submitted ==
    ASSUME form \in [Forms -> Form], NEW c \in Forms, NEW u \in People,
           NEW a \in AddressIds \cup {0}, NEW default \in BOOLEAN,
           form[c].pc = "idle", Submit(c, u, a, default), a # 0 => MayEdit(u, a),
           UNCHANGED <<addresses, contested, chosen, faults>>
    PROVE  Begun(c)
<1> DEFINE rec == [IdleForm EXCEPT !.pc = IF default THEN "unset" ELSE "write",
                         !.user = u, !.target = a, !.default = default]
<1>1. /\ rec \in Form
      /\ rec.pc = IF rec.default THEN "unset" ELSE "write"
      /\ rec.user = u /\ rec.target = a /\ rec.cleared = FALSE
  BY DEF IdleForm, Form
<1>2. form' = [form EXCEPT ![c] = rec] BY DEF Submit
<1> HIDE DEF rec
<1>3. QED BY <1>1, <1>2, OneForm DEF Begun

LEMMA Beginnings ==
    ASSUME form \in [Forms -> Form], NEW c \in Forms
    PROVE  /\ \A u \in People, default \in BOOLEAN : AddAddress(c, u, default) => Begun(c)
           /\ \A u \in People, a \in AddressIds, default \in BOOLEAN :
                 UpdateAddress(c, u, a, default) => Begun(c)
BY Submitted DEF AddAddress, UpdateAddress, At

(* The kinds of steps there are. *)
LEMMA StepKinds ==
    ASSUME form \in [Forms -> Form], [AddressesNext]_addressVars
    PROVE  \/ \E c \in Forms : Begun(c)
           \/ \E c \in Forms, u \in People, a \in AddressIds : DeleteAddress(c, u, a)
           \/ \E c \in Forms : UnsetDefault(c) \/ Save(c) \/ Delete(c)
           \/ CrashForms
           \/ UNCHANGED addressVars
BY Beginnings DEF AddressesNext

(* What DeleteAddress does first. *)
LEMMA AskedToDelete ==
    ASSUME form \in [Forms -> Form], NEW c \in Forms, NEW u \in People,
           NEW a \in AddressIds, DeleteAddress(c, u, a)
    PROVE  /\ form' \in [Forms -> Form]
           /\ form'[c].pc = "delete" /\ form'[c].user = u /\ form'[c].target = a
           /\ form'[c].default = FALSE /\ form'[c].cleared = FALSE
           /\ \A d \in Forms : d # c => form'[d] = form[d]
<1> DEFINE rec == [IdleForm EXCEPT !.pc = "delete", !.user = u, !.target = a]
<1>1. /\ rec \in Form
      /\ rec.pc = "delete" /\ rec.user = u /\ rec.target = a
      /\ rec.default = FALSE /\ rec.cleared = FALSE
  BY DEF IdleForm, Form
<1>2. form' = [form EXCEPT ![c] = rec] BY DEF DeleteAddress
<1> HIDE DEF rec
<1>3. QED BY <1>1, <1>2, OneForm

(* What UnsetDefault does to its request. *)
LEMMA Unset ==
    ASSUME form \in [Forms -> Form], NEW c \in Forms, UnsetDefault(c)
    PROVE  /\ form' \in [Forms -> Form]
           /\ form'[c].pc = "write" /\ form'[c].user = form[c].user
           /\ form'[c].target = form[c].target /\ form'[c].default = form[c].default
           /\ form'[c].cleared = TRUE \/ form'[c].cleared = form[c].cleared
           /\ form'[c].cleared # form[c].cleared =>
                  ClearFlags(c) /\ contested' = [contested EXCEPT ![form[c].user] = FALSE]
           /\ form'[c].cleared = form[c].cleared =>
                  \/ UNCHANGED contested
                  \/ ClearFlags(c) /\ contested' = [contested EXCEPT ![form[c].user] = FALSE]
           /\ UNCHANGED addresses \/ ClearFlags(c)
           /\ \A d \in Forms : d # c => form'[d] = form[d]
<1> DEFINE yes == [form[c] EXCEPT !.pc = "write", !.cleared = TRUE]
           no == [form[c] EXCEPT !.pc = "write"]
<1>1. /\ yes \in Form /\ yes.pc = "write" /\ yes.user = form[c].user
      /\ yes.target = form[c].target /\ yes.default = form[c].default /\ yes.cleared = TRUE
      /\ no \in Form /\ no.pc = "write" /\ no.user = form[c].user
      /\ no.target = form[c].target /\ no.default = form[c].default
      /\ no.cleared = form[c].cleared
  BY DEF Form
<1>2. \/ /\ form' = [form EXCEPT ![c] = yes] /\ ClearFlags(c)
         /\ contested' = [contested EXCEPT ![form[c].user] = FALSE]
      \/ /\ form' = [form EXCEPT ![c] = no] /\ UNCHANGED contested
         /\ UNCHANGED addresses \/ ClearFlags(c)
  BY DEF UnsetDefault
<1> HIDE DEF yes, no
<1>3. QED BY <1>1, <1>2, OneForm

(* What the end of a request does to the requests. *)
LEMMA Answered ==
    ASSUME form \in [Forms -> Form], NEW c \in Forms, Answer(c)
    PROVE  /\ form' \in [Forms -> Form]
           /\ form'[c] = IdleForm
           /\ \A d \in Forms : d # c => form'[d] = form[d]
BY IdleFormIsForm, OneForm DEF Answer

LEMMA DefaultWrittenForms ==
    ASSUME form \in [Forms -> Form], NEW c \in Forms, DefaultWritten(c)
    PROVE  /\ form' \in [Forms -> Form]
           /\ form'[c] = IdleForm
           /\ \A d \in Forms : d # c =>
                 /\ form'[d].pc = form[d].pc /\ form'[d].user = form[d].user
                 /\ form'[d].target = form[d].target /\ form'[d].default = form[d].default
                 /\ form'[d].cleared => form[d].cleared /\ form[d].user # form[c].user
<1> DEFINE less(d) == [form[d] EXCEPT !.cleared = FALSE]
<1>1. ASSUME NEW d \in Forms
      PROVE  /\ less(d) \in Form /\ less(d).cleared = FALSE
             /\ less(d).pc = form[d].pc /\ less(d).user = form[d].user
             /\ less(d).target = form[d].target /\ less(d).default = form[d].default
  BY DEF Form
<1>2. form' = [d \in Forms |->
                   IF d = c THEN IdleForm
                   ELSE IF form[d].user = form[c].user THEN less(d) ELSE form[d]]
  BY DEF DefaultWritten
<1> HIDE DEF less
<1>3. QED BY <1>1, <1>2, IdleFormIsForm

(* What the statements do to the rows. *)
LEMMA FlagsCleared ==
    ASSUME addresses \in [AddressIds -> Address], NEW c \in Forms, ClearFlags(c)
    PROVE  /\ addresses' \in [AddressIds -> Address]
           /\ \A a \in AddressIds :
                 /\ addresses'[a].state = addresses[a].state
                 /\ addresses'[a].user = addresses[a].user
                 /\ addresses'[a] # addresses[a] => a \in Defaults(form[c].user)
                 /\ addresses'[a].default =
                        (addresses[a].default /\ a \notin Defaults(form[c].user))
<1> DEFINE off(a) == [addresses[a] EXCEPT !.default = FALSE]
<1>1. ASSUME NEW a \in AddressIds
      PROVE  /\ off(a) \in Address /\ off(a).state = addresses[a].state
             /\ off(a).user = addresses[a].user /\ off(a).default = FALSE
             /\ addresses[a] \in Address /\ addresses[a].default \in BOOLEAN
  BY DEF Address
<1>2. addresses' = [a \in AddressIds |->
        IF a \in Defaults(form[c].user) THEN off(a) ELSE addresses[a]]
  BY DEF ClearFlags
<1>3. addresses' \in [AddressIds -> Address] BY <1>1, <1>2
<1>4. ASSUME NEW a \in AddressIds
      PROVE  addresses'[a] = IF a \in Defaults(form[c].user) THEN off(a) ELSE addresses[a]
  BY <1>2
<1>5. \A u, a : a \in Defaults(u) => addresses[a].default BY DEF Defaults
<1> HIDE DEF off
<1>6. QED BY <1>1, <1>3, <1>4, <1>5

LEMMA Written ==
    ASSUME AddressesTypeOK, FormsSound, NEW c \in Forms, form[c].pc = "write", Write(c)
    PROVE  /\ addresses' \in [AddressIds -> Address]
           /\ \E a \in AddressIds :
                 /\ addresses'[a].state = "live"
                 /\ addresses'[a].default = form[c].default
                 /\ form[c].target = 0 =>
                        addresses[a].state = "unused" /\ addresses'[a].user = form[c].user
                 /\ form[c].target # 0 =>
                        /\ a = form[c].target /\ addresses[a].state = "live"
                        /\ addresses'[a].user = addresses[a].user
                 /\ \A b \in AddressIds : b # a => addresses'[b] = addresses[b]
<1>1. /\ addresses \in [AddressIds -> Address] /\ form[c] \in Form
      /\ form[c].user \in People /\ form[c].default \in BOOLEAN
      /\ form[c].target \in AddressIds \cup {0}
  BY DEF AddressesTypeOK, FormsSound, FormSound, Form
<1>2. CASE form[c].target = 0
  <2> DEFINE row == [state |-> "live", user |-> form[c].user, default |-> form[c].default]
  <2>1. /\ row \in Address /\ row.state = "live"
        /\ row.user = form[c].user /\ row.default = form[c].default
    BY <1>1 DEF Address
  <2>2. PICK a \in AddressIds : NextAddress(a) /\ addresses' = [addresses EXCEPT ![a] = row]
    BY <1>2 DEF Write, NextAddress
  <2> HIDE DEF row
  <2>3. addresses[a].state = "unused" BY <2>2 DEF NextAddress
  <2>4. QED BY <1>1, <1>2, <2>1, <2>2, <2>3
<1>3. CASE form[c].target # 0
  <2> DEFINE a == form[c].target
             row == [addresses[a] EXCEPT !.default = form[c].default]
  <2>1. a \in AddressIds BY <1>1, <1>3
  <2>2. /\ row \in Address /\ row.state = addresses[a].state
        /\ row.user = addresses[a].user /\ row.default = form[c].default
    BY <1>1, <2>1 DEF Address
  <2>3. Live(a) /\ addresses' = [addresses EXCEPT ![a] = row]
    BY <1>3 DEF Write
  <2> HIDE DEF row
  <2>4. QED BY <1>1, <1>3, <2>1, <2>2, <2>3 DEF Live
<1>4. QED BY <1>2, <1>3

LEMMA Deleted ==
    ASSUME AddressesTypeOK, FormsSound, NEW c \in Forms, Delete(c)
    PROVE  /\ addresses' \in [AddressIds -> Address]
           /\ form[c].target \in AddressIds
           /\ addresses'[form[c].target].state = "deleted"
           /\ addresses'[form[c].target].user = addresses[form[c].target].user
           /\ addresses'[form[c].target].default = addresses[form[c].target].default
           /\ \A b \in AddressIds : b # form[c].target => addresses'[b] = addresses[b]
<1> DEFINE a == form[c].target
           row == [addresses[a] EXCEPT !.state = "deleted"]
<1>1. addresses \in [AddressIds -> Address] /\ a \in AddressIds
  BY DEF Delete, At, AddressesTypeOK, FormsSound, FormSound, Form
<1>2. /\ row \in Address /\ row.state = "deleted"
      /\ row.user = addresses[a].user /\ row.default = addresses[a].default
  BY <1>1 DEF Address
<1>3. addresses' = [addresses EXCEPT ![a] = row] BY DEF Delete
<1> HIDE DEF row
<1>4. QED BY <1>1, <1>2, <1>3

(***************************************************************************)
(* The parts of the invariant, step by step                                *)
(***************************************************************************)

(* A request that does not move, or only forgets that its flags are clear. *)
LEMMA FormKept ==
    ASSUME NEW d \in Forms, FormSound(d),
           form'[d].pc = form[d].pc, form'[d].user = form[d].user,
           form'[d].target = form[d].target, form'[d].default = form[d].default,
           form'[d].cleared => form[d].cleared
    PROVE  FormSound(d)'
BY DEF FormSound

LEMMA FaultsKept ==
    ASSUME FaultsTypeOK
    PROVE  /\ NoFault => FaultsTypeOK'
           /\ \A kind : Fault(kind) => FaultsTypeOK'
BY FaultsAssumption DEF FaultsTypeOK, NoFault, Fault

(* The requests and the rows keep their types, and the local variables of  *)
(* a request what they have to do with each other.                         *)
LEMMA TypesKept ==
    ASSUME AddressesTypeOK, FormsSound, [AddressesNext]_addressVars
    PROVE  AddressesTypeOK' /\ FormsSound'
<1>1. /\ form \in [Forms -> Form] /\ addresses \in [AddressIds -> Address]
      /\ contested \in [People -> BOOLEAN] /\ chosen \in [People -> BOOLEAN]
      /\ FaultsTypeOK /\ \A d \in Forms : FormSound(d)
  BY DEF AddressesTypeOK, FormsSound
<1>2. ASSUME NEW c \in Forms, form'[c] = IdleForm PROVE FormSound(c)'
  BY <1>2 DEF FormSound, IdleForm
<1>3. ASSUME NEW c \in Forms, Begun(c)
      PROVE  AddressesTypeOK' /\ FormsSound'
  <2>1. FormSound(c)' BY <1>3 DEF Begun, FormSound
  <2>2. \A d \in Forms : d # c => FormSound(d)' BY <1>1, <1>3, FormKept DEF Begun
  <2>3. QED BY <1>1, <1>3, <2>1, <2>2 DEF Begun, AddressesTypeOK, FormsSound, FaultsTypeOK
<1>4. ASSUME NEW c \in Forms, NEW u \in People, NEW a \in AddressIds, DeleteAddress(c, u, a)
      PROVE  AddressesTypeOK' /\ FormsSound'
  <2>1. a # 0 BY DEF AddressIds
  <2>2. FormSound(c)' BY <1>1, <1>4, <2>1, AskedToDelete DEF FormSound
  <2>3. \A d \in Forms : d # c => FormSound(d)' BY <1>1, <1>4, AskedToDelete, FormKept
  <2>4. form' \in [Forms -> Form] BY <1>1, <1>4, AskedToDelete
  <2>5. UNCHANGED <<addresses, contested, chosen, faults>> BY <1>4 DEF DeleteAddress
  <2>6. QED BY <1>1, <2>2, <2>3, <2>4, <2>5 DEF AddressesTypeOK, FormsSound, FaultsTypeOK
<1>5. ASSUME NEW c \in Forms, UnsetDefault(c) PROVE AddressesTypeOK' /\ FormsSound'
  <2>1. form[c].pc = "unset" /\ form[c].default BY <1>1, <1>5 DEF UnsetDefault, At, FormSound
  <2>2. FormSound(c)' BY <1>1, <1>5, <2>1, Unset DEF FormSound
  <2>3. \A d \in Forms : d # c => FormSound(d)' BY <1>1, <1>5, Unset, FormKept
  <2>4. addresses' \in [AddressIds -> Address] BY <1>1, <1>5, Unset, FlagsCleared
  <2>5. contested' \in [People -> BOOLEAN] BY <1>1, <1>5 DEF UnsetDefault
  <2>6. UNCHANGED chosen /\ FaultsTypeOK' BY <1>1, <1>5, FaultsKept DEF UnsetDefault
  <2>7. form' \in [Forms -> Form] BY <1>1, <1>5, Unset
  <2>8. QED BY <1>1, <2>2, <2>3, <2>4, <2>5, <2>6, <2>7 DEF AddressesTypeOK, FormsSound
<1>6. ASSUME NEW c \in Forms, Save(c) PROVE AddressesTypeOK' /\ FormsSound'
  <2>1. form[c].pc = "write" BY <1>6 DEF Save, At
  <2>2. addresses' \in [AddressIds -> Address]
    BY <1>1, <1>6, <2>1, Written DEF Save
  <2>3. Answer(c) \/ DefaultWritten(c) BY <1>6 DEF Save
  <2>4. FormSound(c)' BY <1>1, <1>2, <2>3, Answered, DefaultWrittenForms
  <2>5. \A d \in Forms : d # c => FormSound(d)'
    BY <1>1, <2>3, Answered, DefaultWrittenForms, FormKept
  <2>6. form' \in [Forms -> Form] BY <1>1, <2>3, Answered, DefaultWrittenForms
  <2>7. contested' \in [People -> BOOLEAN] BY <1>1, <1>6 DEF Save, DefaultWritten
  <2>8. \E yes \in BOOLEAN : Chosen(form[c].user, yes)
    <3>1. /\ form[c].default \in BOOLEAN
          /\ (form[c].default \/ (chosen[form[c].user] /\ ~ IsDefault(form[c].target))) \in BOOLEAN
          /\ (chosen[form[c].user] /\ ~ form[c].default) \in BOOLEAN
      BY <1>1 DEF Form
    <3>2. QED BY <1>6, <3>1 DEF Save
  <2>9. chosen' \in [People -> BOOLEAN] BY <1>1, <2>8 DEF Chosen
  <2>10. FaultsTypeOK' BY <1>1, <1>6, FaultsKept DEF Save
  <2>11. QED BY <2>2, <2>4, <2>5, <2>6, <2>7, <2>9, <2>10 DEF AddressesTypeOK, FormsSound
<1>7. ASSUME NEW c \in Forms, Delete(c) PROVE AddressesTypeOK' /\ FormsSound'
  <2>1. Answer(c) BY <1>7 DEF Delete
  <2>2. addresses' \in [AddressIds -> Address] BY <1>7, Deleted
  <2>3. FormSound(c)' BY <1>1, <1>2, <2>1, Answered
  <2>4. \A d \in Forms : d # c => FormSound(d)' BY <1>1, <2>1, Answered, FormKept
  <2>5. form' \in [Forms -> Form] BY <1>1, <2>1, Answered
  <2>6. chosen' \in [People -> BOOLEAN] BY <1>1, <1>7 DEF Delete, Chosen
  <2>7. UNCHANGED contested /\ UNCHANGED faults BY <1>7 DEF Delete
  <2>8. QED BY <1>1, <2>2, <2>3, <2>4, <2>5, <2>6, <2>7 DEF AddressesTypeOK, FormsSound, FaultsTypeOK
<1>8. CASE CrashForms
  <2>1. \A c \in Forms : form'[c] = IdleForm BY <1>8 DEF CrashForms
  <2>2. form' \in [Forms -> Form] BY <1>8, IdleFormIsForm DEF CrashForms
  <2>3. chosen' \in [People -> BOOLEAN] BY <1>1, <1>8 DEF CrashForms
  <2>4. FaultsTypeOK' BY <1>1, <1>8, FaultsKept DEF CrashForms
  <2>5. QED BY <1>1, <1>2, <1>8, <2>1, <2>2, <2>3, <2>4 DEF CrashForms, AddressesTypeOK, FormsSound
<1>9. CASE UNCHANGED addressVars
  BY <1>9 DEF addressVars, AddressesTypeOK, FormsSound, FormSound, FaultsTypeOK, At
<1>10. QED
  BY <1>1, <1>3, <1>4, <1>5, <1>6, <1>7, <1>8, <1>9, StepKinds

(* A row that changes is a live one, of the user whose request moves. *)
OwnRow(a, c) ==
    /\ addresses[a].state = "live"
    /\ addresses'[a].user = addresses[a].user
    /\ addresses'[a].state \in {"live", "deleted"}
    /\ form[c].user = addresses[a].user /\ form'[c] # form[c]
OwnRows ==
    \A a \in AddressIds :
        (addresses[a].state # "unused" /\ addresses'[a] # addresses[a]) =>
            \E c \in Forms : OwnRow(a, c)

LEMMA RowsOwned ==
    ASSUME AddressesTypeOK, FormsSound, TargetsOwned, [AddressesNext]_addressVars
    PROVE  OwnRows
<1>1. /\ form \in [Forms -> Form] /\ addresses \in [AddressIds -> Address]
      /\ \A d \in Forms : FormSound(d) /\ TargetOwned(d)
      /\ \A d \in Forms : form[d].target \in AddressIds \cup {0}
  BY DEF AddressesTypeOK, FormsSound, TargetsOwned, Form
<1>2. CASE UNCHANGED addresses BY <1>2 DEF OwnRows
<1>3. ASSUME NEW c \in Forms, UnsetDefault(c), ClearFlags(c) PROVE OwnRows
  <2>1. form'[c] # form[c] BY <1>1, <1>3, Unset DEF UnsetDefault, At
  <2>2. ASSUME NEW a \in AddressIds, addresses'[a] # addresses[a] PROVE OwnRow(a, c)
    BY <1>1, <1>3, <2>1, <2>2, FlagsCleared DEF OwnRow, Defaults, BookOf, Live
  <2>3. QED BY <2>2 DEF OwnRows
<1>4. ASSUME NEW c \in Forms, Save(c), Write(c) PROVE OwnRows
  <2>1. form[c].pc = "write" /\ (Answer(c) \/ DefaultWritten(c)) BY <1>4 DEF Save, At
  <2>2. form'[c] # form[c]
    BY <1>1, <2>1, Answered, DefaultWrittenForms DEF IdleForm
  <2>3. PICK b \in AddressIds :
           /\ addresses'[b].state = "live"
           /\ form[c].target = 0 => addresses[b].state = "unused"
           /\ form[c].target # 0 =>
                  /\ b = form[c].target /\ addresses[b].state = "live"
                  /\ addresses'[b].user = addresses[b].user
           /\ \A a \in AddressIds : a # b => addresses'[a] = addresses[a]
    BY <1>4, <2>1, Written
  <2>4. ASSUME NEW a \in AddressIds, addresses[a].state # "unused", addresses'[a] # addresses[a]
        PROVE  OwnRow(a, c)
    <3>1. a = b /\ form[c].target = a /\ form[c].target # 0 BY <2>3, <2>4
    <3>2. form[c].user = addresses[a].user BY <1>1, <3>1 DEF TargetOwned
    <3>3. QED BY <2>2, <2>3, <3>1, <3>2 DEF OwnRow
  <2>5. QED BY <2>4 DEF OwnRows
<1>5. ASSUME NEW c \in Forms, Delete(c) PROVE OwnRows
  <2>1. form[c].pc = "delete" /\ Answer(c) BY <1>5 DEF Delete, At
  <2>2. form'[c] # form[c] BY <1>1, <2>1, Answered DEF IdleForm
  <2>3. ASSUME NEW a \in AddressIds, addresses[a].state # "unused", addresses'[a] # addresses[a]
        PROVE  OwnRow(a, c)
    <3>1. a = form[c].target /\ a # 0 BY <1>1, <1>5, <2>1, <2>3, Deleted DEF FormSound
    <3>2. form[c].user = addresses[a].user BY <1>1, <3>1 DEF TargetOwned
    <3>3. addresses[a].state = "live"
      <4>1. addresses[a].state = "deleted" => [addresses[a] EXCEPT !.state = "deleted"] = addresses[a]
        BY <1>1 DEF Address
      <4>2. addresses'[a] = [addresses[a] EXCEPT !.state = "deleted"] BY <1>1, <1>5, <3>1 DEF Delete
      <4>3. addresses[a].state \in {"unused", "live", "deleted"} BY <1>1 DEF Address
      <4>4. QED BY <2>3, <4>1, <4>2, <4>3
    <3>4. addresses'[a].state = "deleted" /\ addresses'[a].user = addresses[a].user
      BY <1>5, <3>1, Deleted
    <3>5. QED BY <2>2, <3>2, <3>3, <3>4 DEF OwnRow
  <2>4. QED BY <2>3 DEF OwnRows
<1>6. ASSUME NEW c \in Forms, Begun(c) PROVE OwnRows BY <1>2, <1>6 DEF Begun
<1>7. ASSUME NEW c \in Forms, NEW u \in People, NEW a \in AddressIds, DeleteAddress(c, u, a)
      PROVE  OwnRows
  BY <1>2, <1>7 DEF DeleteAddress
<1>8. CASE CrashForms BY <1>2, <1>8 DEF CrashForms
<1>9. CASE UNCHANGED addressVars BY <1>2, <1>9 DEF addressVars
<1>10. \A c \in Forms : UnsetDefault(c) => UNCHANGED addresses \/ ClearFlags(c)
  BY DEF UnsetDefault
<1>11. \A c \in Forms : Save(c) => UNCHANGED addresses \/ Write(c)
  BY DEF Save
<1>12. QED
  BY <1>1, <1>2, <1>3, <1>4, <1>5, <1>6, <1>7, <1>8, <1>9, <1>10, <1>11, StepKinds

(* What every step does to the requests. *)
FormContinues(d) ==
    /\ form'[d].target = form[d].target /\ form'[d].user = form[d].user

Aimed(d) ==
    \/ FormContinues(d)
    \/ form'[d] = IdleForm
    \/ form'[d].target # 0 => MayEdit(form'[d].user, form'[d].target)

LEMMA FormSteps ==
    ASSUME AddressesTypeOK, FormsSound, [AddressesNext]_addressVars
    PROVE  \A d \in Forms : Aimed(d)
<1>1. form \in [Forms -> Form] BY DEF AddressesTypeOK
<1>2. ASSUME NEW d \in Forms, form'[d] = form[d] PROVE Aimed(d) BY <1>2 DEF Aimed, FormContinues
<1>3. ASSUME NEW c \in Forms, Begun(c) PROVE \A d \in Forms : Aimed(d)
  BY <1>2, <1>3 DEF Aimed, Begun
<1>4. ASSUME NEW c \in Forms, NEW u \in People, NEW a \in AddressIds, DeleteAddress(c, u, a)
      PROVE  \A d \in Forms : Aimed(d)
  <2>1. form'[c].user = u /\ form'[c].target = a BY <1>1, <1>4, AskedToDelete
  <2>2. MayEdit(u, a) BY <1>4 DEF DeleteAddress
  <2>3. QED BY <1>1, <1>2, <1>4, <2>1, <2>2, AskedToDelete DEF Aimed
<1>5. ASSUME NEW c \in Forms, UnsetDefault(c) PROVE \A d \in Forms : Aimed(d)
  BY <1>1, <1>2, <1>5, Unset DEF Aimed, FormContinues
<1>6. ASSUME NEW c \in Forms, Answer(c) \/ DefaultWritten(c) PROVE \A d \in Forms : Aimed(d)
  BY <1>1, <1>2, <1>6, Answered, DefaultWrittenForms DEF Aimed, FormContinues
<1>7. CASE CrashForms BY <1>7 DEF Aimed, CrashForms
<1>8. CASE UNCHANGED addressVars BY <1>2, <1>8 DEF addressVars
<1>9. \A c \in Forms : Save(c) \/ Delete(c) => Answer(c) \/ DefaultWritten(c)
  BY DEF Save, Delete
<1>10. QED
  BY <1>1, <1>3, <1>4, <1>5, <1>6, <1>7, <1>8, <1>9, StepKinds

LEMMA TargetsKept ==
    ASSUME AddressesTypeOK, FormsSound, TargetsOwned, [AddressesNext]_addressVars
    PROVE  TargetsOwned'
<1>1. /\ OwnRows /\ addresses \in [AddressIds -> Address]
      /\ addresses' \in [AddressIds -> Address]
      /\ \A d \in Forms : form'[d].target \in AddressIds \cup {0}
  BY RowsOwned, TypesKept DEF AddressesTypeOK, Form
<1>2. ASSUME NEW a \in AddressIds, addresses[a].state # "unused"
      PROVE  addresses'[a].state # "unused" /\ addresses'[a].user = addresses[a].user
  BY <1>1, <1>2 DEF OwnRows, OwnRow
<1>3. ASSUME NEW d \in Forms PROVE TargetOwned(d)'
  <2>1. CASE FormContinues(d)
    BY <1>1, <1>2, <2>1 DEF TargetsOwned, TargetOwned, FormContinues
  <2>2. CASE form'[d] = IdleForm BY <2>2 DEF TargetOwned, IdleForm
  <2>3. CASE form'[d].target # 0 => MayEdit(form'[d].user, form'[d].target)
    BY <1>1, <1>2, <2>3 DEF TargetOwned, MayEdit, Live
  <2>4. QED BY <2>1, <2>2, <2>3, FormSteps DEF Aimed
<1>4. QED BY <1>3 DEF TargetsOwned

(***************************************************************************)
(* Defaults                                                                *)
(***************************************************************************)
Sound == AddressesTypeOK /\ FormsSound /\ TargetsOwned

(* The request that sets a default adds one address to its user's defaults. *)
SetsDefault(c) == Save(c) /\ Write(c) /\ DefaultWritten(c) /\ form[c].default
NoneNew == \A u \in People : (Defaults(u))' \subseteq Defaults(u)

LEMMA DefaultSet ==
    ASSUME Sound, NEW c \in Forms, SetsDefault(c)
    PROVE  \E a \in AddressIds :
              \A u \in People :
                  /\ u = form[c].user => a \in (Defaults(u))'
                  /\ u # form[c].user => (Defaults(u))' = Defaults(u)
                  /\ (Defaults(u))' \subseteq Defaults(u) \cup (IF u = form[c].user THEN {a} ELSE {})
<1>1. form[c].pc = "write" BY DEF SetsDefault, Save, At
<1>2. PICK a \in AddressIds :
         /\ addresses'[a].state = "live" /\ addresses'[a].default
         /\ form[c].target = 0 =>
                addresses[a].state = "unused" /\ addresses'[a].user = form[c].user
         /\ form[c].target # 0 => a = form[c].target /\ addresses'[a].user = addresses[a].user
         /\ \A b \in AddressIds : b # a => addresses'[b] = addresses[b]
  BY <1>1, Written DEF SetsDefault, Sound
<1>3. addresses'[a].user = form[c].user BY <1>2 DEF Sound, TargetsOwned, TargetOwned
<1>4. \A u \in People : u = form[c].user => a \in (Defaults(u))'
  BY <1>2, <1>3 DEF Defaults, BookOf, Live
<1>5. ASSUME NEW u \in People, NEW b \in (Defaults(u))', b \notin Defaults(u)
      PROVE  b = a /\ u = form[c].user
  BY <1>2, <1>3, <1>5 DEF Defaults, BookOf, Live
<1>6. ASSUME NEW u \in People, u # form[c].user PROVE a \notin Defaults(u)
  <2>1. form[c].target = a => addresses[a].user = form[c].user
    BY <1>2 DEF Sound, TargetsOwned, TargetOwned, AddressIds
  <2>2. form[c].target = 0 => addresses[a].state = "unused" BY <1>2
  <2>3. QED BY <1>2, <1>6, <2>1, <2>2 DEF Defaults, BookOf, Live
<1>7. \A u \in People : \A b \in AddressIds : b # a => (b \in (Defaults(u))' <=> b \in Defaults(u))
  BY <1>2 DEF Defaults, BookOf, Live
<1>8. \A u \in People : Defaults(u) \subseteq AddressIds /\ (Defaults(u))' \subseteq AddressIds
  BY DEF Defaults, BookOf
<1>9. \A u \in People : u # form[c].user => (Defaults(u))' = Defaults(u)
  BY <1>5, <1>6, <1>7, <1>8
<1>10. QED BY <1>4, <1>5, <1>9

(* No other step adds one. *)
LEMMA RowsSame ==
    ASSUME UNCHANGED addresses
    PROVE  \A u \in People : (Defaults(u))' = Defaults(u)
BY DEF Defaults, BookOf, Live

LEMMA Cleared ==
    ASSUME Sound, NEW c \in Forms, ClearFlags(c), form[c].user \in People
    PROVE  /\ NoneNew
           /\ \A u \in People :
                 (Defaults(u))' = IF u = form[c].user THEN {} ELSE Defaults(u)
<1>1. addresses \in [AddressIds -> Address] BY DEF Sound, AddressesTypeOK
<1>2. \A a \in AddressIds :
         /\ addresses'[a].state = addresses[a].state
         /\ addresses'[a].user = addresses[a].user
         /\ addresses'[a].default = (addresses[a].default /\ a \notin Defaults(form[c].user))
  BY <1>1, FlagsCleared
<1>3. \A u \in People : (Defaults(u))' = Defaults(u) \ Defaults(form[c].user)
  BY <1>2 DEF Defaults, BookOf, Live
<1>4. \A u \in People : u # form[c].user => Defaults(u) \cap Defaults(form[c].user) = {}
  BY DEF Defaults, BookOf
<1>5. QED BY <1>3, <1>4 DEF NoneNew

(* A row that is written without the flag leaves the other defaults alone. *)
LEMMA PlainWrite ==
    ASSUME Sound, NEW c \in Forms, form[c].pc = "write", Write(c), ~ form[c].default
    PROVE  /\ NoneNew
           /\ \A u \in People : u # form[c].user \/ ~ IsDefault(form[c].target) =>
                 (Defaults(u))' = Defaults(u)
<1>1. PICK a \in AddressIds :
         /\ addresses'[a].state = "live" /\ addresses'[a].default = form[c].default
         /\ form[c].target = 0 =>
                addresses[a].state = "unused" /\ addresses'[a].user = form[c].user
         /\ form[c].target # 0 =>
                /\ a = form[c].target /\ addresses[a].state = "live"
                /\ addresses'[a].user = addresses[a].user
         /\ \A b \in AddressIds : b # a => addresses'[b] = addresses[b]
  BY Written DEF Sound
<1>2. \A u \in People : a \notin (Defaults(u))' BY <1>1 DEF Defaults
<1>3. ASSUME NEW u \in People, a \in Defaults(u)
      PROVE  u = form[c].user /\ IsDefault(form[c].target)
  <2>1. addresses[a].state = "live" /\ addresses[a].user = u /\ addresses[a].default
    BY <1>3 DEF Defaults, BookOf, Live
  <2>2. form[c].target = a /\ a # 0 BY <1>1, <2>1
  <2>3. form[c].user = u BY <2>1, <2>2 DEF Sound, TargetsOwned, TargetOwned
  <2>4. QED BY <2>1, <2>2, <2>3 DEF IsDefault, Live
<1>4. \A u \in People : \A b \in AddressIds : b # a => (b \in (Defaults(u))' <=> b \in Defaults(u))
  BY <1>1 DEF Defaults, BookOf, Live
<1>5. \A u \in People : Defaults(u) \subseteq AddressIds /\ (Defaults(u))' \subseteq AddressIds
  BY DEF Defaults, BookOf
<1>6. QED BY <1>2, <1>3, <1>4, <1>5 DEF NoneNew

LEMMA DeletedRow ==
    ASSUME Sound, NEW c \in Forms, Delete(c)
    PROVE  /\ NoneNew
           /\ \A u \in People : u # form[c].user \/ ~ IsDefault(form[c].target) =>
                 (Defaults(u))' = Defaults(u)
<1> DEFINE a == form[c].target
<1>1. /\ a \in AddressIds /\ a # 0 /\ addresses'[a].state = "deleted"
      /\ addresses[a].user = form[c].user
      /\ \A b \in AddressIds : b # a => addresses'[b] = addresses[b]
  <2>1. form[c].pc = "delete" /\ FormSound(c) /\ TargetOwned(c)
    BY DEF Delete, At, Sound, FormsSound, TargetsOwned
  <2>2. QED BY <2>1, Deleted DEF Sound, FormSound, TargetOwned
<1>2. \A u \in People : a \notin (Defaults(u))' BY <1>1 DEF Defaults, BookOf, Live
<1>3. \A u \in People : a \in Defaults(u) => u = form[c].user /\ IsDefault(a)
  BY <1>1 DEF Defaults, BookOf, IsDefault
<1>4. \A u \in People : \A b \in AddressIds : b # a => (b \in (Defaults(u))' <=> b \in Defaults(u))
  BY <1>1 DEF Defaults, BookOf, Live
<1>5. \A u \in People : Defaults(u) \subseteq AddressIds /\ (Defaults(u))' \subseteq AddressIds
  BY DEF Defaults, BookOf
<1> HIDE DEF a
<1>6. QED BY <1>2, <1>3, <1>4, <1>5 DEF NoneNew, a

(* The three ways in which a request that writes ends. *)
Writes(c) ==
    /\ Write(c) /\ Answer(c) /\ ~ form[c].default /\ UNCHANGED contested
    /\ Chosen(form[c].user, chosen[form[c].user] /\ ~ IsDefault(form[c].target))
GivesUp(c) ==
    /\ Answer(c) /\ UNCHANGED <<addresses, contested>>
    /\ Chosen(form[c].user, chosen[form[c].user] /\ ~ form[c].default)

LEMMA Saves ==
    ASSUME Sound, NEW c \in Forms, Save(c)
    PROVE  /\ form[c].pc = "write" /\ form[c].user \in People
           /\ SetsDefault(c) \/ Writes(c) \/ GivesUp(c)
<1>1. form[c].pc = "write" /\ form[c].user \in People
  BY DEF Save, At, Sound, FormsSound, FormSound
<1>2. form[c].default \in BOOLEAN BY DEF Sound, AddressesTypeOK, Form
<1>3. CASE /\ Write(c)
           /\ IF form[c].default THEN DefaultWritten(c)
                                ELSE Answer(c) /\ UNCHANGED contested
           /\ Chosen(form[c].user, form[c].default \/ (chosen[form[c].user] /\ ~ IsDefault(form[c].target)))
  <2>1. CASE form[c].default BY <1>1, <1>3, <2>1 DEF SetsDefault
  <2>2. CASE ~ form[c].default
    <3>1. (form[c].default \/ (chosen[form[c].user] /\ ~ IsDefault(form[c].target)))
              = (chosen[form[c].user] /\ ~ IsDefault(form[c].target))
      BY <2>2
    <3>2. QED BY <1>1, <1>3, <2>2, <3>1 DEF Writes, Chosen
  <2>3. QED BY <2>1, <2>2
<1>4. CASE GivesUp(c) BY <1>1, <1>4
<1>5. QED BY <1>1, <1>3, <1>4 DEF Save, GivesUp

(* What every step does to the defaults, to the requests that know their   *)
(* flags to be clear, and to the history of contests.                      *)
Quiet ==
    /\ NoneNew /\ UNCHANGED contested
    /\ \A d \in Forms : form'[d].cleared => form[d].cleared /\ form'[d].user = form[d].user

LEMMA StepsQuiet ==
    ASSUME Sound, [AddressesNext]_addressVars
    PROVE  \/ Quiet
           \/ \E c \in Forms : SetsDefault(c)
           \/ \E c \in Forms : UnsetDefault(c) /\ ClearFlags(c)
<1>1. form \in [Forms -> Form] BY DEF Sound, AddressesTypeOK
<1>2. ASSUME NEW c \in Forms, Begun(c) PROVE Quiet
  BY <1>2, RowsSame DEF Begun, Quiet, NoneNew
<1>3. ASSUME NEW c \in Forms, NEW u \in People, NEW a \in AddressIds, DeleteAddress(c, u, a)
      PROVE  Quiet
  <2>1. UNCHANGED <<addresses, contested>> BY <1>3 DEF DeleteAddress
  <2>2. QED BY <1>1, <1>3, <2>1, RowsSame, AskedToDelete DEF Quiet, NoneNew
<1>4. ASSUME NEW c \in Forms, UnsetDefault(c), ~ ClearFlags(c) PROVE Quiet
  <2>1. UNCHANGED <<addresses, contested>> BY <1>4 DEF UnsetDefault
  <2>2. form'[c].cleared = form[c].cleared BY <1>1, <1>4, Unset
  <2>3. QED BY <1>1, <1>4, <2>1, <2>2, RowsSame, Unset DEF Quiet, NoneNew
<1>5. ASSUME NEW c \in Forms, Answer(c), NoneNew, UNCHANGED contested PROVE Quiet
  BY <1>1, <1>5, Answered DEF Quiet, IdleForm
<1>6. ASSUME NEW c \in Forms, Save(c) PROVE SetsDefault(c) \/ Quiet
  <2>1. CASE Writes(c)
    <3>1. NoneNew BY <1>6, <2>1, Saves, PlainWrite DEF Writes
    <3>2. QED BY <1>5, <2>1, <3>1 DEF Writes
  <2>2. CASE GivesUp(c)
    <3>1. NoneNew BY <2>2, RowsSame DEF GivesUp, NoneNew
    <3>2. QED BY <1>5, <2>2, <3>1 DEF GivesUp
  <2>3. QED BY <1>6, <2>1, <2>2, Saves
<1>7. ASSUME NEW c \in Forms, Delete(c) PROVE Quiet
  BY <1>5, <1>7, DeletedRow DEF Delete
<1>8. CASE CrashForms
  BY <1>8, RowsSame DEF CrashForms, Quiet, NoneNew, IdleForm
<1>9. CASE UNCHANGED addressVars
  BY <1>9, RowsSame DEF addressVars, Quiet, NoneNew
<1>10. QED BY <1>1, <1>2, <1>3, <1>4, <1>6, <1>7, <1>8, <1>9, StepKinds

LEMMA ClearStaysClear ==
    ASSUME Sound, ClearIsClear, OneDefaultUnlessContested, [AddressesNext]_addressVars
    PROVE  ClearIsClear' /\ OneDefaultUnlessContested'
<1>1. /\ form \in [Forms -> Form] /\ contested \in [People -> BOOLEAN]
      /\ \A d \in Forms : form[d].cleared => form[d].user \in People
  BY DEF Sound, AddressesTypeOK, FormsSound, FormSound
<1>2. CASE Quiet
  <2>1. ClearIsClear' BY <1>1, <1>2 DEF Quiet, NoneNew, ClearIsClear
  <2>2. OneDefaultUnlessContested' BY <1>2 DEF Quiet, NoneNew, OneDefaultUnlessContested
  <2>3. QED BY <2>1, <2>2
<1>3. ASSUME NEW c \in Forms, SetsDefault(c)
      PROVE  ClearIsClear' /\ OneDefaultUnlessContested'
  <2>1. PICK a \in AddressIds :
           \A u \in People :
              (Defaults(u))' \subseteq Defaults(u) \cup (IF u = form[c].user THEN {a} ELSE {})
    BY <1>3, DefaultSet
  <2>2. /\ form'[c] = IdleForm
        /\ \A d \in Forms : d # c =>
              /\ form'[d].user = form[d].user
              /\ form'[d].cleared => form[d].cleared /\ form[d].user # form[c].user
    BY <1>1, <1>3, DefaultWrittenForms DEF SetsDefault
  <2>3. ClearIsClear'
    <3>1. ASSUME NEW d \in Forms, form'[d].cleared
          PROVE  /\ form'[d].user = form[d].user /\ form[d].cleared
                 /\ form[d].user # form[c].user
      BY <2>2, <3>1 DEF IdleForm
    <3>2. ASSUME NEW u \in People, u # form[c].user, Defaults(u) = {}
          PROVE  (Defaults(u))' = {}
      BY <2>1, <3>2
    <3>3. QED BY <1>1, <3>1, <3>2 DEF ClearIsClear
  <2>4. ASSUME NEW u \in People, ~ contested'[u] PROVE \A b, d \in (Defaults(u))' : b = d
    <3>1. contested' = IF form[c].cleared THEN contested
                       ELSE [contested EXCEPT ![form[c].user] = TRUE]
      BY <1>3 DEF SetsDefault, DefaultWritten
    <3>2. ~ contested[u] BY <1>1, <2>4, <3>1
    <3>3. u = form[c].user => form[c].cleared BY <1>1, <2>4, <3>1
    <3>4. u = form[c].user => Defaults(u) = {} BY <3>3 DEF ClearIsClear
    <3>5. QED BY <2>1, <3>2, <3>4 DEF OneDefaultUnlessContested
  <2>5. QED BY <2>3, <2>4 DEF OneDefaultUnlessContested
<1>4. ASSUME NEW c \in Forms, UnsetDefault(c), ClearFlags(c)
      PROVE  ClearIsClear' /\ OneDefaultUnlessContested'
  <2>1. form[c].user \in People
    BY <1>4 DEF UnsetDefault, At, Sound, FormsSound, FormSound
  <2>2. \A u \in People : (Defaults(u))' = IF u = form[c].user THEN {} ELSE Defaults(u)
    BY <1>4, <2>1, Cleared
  <2>3. /\ form'[c].user = form[c].user
        /\ \A d \in Forms : d # c => form'[d] = form[d]
    BY <1>1, <1>4, Unset
  <2>4. ClearIsClear' BY <1>1, <2>1, <2>2, <2>3 DEF ClearIsClear
  <2>5. \A u \in People : u # form[c].user => contested'[u] = contested[u]
    BY <1>1, <1>4 DEF UnsetDefault
  <2>6. OneDefaultUnlessContested' BY <2>2, <2>5 DEF OneDefaultUnlessContested
  <2>7. QED BY <2>4, <2>6
<1>5. QED BY <1>2, <1>3, <1>4, StepsQuiet

(* Who is replacing a default goes on doing so until its own last step. *)
LEMMA ReplacingKept ==
    ASSUME NEW u \in People, NEW c \in Forms,
           \A d \in Forms : d # c =>
              /\ form'[d].pc = form[d].pc /\ form'[d].user = form[d].user
              /\ form'[d].default = form[d].default,
           ~ (form[c].pc = "write" /\ form[c].default /\ form[c].user = u)
    PROVE  Replacing(u) => (Replacing(u))'
BY DEF Replacing, At

LEMMA ChosenKept ==
    ASSUME Sound, ChosenStands, [AddressesNext]_addressVars
    PROVE  ChosenStands'
<1>1. form \in [Forms -> Form] /\ chosen \in [People -> BOOLEAN]
  BY DEF Sound, AddressesTypeOK
<1> USE DEF ChosenStands
<1>2. ASSUME NEW c \in Forms, form[c].pc # "write", UNCHANGED <<addresses, chosen>>,
             \A d \in Forms : d # c => form'[d] = form[d]
      PROVE  ChosenStands'
  BY <1>2, RowsSame, ReplacingKept
<1>3. ASSUME NEW c \in Forms, Begun(c) PROVE ChosenStands'
  BY <1>2, <1>3 DEF Begun
<1>4. ASSUME NEW c \in Forms, NEW u \in People, NEW a \in AddressIds, DeleteAddress(c, u, a)
      PROVE  ChosenStands'
  <2>1. form[c].pc # "write" /\ UNCHANGED <<addresses, chosen>> BY <1>4 DEF DeleteAddress, At
  <2>2. QED BY <1>1, <1>2, <1>4, <2>1, AskedToDelete
<1>5. ASSUME NEW c \in Forms, UnsetDefault(c) PROVE ChosenStands'
  <2>1. /\ form[c].pc = "unset" /\ form[c].default /\ form[c].user \in People
        /\ UNCHANGED chosen
    BY <1>5 DEF UnsetDefault, At, Sound, FormsSound, FormSound
  <2>2. /\ form'[c].pc = "write" /\ form'[c].user = form[c].user /\ form'[c].default
        /\ \A d \in Forms : d # c => form'[d] = form[d]
    BY <1>1, <1>5, <2>1, Unset
  <2>3. \A u \in People : u = form[c].user => (Replacing(u))'
    BY <2>2 DEF Replacing, At
  <2>4. \A u \in People : u # form[c].user => (Defaults(u))' = Defaults(u)
    BY <1>1, <1>5, <2>1, Unset, RowsSame, Cleared
  <2>5. \A u \in People : Replacing(u) => (Replacing(u))'
    BY <2>1, <2>2, ReplacingKept
  <2>6. QED BY <2>1, <2>3, <2>4, <2>5
<1>6. ASSUME NEW c \in Forms, SetsDefault(c), form[c].user \in People PROVE ChosenStands'
  <2>1. \A u \in People :
           /\ u = form[c].user => (Defaults(u))' # {}
           /\ u # form[c].user => (Defaults(u))' = Defaults(u)
    BY <1>6, DefaultSet
  <2>2. \A u \in People : u # form[c].user => chosen'[u] = chosen[u]
    BY <1>1, <1>6 DEF SetsDefault, Save, Chosen
  <2>3. \A u \in People : u # form[c].user => (Replacing(u) => (Replacing(u))')
    BY <1>1, <1>6, DefaultWrittenForms, ReplacingKept DEF SetsDefault
  <2>4. QED BY <2>1, <2>2, <2>3
<1>7. ASSUME NEW c \in Forms, form[c].user \in People, Answer(c), NEW yes \in BOOLEAN,
             Chosen(form[c].user, yes), yes => chosen[form[c].user],
             yes => ~ (form[c].pc = "write" /\ form[c].default),
             \A u \in People : u # form[c].user \/ yes => (Defaults(u))' = Defaults(u)
      PROVE  ChosenStands'
  <2>1. \A u \in People : chosen'[u] = IF u = form[c].user THEN yes ELSE chosen[u]
    BY <1>1, <1>7 DEF Chosen
  <2>2. \A d \in Forms : d # c => form'[d] = form[d] BY <1>1, <1>7, Answered
  <2>3. \A u \in People : u # form[c].user \/ yes => (Replacing(u) => (Replacing(u))')
    BY <1>7, <2>2, ReplacingKept
  <2>4. QED BY <1>7, <2>1, <2>3
<1>8. ASSUME NEW c \in Forms, Writes(c), form[c].user \in People, form[c].pc = "write"
      PROVE  ChosenStands'
  <2> DEFINE yes == chosen[form[c].user] /\ ~ IsDefault(form[c].target)
  <2>1. yes \in BOOLEAN /\ (yes => chosen[form[c].user]) OBVIOUS
  <2>2. \A u \in People : u # form[c].user \/ yes => (Defaults(u))' = Defaults(u)
    BY <1>8, PlainWrite DEF Writes
  <2>3. Answer(c) /\ Chosen(form[c].user, yes) /\ ~ form[c].default BY <1>8 DEF Writes
  <2> HIDE DEF yes
  <2>4. QED BY <1>7, <1>8, <2>1, <2>2, <2>3
<1>9. ASSUME NEW c \in Forms, GivesUp(c), form[c].user \in People PROVE ChosenStands'
  <2> DEFINE yes == chosen[form[c].user] /\ ~ form[c].default
  <2>1. yes \in BOOLEAN /\ (yes => chosen[form[c].user] /\ ~ form[c].default) OBVIOUS
  <2>2. Answer(c) /\ UNCHANGED addresses /\ Chosen(form[c].user, yes) BY <1>9 DEF GivesUp
  <2> HIDE DEF yes
  <2>3. QED BY <1>7, <1>9, <2>1, <2>2, RowsSame
<1>10. ASSUME NEW c \in Forms, Delete(c) PROVE ChosenStands'
  <2> DEFINE yes == chosen[form[c].user] /\ ~ IsDefault(form[c].target)
  <2>1. yes \in BOOLEAN /\ (yes => chosen[form[c].user]) OBVIOUS
  <2>2. \A u \in People : u # form[c].user \/ yes => (Defaults(u))' = Defaults(u)
    BY <1>10, DeletedRow
  <2>3. /\ Answer(c) /\ Chosen(form[c].user, yes) /\ form[c].pc = "delete"
        /\ form[c].user \in People
    BY <1>10 DEF Delete, At, Sound, FormsSound, FormSound
  <2> HIDE DEF yes
  <2>4. QED BY <1>7, <2>1, <2>2, <2>3
<1>11. CASE CrashForms
  <2>1. \A u \in People : chosen'[u] => chosen[u] /\ ~ Replacing(u) BY <1>11 DEF CrashForms
  <2>2. \A u \in People : (Defaults(u))' = Defaults(u) BY <1>11, RowsSame DEF CrashForms
  <2>3. QED BY <2>1, <2>2
<1>12. CASE UNCHANGED addressVars
  <2>1. \A u \in People : Replacing(u) => (Replacing(u))' BY <1>12 DEF addressVars, Replacing, At
  <2>2. UNCHANGED chosen /\ \A u \in People : (Defaults(u))' = Defaults(u)
    BY <1>12, RowsSame DEF addressVars
  <2>3. QED BY <2>1, <2>2
<1>13. \A c \in Forms : Save(c) =>
          /\ form[c].pc = "write" /\ form[c].user \in People
          /\ SetsDefault(c) \/ Writes(c) \/ GivesUp(c)
  BY Saves
<1> HIDE DEF ChosenStands
<1>14. QED
  BY <1>1, <1>3, <1>4, <1>5, <1>6, <1>8, <1>9, <1>10, <1>11, <1>12, <1>13, StepKinds

(***************************************************************************)
(* The theorems                                                            *)
(***************************************************************************)
LEMMA AddressInit == AddressesInit => AddressInv
<1> SUFFICES ASSUME AddressesInit PROVE AddressInv OBVIOUS
<1>1. \A c \in Forms : form[c] = IdleForm BY DEF AddressesInit
<1>2. NoAddress \in Address BY DEF NoAddress, Address
<1>3. AddressesTypeOK
  BY <1>2, IdleFormIsForm, FaultsAssumption DEF AddressesInit, AddressesTypeOK, FaultsInit, FaultsTypeOK
<1>4. FormsSound /\ TargetsOwned /\ ClearIsClear
  BY <1>1 DEF IdleForm, FormsSound, FormSound, TargetsOwned, TargetOwned, ClearIsClear
<1>5. \A u : Defaults(u) = {} BY DEF AddressesInit, NoAddress, Defaults, BookOf, Live
<1>6. OneDefaultUnlessContested /\ ChosenStands
  BY <1>5 DEF AddressesInit, OneDefaultUnlessContested, ChosenStands
<1>7. QED BY <1>3, <1>4, <1>6 DEF AddressInv

LEMMA AddressStep == AddressInv /\ [AddressesNext]_addressVars => AddressInv'
BY TypesKept, TargetsKept, ClearStaysClear, ChosenKept DEF AddressInv, Sound

LEMMA AddressInvariant == AddressesSpec => []AddressInv
BY AddressInit, AddressStep, PTL DEF AddressesSpec

(* Every variable of the address book keeps its type. *)
THEOREM AddressesTyped == AddressesSpec => []AddressesTypeOK
<1>1. AddressInv => AddressesTypeOK BY DEF AddressInv
<1>2. QED BY <1>1, AddressInvariant, PTL

(* A user has at most one default address, unless one was written after its *)
(* request failed to clear the others or was overtaken by another one.      *)
THEOREM OneDefault == AddressesSpec => []OneDefaultUnlessContested
<1>1. AddressInv => OneDefaultUnlessContested BY DEF AddressInv
<1>2. QED BY <1>1, AddressInvariant, PTL

(* A default that was set stays, unless a request takes it away or fails    *)
(* between clearing the flags and writing its own address.                  *)
THEOREM DefaultStands == AddressesSpec => []ChosenStands
<1>1. AddressInv => ChosenStands BY DEF AddressInv
<1>2. QED BY <1>1, AddressInvariant, PTL

(* An address changes only by a request of its owner, whose it stays, and   *)
(* is never revived: the look-up of the owner, statements earlier, is       *)
(* enough.                                                                  *)
THEOREM AddressesOwned == AddressesSpec => OwnersOnly
<1>1. AddressInv /\ [AddressesNext]_addressVars => OwnRows BY RowsOwned DEF AddressInv
<1>2. OwnRows =>
        \A a \in AddressIds :
          (addresses[a].state # "unused" /\ addresses'[a] # addresses[a]) =>
              /\ addresses[a].state = "live"
              /\ addresses'[a].user = addresses[a].user
              /\ \E c \in Forms : form[c].user = addresses[a].user /\ form'[c] # form[c]
  BY DEF OwnRows, OwnRow
<1>3. QED BY <1>1, <1>2, AddressInvariant, PTL DEF AddressesSpec, OwnersOnly
=============================================================================
