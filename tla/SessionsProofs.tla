--------------------------- MODULE SessionsProofs ---------------------------
(***************************************************************************)
(* For any number of calls, sessions, password changes and any life of an  *)
(* access token: a refresh token is exchanged once, an open session was    *)
(* opened with the present password unless a race or the reset that keeps  *)
(* sessions let it be, and who is deactivated, or suspended and does not   *)
(* change his password, is out when the life of an access token has gone   *)
(* by.                                                                     *)
(***************************************************************************)
EXTENDS Sessions, FiniteSetTheorems, TLAPS

(* Which call may be where.                                                *)
Places ==
    \A p \in Procs :
        /\ pc[p] \in {"revoke", "user"} => call[p].op = "refresh"
        /\ pc[p] \in {"write", "reread"} => call[p].op = "change"

Exchanges(p) == pc[p] \in {"user", "issue"} /\ call[p].op = "refresh"

(* A token that somebody exchanges or has exchanged is revoked, and one    *)
(* call at most exchanges it.                                              *)
Successors(t) == {s \in TokenIds : t \in tokens[s].from}

ExchangeInv ==
    /\ \A t \in TokenIds :
        /\ tokens[t].status # "revoked" => Successors(t) = {}
        /\ \A s, u \in Successors(t) : s = u
    /\ \A p \in Procs :
        /\ pc[p] = "revoke" => tokens[call[p].token].status # "none"
        /\ Exchanges(p) =>
            /\ tokens[call[p].token].status = "revoked"
            /\ Successors(call[p].token) = {}
            /\ \A q \in Procs : Exchanges(q) /\ q # p => call[q].token # call[p].token

(* Nor does a call go on with a password that is not the present one.      *)
PasswordInv ==
    ~raced /\ ~kept =>
        /\ \A t \in TokenIds : Live(t) => tokens[t].opened = user.password
        /\ \A p \in Issuing : opened[p] = user.password

(* The clock of a deactivation or suspension runs while nobody is          *)
(* admitted, and what is left of each access token runs with it.           *)
ClosingInv ==
    /\ ~Closed => closedFor = 0
    /\ closedFor > 0 /\ ~reopened =>
        /\ Admitted = {}
        /\ \A t \in TokenIds : access[t] <= TTL - closedFor

Inv == TypeOK /\ Places /\ ExchangeInv /\ PasswordInv /\ ClosingInv
-----------------------------------------------------------------------------
(* What the types say of a token and of a call.                            *)
LEMMA Shapes ==
    ASSUME TypeOK
    PROVE  /\ user.active \in BOOLEAN /\ user.password \in 0..MaxPassword
           /\ \A t \in TokenIds :
                /\ tokens[t].status \in {"none", "live", "revoked"}
                /\ tokens[t].opened \in 0..MaxPassword
                /\ tokens[t].from \subseteq TokenIds
                /\ access[t] \in 0..TTL
           /\ \A p \in Procs :
                /\ call[p].op = "refresh" => call[p].token \in TokenIds
                /\ opened[p] \in 0..MaxPassword
<1>1. ASSUME NEW p \in Procs, call[p].op = "refresh" PROVE call[p].token \in TokenIds
  <2>1. CASE call[p] \in [op: {"refresh"}, token: TokenIds]
    BY <2>1
  <2>2. CASE call[p] \in {NoCall, [op |-> "login"], [op |-> "change"]}
    BY <1>1, <2>2 DEF NoCall
  <2> QED
    BY <2>1, <2>2 DEF TypeOK
<1> QED
  BY <1>1 DEF TypeOK, Users

LEMMA RevokedShape ==
    ASSUME TypeOK, NEW ts
    PROVE  /\ Revoked(ts) \in [TokenIds -> [status: {"none", "live", "revoked"},
                                           opened: 0..MaxPassword, from: SUBSET TokenIds]]
           /\ \A t \in TokenIds :
                /\ Revoked(ts)[t].from = tokens[t].from
                /\ Revoked(ts)[t].opened = tokens[t].opened
                /\ Revoked(ts)[t].status = IF t \in ts /\ tokens[t].status = "live"
                                           THEN "revoked" ELSE tokens[t].status
<1>1. ASSUME NEW t \in TokenIds
      PROVE  /\ Revoked(ts)[t] \in [status: {"none", "live", "revoked"},
                                    opened: 0..MaxPassword, from: SUBSET TokenIds]
             /\ Revoked(ts)[t].from = tokens[t].from
             /\ Revoked(ts)[t].opened = tokens[t].opened
             /\ Revoked(ts)[t].status = IF t \in ts /\ tokens[t].status = "live"
                                        THEN "revoked" ELSE tokens[t].status
  <2>1. tokens[t] \in [status: {"none", "live", "revoked"},
                       opened: 0..MaxPassword, from: SUBSET TokenIds]
    BY DEF TypeOK
  <2>2. CASE t \in ts /\ Live(t)
    <3>1. Revoked(ts)[t] = [tokens[t] EXCEPT !.status = "revoked"]
      BY <2>2 DEF Revoked
    <3> QED
      BY <2>1, <2>2, <3>1 DEF Live
  <2>3. CASE ~(t \in ts /\ Live(t))
    <3>1. Revoked(ts)[t] = tokens[t]
      BY <2>3 DEF Revoked
    <3> QED
      BY <2>1, <2>3, <3>1 DEF Live
  <2> QED
    BY <2>2, <2>3
<1> QED
  BY <1>1 DEF Revoked

LEMMA TypeInit == Init => TypeOK /\ Places
<1> SUFFICES ASSUME Init PROVE TypeOK /\ Places
  OBVIOUS
<1>1. NoToken \in [status: {"none", "live", "revoked"}, opened: 0..MaxPassword,
                  from: SUBSET TokenIds]
  BY BoundsAssumption DEF NoToken
<1>2. user \in Users /\ closedFor \in 0..TTL /\ 0 \in 0..TTL /\ 0 \in 0..MaxPassword
  BY BoundsAssumption DEF Init, Users
<1>3. call \in [Procs -> {NoCall, [op |-> "login"], [op |-> "change"]}
                             \cup [op: {"refresh"}, token: TokenIds]]
  BY DEF Init
<1> QED
  BY <1>1, <1>2, <1>3 DEF Init, TypeOK, Places

LEMMA PlacesStep == TypeOK /\ Places /\ [Next]_vars => Places'
<1> SUFFICES ASSUME TypeOK, Places, [Next]_vars PROVE Places'
  OBVIOUS
<1>1. ASSUME NEW p \in Procs, Serve(p) PROVE Places'
  <2>1. CASE Login(p) \/ BeginRefresh(p) \/ BeginChange(p)
    BY <2>1 DEF Login, BeginRefresh, BeginChange, Begin, Goto, Places, TypeOK
  <2>2. CASE Revoke(p) \/ ReadUser(p) \/ CommitChange(p) \/ Reread(p)
    BY <2>2 DEF Revoke, ReadUser, CommitChange, Reread, Finish, Goto, At, Places, TypeOK
  <2>3. CASE Issue(p) \/ Abort(p)
    BY <2>3 DEF Issue, Abort, Finish, Goto, Places, TypeOK
  <2> QED
    BY <1>1, <2>1, <2>2, <2>3 DEF Serve
<1>2. CASE UNCHANGED <<pc, call>>
  BY <1>2 DEF Places
<1> QED
  BY <1>1, <1>2 DEF Next, Logout, SetActive, SetSuspended, ResetPassword, ResetKeepingSessions, Tick, vars, procVars

LEMMA TypeServe ==
    ASSUME TypeOK, Places, NEW p \in Procs, Serve(p)
    PROVE  TypeOK'
<1> USE BoundsAssumption
<1>1. CASE Login(p) \/ BeginChange(p) \/ Abort(p) \/ Reread(p) \/ ReadUser(p)
  <2>1. /\ 0 \in 0..MaxPassword /\ NoCall \in {NoCall, [op |-> "login"], [op |-> "change"]}
        /\ (reopened \/ suspended) \in BOOLEAN
    OBVIOUS
  <2> QED
    BY <1>1, <2>1, Shapes DEF TypeOK, Login, BeginChange, Abort, Reread, ReadUser, Begin, Finish,
       Goto, ReadOnly, SessionsOnly, At
<1>2. CASE BeginRefresh(p)
  BY <1>2 DEF TypeOK, BeginRefresh, Begin, Goto, ReadOnly, SessionsOnly
<1>3. CASE Revoke(p)
  <2>1. tokens' \in [TokenIds -> [status: {"none", "live", "revoked"},
                                  opened: 0..MaxPassword, from: SUBSET TokenIds]]
    BY <1>3, RevokedShape DEF Revoke, TypeOK
  <2>2. opened' \in [Procs -> 0..MaxPassword]
    <3>0. call[p].token \in TokenIds
      BY <1>3, Shapes DEF Revoke, At, Places
    <3>1. CASE Live(call[p].token)
      BY <1>3, <3>0, <3>1, Shapes DEF Revoke, Live, TypeOK
    <3>2. CASE ~Live(call[p].token)
      BY <1>3, <3>2 DEF Revoke, Finish, TypeOK
    <3> QED
      BY <3>1, <3>2
  <2> QED
    BY <1>3, <2>1, <2>2 DEF Revoke, TypeOK, Finish, Goto, SessionsOnly
<1>4. CASE Issue(p)
  <2> DEFINE from == IF call[p].op = "refresh" THEN {call[p].token} ELSE {}
  <2>0. from \subseteq TokenIds
    BY Shapes
  <2>1. PICK t \in TokenIds :
          tokens' = [tokens EXCEPT ![t] = [status |-> "live", opened |-> opened[p], from |-> from]]
          /\ access' = [access EXCEPT ![t] = TTL]
    BY <1>4 DEF Issue
  <2>2. tokens' \in [TokenIds -> [status: {"none", "live", "revoked"},
                                  opened: 0..MaxPassword, from: SUBSET TokenIds]]
    <3> HIDE DEF from
    <3> QED
      BY <2>0, <2>1, Shapes DEF TypeOK
  <2>3. access' \in [TokenIds -> 0..TTL]
    BY <2>1 DEF TypeOK
  <2> QED
    BY <1>4, <2>2, <2>3 DEF TypeOK, Issue, Finish, Goto, SessionsOnly
<1>5. CASE CommitChange(p)
  <2>1. user' \in Users /\ user.password + 1 \in 0..MaxPassword
    BY <1>5, Shapes DEF CommitChange, NewPassword, Users, TypeOK
  <2> QED
    BY <1>5, <2>1, RevokedShape DEF TypeOK, CommitChange, NewPassword, Goto
<1> QED
  BY <1>1, <1>2, <1>3, <1>4, <1>5 DEF Serve

LEMMA TypeStep == TypeOK /\ Places /\ [Next]_vars => TypeOK'
<1> SUFFICES ASSUME TypeOK, Places, [Next]_vars PROVE TypeOK'
  OBVIOUS
<1> USE BoundsAssumption
<1>1. ASSUME NEW t \in TokenIds, Logout(t) PROVE TypeOK'
  BY <1>1, RevokedShape DEF Logout, TypeOK, procVars, SessionsOnly
<1>2. ASSUME NEW b \in BOOLEAN, SetActive(b) \/ SetSuspended(b) PROVE TypeOK'
  <2>1. user' \in Users /\ suspended' \in BOOLEAN /\ closedFor' \in 0..TTL /\ reopened' \in BOOLEAN
    <3>1. 0 \in 0..TTL /\ FALSE \in BOOLEAN
      OBVIOUS
    <3>2. CASE SetActive(b)
      <4>1. user' = [user EXCEPT !.active = b]
        BY <3>2 DEF SetActive
      <4>2. user' \in Users
        BY <4>1 DEF Users, TypeOK
      <4> QED
        BY <3>1, <3>2, <4>2 DEF SetActive, TypeOK
    <3>3. CASE SetSuspended(b)
      BY <3>1, <3>3 DEF SetSuspended, TypeOK
    <3> QED
      BY <1>2, <3>2, <3>3
  <2> QED
    BY <1>2, <2>1 DEF SetActive, SetSuspended, TypeOK, procVars
<1>3. ASSUME ResetPassword \/ ResetKeepingSessions PROVE TypeOK'
  <2>1. user' \in Users
    <3>1. user' = [user EXCEPT !.password = user.password + 1] /\ user.password < MaxPassword
      BY <1>3 DEF ResetPassword, NewPassword, ResetKeepingSessions
    <3> QED
      BY <3>1, Shapes DEF Users, TypeOK
  <2>2. CASE ResetPassword
    BY <2>1, <2>2, RevokedShape DEF ResetPassword, NewPassword, TypeOK, procVars
  <2>3. CASE ResetKeepingSessions
    BY <2>1, <2>3 DEF ResetKeepingSessions, TypeOK, procVars
  <2> QED
    BY <1>3, <2>2, <2>3
<1>4. CASE Tick
  <2>1. access' \in [TokenIds -> 0..TTL]
    BY <1>4, Shapes DEF Tick
  <2>2. closedFor' \in 0..TTL
    <3>1. \/ closedFor' = closedFor
          \/ closedFor # TTL /\ closedFor' = closedFor + 1
      BY <1>4 DEF Tick
    <3> QED
      BY <3>1 DEF TypeOK
  <2> QED
    BY <1>4, <2>1, <2>2 DEF Tick, TypeOK, procVars
<1>5. CASE UNCHANGED vars
  BY <1>5 DEF vars, TypeOK
<1> QED
  BY <1>1, <1>2, <1>3, <1>4, <1>5, TypeServe DEF Next

(* Every variable keeps its shape.                                         *)
THEOREM TypeCorrect == Spec => []TypeOK
BY TypeInit, TypeStep, PlacesStep, PTL DEF Spec
-----------------------------------------------------------------------------
(* The steps, as the invariants see them: what becomes of each token, and  *)
(* what the call that moves does.                                          *)
LEMMA Quiet ==
    ASSUME TypeOK, NEW p \in Procs,
           BeginRefresh(p) \/ Login(p) \/ BeginChange(p) \/ ReadUser(p) \/ Reread(p) \/ Abort(p)
    PROVE  /\ UNCHANGED <<tokens, user, suspended, access, raced, kept, closedFor>>
           /\ ~BeginChange(p) => UNCHANGED reopened
           /\ \A q \in Procs \ {p} : pc'[q] = pc[q] /\ call'[q] = call[q] /\ opened'[q] = opened[q]
BY DEF BeginRefresh, Login, BeginChange, ReadUser, Reread, Abort, Begin, Goto, Finish,
   ReadOnly, SessionsOnly, TypeOK

LEMMA RevokeEffect ==
    ASSUME TypeOK, Places, NEW p \in Procs, Revoke(p)
    PROVE  /\ call[p].op = "refresh" /\ call[p].token \in TokenIds /\ pc[p] = "revoke"
           /\ \A q \in Procs \ {p} : pc'[q] = pc[q] /\ call'[q] = call[q] /\ opened'[q] = opened[q]
           /\ UNCHANGED <<user, suspended, access, raced, kept, closedFor, reopened>>
           /\ \/ /\ tokens[call[p].token].status = "live" /\ tokens' = Revoked({call[p].token})
                 /\ pc'[p] = "user" /\ call'[p] = call[p]
                 /\ opened'[p] = tokens[call[p].token].opened
              \/ tokens' = tokens /\ pc'[p] = "idle" /\ call'[p] = NoCall
BY Shapes DEF Revoke, At, Places, Live, Goto, Finish, SessionsOnly, TypeOK

LEMMA IssueEffect ==
    ASSUME TypeOK, NEW p \in Procs, Issue(p)
    PROVE  \E t \in TokenIds :
        /\ pc[p] = "issue" /\ tokens[t].status = "none"
        /\ \A u \in TokenIds \ {t} : tokens'[u] = tokens[u] /\ access'[u] = access[u]
        /\ tokens'[t].status = "live" /\ tokens'[t].opened = opened[p] /\ access'[t] = TTL
        /\ tokens'[t].from = IF call[p].op = "refresh" THEN {call[p].token} ELSE {}
        /\ pc'[p] = "idle" /\ call'[p] = NoCall
        /\ \A q \in Procs \ {p} : pc'[q] = pc[q] /\ call'[q] = call[q] /\ opened'[q] = opened[q]
        /\ UNCHANGED <<user, suspended, raced, kept, closedFor, reopened>>
<1>1. PICK t \in TokenIds :
        /\ tokens[t].status = "none"
        /\ tokens' = [tokens EXCEPT ![t] =
               [status |-> "live", opened |-> opened[p],
                from |-> IF call[p].op = "refresh" THEN {call[p].token} ELSE {}]]
        /\ access' = [access EXCEPT ![t] = TTL]
  BY DEF Issue
<1> QED
  BY <1>1 DEF Issue, At, Finish, Goto, SessionsOnly, TypeOK

LEMMA ChangeEffect ==
    ASSUME TypeOK, NEW p \in Procs, CommitChange(p)
    PROVE  /\ NewPassword /\ UNCHANGED <<suspended, access, closedFor, reopened, call>>
           /\ pc[p] = "write" /\ pc'[p] = "reread" /\ opened'[p] = user'.password
           /\ user'.active = user.active
           /\ \A q \in Procs \ {p} : pc'[q] = pc[q] /\ opened'[q] = opened[q]
BY DEF CommitChange, NewPassword, At, Goto, TypeOK, Users
-----------------------------------------------------------------------------
(* Exchange.                                                               *)

(* Revocations move no token away from "revoked" and touch no successor.   *)
LEMMA RevocationsKeep ==
    ASSUME TypeOK, NEW ts, tokens' = Revoked(ts)
    PROVE  \A t \in TokenIds :
        /\ Successors(t)' = Successors(t)
        /\ tokens[t].status = "revoked" => tokens'[t].status = "revoked"
        /\ tokens[t].status # "none" <=> tokens'[t].status # "none"
        /\ tokens'[t].status # "revoked" => tokens[t].status # "revoked"
        /\ t \in ts /\ tokens[t].status = "live" => tokens'[t].status = "revoked"
BY RevokedShape DEF Successors

LEMMA ExchangeRevoke ==
    ASSUME TypeOK, Places, ExchangeInv, NEW p \in Procs, Revoke(p)
    PROVE  ExchangeInv'
<1>1. CASE tokens' = tokens /\ pc'[p] = "idle" /\ call'[p] = NoCall
  <2>1. \A q \in Procs \ {p} : pc'[q] = pc[q] /\ call'[q] = call[q]
    BY RevokeEffect
  <2>2. \A q \in Procs : Exchanges(q)' => Exchanges(q) /\ q # p
    BY <1>1, <2>1 DEF Exchanges
  <2>3. \A u \in TokenIds : Successors(u)' = Successors(u)
    BY <1>1 DEF Successors
  <2>4. \A q \in Procs : Exchanges(q)' => Successors(call[q].token)' = {}
    BY <1>1, <2>1, <2>2 DEF ExchangeInv, Successors
  <2> QED
    BY <1>1, <2>1, <2>2, <2>3, <2>4 DEF ExchangeInv
<1>2. CASE /\ tokens[call[p].token].status = "live" /\ tokens' = Revoked({call[p].token})
           /\ pc'[p] = "user" /\ call'[p] = call[p]
  <2> DEFINE t == call[p].token
  <2>1. /\ t \in TokenIds /\ call[p].op = "refresh" /\ pc[p] = "revoke"
        /\ \A q \in Procs \ {p} : pc'[q] = pc[q] /\ call'[q] = call[q]
    BY RevokeEffect
  <2>2. Successors(t) = {} /\ tokens'[t].status = "revoked"
    BY <1>2, <2>1, RevocationsKeep DEF ExchangeInv
  <2>3. \A u \in TokenIds :
          /\ tokens'[u].status # "revoked" => Successors(u)' = {}
          /\ \A s, v \in Successors(u)' : s = v
    BY <1>2, RevocationsKeep DEF ExchangeInv
  <2>4. ASSUME NEW q \in Procs, pc'[q] = "revoke" PROVE tokens'[call'[q].token].status # "none"
    <3>1. q # p /\ call[q].op = "refresh" /\ call'[q] = call[q] /\ pc[q] = "revoke"
      BY <1>2, <2>1, <2>4 DEF Places
    <3> QED
      BY <1>2, <3>1, RevocationsKeep, Shapes DEF ExchangeInv
  <2>5. ASSUME NEW q \in Procs, q # p, Exchanges(q)
        PROVE  /\ call[q].token \in TokenIds /\ call[q].token # t
               /\ tokens'[call[q].token].status = "revoked" /\ Successors(call[q].token)' = {}
    <3>1. call[q].token \in TokenIds
      BY <2>5, Shapes DEF Exchanges
    <3>2. tokens[call[q].token].status = "revoked" /\ Successors(call[q].token) = {}
      BY <2>5 DEF ExchangeInv
    <3>3. Successors(call[q].token)' = {} /\ tokens'[call[q].token].status = "revoked"
      BY <1>2, <2>1, <2>5, <3>1, <3>2, RevocationsKeep
    <3> QED
      BY <1>2, <3>1, <3>2, <3>3
  <2>6. \A q \in Procs \ {p} : Exchanges(q)' <=> Exchanges(q)
    BY <2>1 DEF Exchanges
  <2>7. Successors(t)' = {}
    BY <1>2, <2>1, <2>2, RevocationsKeep
  <2>8. ASSUME NEW q \in Procs, Exchanges(q)'
        PROVE  /\ tokens'[call'[q].token].status = "revoked"
               /\ Successors(call[q].token)' = {} /\ call'[q] = call[q]
               /\ \A r \in Procs : Exchanges(r)' /\ r # q => call'[r].token # call'[q].token
    <3>1. call'[q] = call[q]
      BY <1>2, <2>1
    <3>2. CASE q = p
      BY <1>2, <2>1, <2>2, <2>5, <2>6, <2>7, <3>1, <3>2
    <3>3. CASE q # p
      <4>1. Exchanges(q) /\ call[q].token # t
        BY <2>5, <2>6, <2>8, <3>3
      <4>2. \A r \in Procs : Exchanges(r)' /\ r # q => call'[r].token # call[q].token
        BY <1>2, <2>1, <2>6, <4>1 DEF ExchangeInv
      <4> QED
        BY <2>5, <3>1, <3>3, <4>1, <4>2
    <3> QED
      BY <3>2, <3>3
  <2> QED
    BY <2>3, <2>4, <2>8 DEF ExchangeInv, Successors
<1> QED
  BY <1>1, <1>2, RevokeEffect

LEMMA ExchangeIssue ==
    ASSUME TypeOK, Places, ExchangeInv, NEW p \in Procs, Issue(p)
    PROVE  ExchangeInv'
<1>1. PICK t \in TokenIds :
        /\ pc[p] = "issue" /\ tokens[t].status = "none"
        /\ \A u \in TokenIds \ {t} : tokens'[u] = tokens[u]
        /\ tokens'[t].status = "live"
        /\ tokens'[t].from = IF call[p].op = "refresh" THEN {call[p].token} ELSE {}
        /\ pc'[p] = "idle" /\ call'[p] = NoCall
        /\ \A q \in Procs \ {p} : pc'[q] = pc[q] /\ call'[q] = call[q]
  BY IssueEffect
<1>2. \A u \in TokenIds : t \notin Successors(u) \/ t \in tokens[t].from \/ u \in tokens[t].from
  BY DEF Successors
<1>3. ASSUME NEW u \in TokenIds, call[p].op = "refresh" => u # call[p].token
      PROVE  Successors(u)' \subseteq Successors(u)
  BY <1>1, <1>3 DEF Successors
<1>4. ASSUME NEW u \in TokenIds, call[p].op = "refresh", u = call[p].token
      PROVE  Successors(u)' \subseteq {t} /\ tokens'[u].status = "revoked"
  <2>1. Successors(u) = {} /\ tokens[u].status = "revoked"
    BY <1>1, <1>4 DEF ExchangeInv, Exchanges
  <2> QED
    BY <1>1, <1>4, <2>1 DEF Successors
<1>5. \A u \in TokenIds :
          /\ tokens'[u].status # "revoked" => Successors(u)' = {}
          /\ \A s, v \in Successors(u)' : s = v
  <2> SUFFICES ASSUME NEW u \in TokenIds
               PROVE  /\ tokens'[u].status # "revoked" => Successors(u)' = {}
                      /\ \A s, v \in Successors(u)' : s = v
    OBVIOUS
  <2>1. CASE call[p].op = "refresh" /\ u = call[p].token
    BY <1>4, <2>1
  <2>2. CASE call[p].op = "refresh" => u # call[p].token
    <3>1. Successors(u)' \subseteq Successors(u)
      BY <1>3, <2>2
    <3>2. tokens'[u].status # "revoked" => tokens[u].status # "revoked"
      BY <1>1
    <3> QED
      BY <3>1, <3>2 DEF ExchangeInv
  <2> QED
    BY <2>1, <2>2
<1>6. ASSUME NEW q \in Procs, pc'[q] = "revoke" PROVE tokens'[call'[q].token].status # "none"
  BY <1>1, <1>6, Shapes DEF ExchangeInv, Places
<1>7. \A q \in Procs : Exchanges(q)' => q # p /\ Exchanges(q) /\ call'[q] = call[q]
  BY <1>1 DEF Exchanges, NoCall
<1>8. ASSUME NEW q \in Procs, Exchanges(q)'
      PROVE  /\ tokens'[call'[q].token].status = "revoked"
             /\ Successors(call[q].token)' = {} /\ call'[q] = call[q]
             /\ \A r \in Procs : Exchanges(r)' /\ r # q => call'[r].token # call'[q].token
  <2>1. q # p /\ Exchanges(q) /\ call'[q] = call[q] /\ call[q].token \in TokenIds
    BY <1>7, <1>8, Shapes DEF Exchanges
  <2>2. tokens[call[q].token].status = "revoked" /\ Successors(call[q].token) = {}
    BY <2>1 DEF ExchangeInv
  <2>3. call[p].op = "refresh" => call[q].token # call[p].token
    BY <1>1, <2>1 DEF ExchangeInv, Exchanges
  <2>4. Successors(call[q].token)' = {} /\ tokens'[call[q].token].status = "revoked"
    BY <1>1, <1>3, <2>1, <2>2, <2>3
  <2>5. \A r \in Procs : Exchanges(r)' /\ r # q => call'[r].token # call'[q].token
    BY <1>7, <2>1 DEF ExchangeInv
  <2> QED
    BY <2>1, <2>4, <2>5
<1> QED
  BY <1>5, <1>6, <1>8 DEF ExchangeInv, Successors

LEMMA ExchangeRevoked ==
    ASSUME TypeOK, Places, ExchangeInv, NEW ts, tokens' = Revoked(ts),
           call' = call, \A p \in Procs : pc'[p] = pc[p] \/ pc'[p] = "reread"
    PROVE  ExchangeInv'
<1>1. \A p \in Procs : call[p].op = "refresh" => call[p].token \in TokenIds
  BY Shapes
<1>2. \A u \in TokenIds : /\ tokens'[u].status # "revoked" => Successors(u)' = {}
                          /\ \A s, v \in Successors(u)' : s = v
  BY RevocationsKeep DEF ExchangeInv
<1>3. \A p \in Procs : pc'[p] = "revoke" => tokens'[call[p].token].status # "none"
  BY <1>1, RevocationsKeep DEF ExchangeInv, Places
<1>4. ASSUME NEW p \in Procs, Exchanges(p)'
      PROVE  /\ Exchanges(p) /\ tokens'[call[p].token].status = "revoked"
             /\ Successors(call[p].token)' = {}
  <2>1. Exchanges(p) /\ call[p].token \in TokenIds
    BY <1>1, <1>4 DEF Exchanges
  <2> QED
    BY <2>1, RevocationsKeep DEF ExchangeInv
<1> QED
  BY <1>2, <1>3, <1>4 DEF ExchangeInv, Successors

LEMMA ExchangeStep == TypeOK /\ Places /\ ExchangeInv /\ [Next]_vars => ExchangeInv'
<1> SUFFICES ASSUME TypeOK, Places, ExchangeInv, [Next]_vars PROVE ExchangeInv'
  OBVIOUS
<1>1. ASSUME NEW p \in Procs, Serve(p) PROVE ExchangeInv'
  <2>1. CASE BeginRefresh(p)
    <3>1. PICK t \in TokenIds : tokens[t].status = "live" /\ pc'[p] = "revoke" /\ call'[p].token = t
      BY <2>1 DEF BeginRefresh, Begin, Goto, Live, TypeOK
    <3> QED
      BY <2>1, <3>1, Quiet DEF ExchangeInv, Successors, Exchanges
  <2>2. CASE Login(p) \/ BeginChange(p) \/ Reread(p) \/ Abort(p)
    <3>1. pc'[p] # "revoke" /\ ~Exchanges(p)'
      BY <2>2 DEF Login, BeginChange, Reread, Abort, Begin, Goto, Finish, Exchanges, TypeOK,
         Places, At, NoCall
    <3> QED
      BY <2>2, <3>1, Quiet DEF ExchangeInv, Successors, Exchanges
  <2>3. CASE ReadUser(p)
    <3>1. /\ pc'[p] # "revoke" /\ (Exchanges(p)' => Exchanges(p) /\ call'[p] = call[p])
      BY <2>3 DEF ReadUser, Finish, Goto, Exchanges, TypeOK, At, Places, NoCall
    <3> QED
      BY <2>3, <3>1, Quiet DEF ExchangeInv, Successors, Exchanges
  <2>4. CASE CommitChange(p)
    BY <2>4, ChangeEffect, ExchangeRevoked DEF NewPassword
  <2> QED
    BY <1>1, <2>1, <2>2, <2>3, <2>4, ExchangeRevoke, ExchangeIssue DEF Serve
<1>2. CASE (\E t \in TokenIds : Logout(t)) \/ ResetPassword
  BY <1>2, ExchangeRevoked DEF Logout, ResetPassword, NewPassword, procVars
<1>3. CASE UNCHANGED <<tokens, pc, call>>
  BY <1>3 DEF ExchangeInv, Successors, Exchanges
<1> QED
  BY <1>1, <1>2, <1>3 DEF Next, SetActive, SetSuspended, ResetKeepingSessions, Tick, vars, procVars
-----------------------------------------------------------------------------
(* The password.                                                           *)
LEMMA PasswordServe ==
    ASSUME TypeOK, Places, PasswordInv, NEW p \in Procs, Serve(p)
    PROVE  PasswordInv'
<1>1. CASE Login(p)
  <2>1. opened'[p] = user.password
    BY <1>1 DEF Login, TypeOK
  <2> QED
    BY <1>1, <2>1, Quiet DEF PasswordInv, Issuing, Live
<1>2. CASE ReadUser(p) \/ Reread(p)
  <2>1. p \in Issuing /\ (p \in Issuing' => opened'[p] = opened[p])
    BY <1>2 DEF ReadUser, Reread, Finish, Goto, At, Issuing, TypeOK
  <2> QED
    BY <1>2, <2>1, Quiet DEF PasswordInv, Issuing, Live
<1>3. CASE BeginRefresh(p) \/ BeginChange(p) \/ Abort(p)
  <2>1. p \notin Issuing'
    BY <1>3 DEF BeginRefresh, BeginChange, Abort, Begin, Finish, Goto, Issuing, TypeOK
  <2> QED
    BY <1>3, <2>1, Quiet DEF PasswordInv, Issuing, Live
<1>4. CASE Revoke(p)
  <2>1. /\ UNCHANGED <<user, raced, kept>>
        /\ \A q \in Procs \ {p} : pc'[q] = pc[q] /\ opened'[q] = opened[q]
    BY <1>4, RevokeEffect
  <2>2. \A t \in TokenIds : tokens'[t].status = "live" =>
            tokens[t].status = "live" /\ tokens'[t].opened = tokens[t].opened
    <3>1. tokens' = tokens \/ tokens' = Revoked({call[p].token})
      BY <1>4, RevokeEffect
    <3> QED
      BY <3>1, RevokedShape
  <2>3. ASSUME ~raced, ~kept, p \in Issuing' PROVE opened'[p] = user.password
    <3>1. /\ tokens[call[p].token].status = "live" /\ call[p].token \in TokenIds
          /\ opened'[p] = tokens[call[p].token].opened
      BY <1>4, <2>3, RevokeEffect DEF Issuing
    <3> QED
      BY <2>3, <3>1 DEF PasswordInv, Live
  <2> QED
    BY <2>1, <2>2, <2>3 DEF PasswordInv, Issuing, Live
<1>5. CASE Issue(p)
  <2>1. PICK t \in TokenIds :
          /\ pc[p] = "issue" /\ tokens[t].status = "none"
          /\ \A u \in TokenIds \ {t} : tokens'[u] = tokens[u] /\ access'[u] = access[u]
          /\ tokens'[t].status = "live" /\ tokens'[t].opened = opened[p] /\ access'[t] = TTL
          /\ tokens'[t].from = IF call[p].op = "refresh" THEN {call[p].token} ELSE {}
          /\ pc'[p] = "idle" /\ call'[p] = NoCall
          /\ \A q \in Procs \ {p} : pc'[q] = pc[q] /\ call'[q] = call[q] /\ opened'[q] = opened[q]
          /\ UNCHANGED <<user, raced, kept>>
    BY <1>5, IssueEffect
  <2>2. p \in Issuing
    BY <2>1 DEF Issuing
  <2>3. \A q \in Issuing' : q \in Issuing /\ opened'[q] = opened[q]
    BY <2>1 DEF Issuing
  <2>4. ASSUME ~raced, ~kept, NEW u \in TokenIds, tokens'[u].status = "live"
        PROVE  tokens'[u].opened = user.password
    <3>1. CASE u = t
      BY <2>1, <2>2, <2>4, <3>1 DEF PasswordInv
    <3>2. CASE u # t
      BY <2>1, <2>4, <3>2 DEF PasswordInv, Live
    <3> QED
      BY <3>1, <3>2
  <2>5. ASSUME ~raced, ~kept, NEW q \in Issuing' PROVE opened'[q] = user.password
    BY <2>3, <2>5 DEF PasswordInv
  <2>6. UNCHANGED <<user, raced, kept>>
    BY <2>1
  <2> SUFFICES ASSUME (~raced)', (~kept)'
               PROVE  /\ (\A u \in TokenIds : Live(u) => tokens[u].opened = user.password)'
                      /\ (\A q \in Issuing : opened[q] = user.password)'
    BY DEF PasswordInv
  <2>7. (\A u \in TokenIds : Live(u) => tokens[u].opened = user.password)'
    BY <2>4, <2>6 DEF Live
  <2>8. (\A q \in Issuing : opened[q] = user.password)'
    <3> SUFFICES ASSUME NEW q \in Issuing' PROVE opened'[q] = user'.password
      OBVIOUS
    <3> QED
      BY <2>5, <2>6
  <2> QED
    BY <2>7, <2>8
<1>6. CASE CommitChange(p)
  <2>1. \A t \in TokenIds : tokens'[t].status # "live"
    <3>1. tokens' = Revoked(TokenIds)
      BY <1>6, ChangeEffect DEF NewPassword
    <3>2. \A t \in TokenIds : Revoked(TokenIds)[t].status # "live"
      BY RevokedShape
    <3> QED
      BY <3>1, <3>2
  <2>2. ~raced' => Issuing = {}
    BY <1>6, ChangeEffect DEF NewPassword
  <2>3. opened'[p] = user'.password /\ \A q \in Procs \ {p} : pc'[q] = pc[q]
    BY <1>6, ChangeEffect
  <2>4. ~raced' => Issuing' \subseteq {p}
    BY <2>2, <2>3 DEF Issuing
  <2> QED
    BY <2>1, <2>3, <2>4 DEF PasswordInv, Live
<1> QED
  BY <1>1, <1>2, <1>3, <1>4, <1>5, <1>6 DEF Serve

LEMMA PasswordStep == TypeOK /\ Places /\ PasswordInv /\ [Next]_vars => PasswordInv'
<1> SUFFICES ASSUME TypeOK, Places, PasswordInv, [Next]_vars PROVE PasswordInv'
  OBVIOUS
<1>1. ASSUME NEW t \in TokenIds, Logout(t) PROVE PasswordInv'
  <2>1. \A u \in TokenIds : tokens'[u].status = "live" =>
            tokens[u].status = "live" /\ tokens'[u].opened = tokens[u].opened
    BY <1>1, RevokedShape DEF Logout
  <2> QED
    BY <1>1, <2>1 DEF Logout, PasswordInv, Issuing, Live, SessionsOnly, procVars
<1>2. CASE ResetPassword
  <2>1. \A t \in TokenIds : tokens'[t].status # "live"
    BY <1>2, RevokedShape DEF ResetPassword, NewPassword
  <2>2. ~raced' => Issuing' = {}
    BY <1>2 DEF ResetPassword, NewPassword, Issuing, procVars
  <2> QED
    BY <2>1, <2>2 DEF PasswordInv, Live
<1>3. CASE UNCHANGED <<tokens, pc, opened, raced, kept>> /\ user'.password = user.password
  BY <1>3 DEF PasswordInv, Issuing, Live
<1>4. ASSUME NEW b \in BOOLEAN, SetActive(b) PROVE user'.password = user.password
  BY <1>4 DEF SetActive, TypeOK, Users
<1>5. CASE ResetKeepingSessions
  BY <1>5 DEF ResetKeepingSessions, PasswordInv
<1> QED
  BY <1>1, <1>2, <1>3, <1>4, <1>5, PasswordServe
     DEF Next, SetActive, SetSuspended, Tick, vars, procVars
-----------------------------------------------------------------------------
(* Deactivation and suspension.                                            *)
LEMMA ClosingServe ==
    ASSUME TypeOK, Places, ClosingInv, NEW p \in Procs, Serve(p)
    PROVE  ClosingInv'
<1>0. closedFor \in 0..TTL /\ user.active \in BOOLEAN
  BY Shapes DEF TypeOK
<1>1. UNCHANGED <<closedFor, suspended>> /\ user'.active = user.active
  BY RevokeEffect, IssueEffect, ChangeEffect, Quiet DEF Serve
<1>2. reopened' = reopened \/ BeginChange(p)
  BY RevokeEffect, IssueEffect, ChangeEffect, Quiet DEF Serve
<1>3. ASSUME closedFor > 0, ~reopened, ~reopened'
      PROVE  Admitted' = {} /\ UNCHANGED access
  <2>1. Admitted = {} /\ Closed
    BY <1>0, <1>3 DEF ClosingInv
  <2>2. ~(Login(p) \/ BeginChange(p) \/ Issue(p) \/ CommitChange(p) \/ Reread(p))
    BY <1>3, <2>1 DEF Login, BeginChange, Issue, CommitChange, Reread, At, Admitted, Closed
  <2>3. pc'[p] \notin {"issue", "write", "reread"}
    BY <2>1, <2>2 DEF Serve, BeginRefresh, Begin, Revoke, ReadUser, Abort, Finish, Goto, TypeOK,
       Closed
  <2>4. (\A q \in Procs \ {p} : pc'[q] = pc[q]) /\ UNCHANGED access
    BY <2>2, Quiet, RevokeEffect DEF Serve
  <2> QED
    BY <2>1, <2>3, <2>4 DEF Admitted
<1>4. ASSUME reopened PROVE reopened'
  BY <1>2, <1>4 DEF BeginChange
<1> QED
  BY <1>0, <1>1, <1>3, <1>4 DEF ClosingInv, Closed

LEMMA ClosingStep == TypeOK /\ Places /\ ClosingInv /\ [Next]_vars => ClosingInv'
<1> SUFFICES ASSUME TypeOK, Places, ClosingInv, [Next]_vars PROVE ClosingInv'
  OBVIOUS
<1>0. closedFor \in 0..TTL /\ user.active \in BOOLEAN /\ TTL \in Nat
  BY Shapes, BoundsAssumption DEF TypeOK
<1>1. ASSUME NEW b \in BOOLEAN, SetActive(b) \/ SetSuspended(b) PROVE ClosingInv'
  BY <1>1 DEF SetActive, SetSuspended, ClosingInv
<1>2. CASE Tick
  <2>0. UNCHANGED <<user, suspended, reopened, pc>>
    BY <1>2 DEF Tick, procVars
  <2>1. CASE ~Closed
    <3>1. closedFor = 0 /\ closedFor' = 0
      BY <1>0, <1>2, <2>1 DEF Tick, ClosingInv
    <3> QED
      BY <3>1 DEF ClosingInv
  <2>2. CASE Closed /\ reopened
    BY <2>0, <2>2 DEF ClosingInv, Closed
  <2>3. CASE Closed /\ ~reopened /\ Admitted # {}
    <3>1. closedFor = 0 /\ closedFor' = 0
      BY <1>0, <1>2, <2>3 DEF Tick, ClosingInv
    <3> QED
      BY <3>1 DEF ClosingInv
  <2>4. CASE Closed /\ ~reopened /\ Admitted = {}
    <3>1. Admitted' = {} /\ Closed'
      BY <2>0, <2>4 DEF Admitted, Closed
    <3>2. closedFor' = IF closedFor = TTL THEN closedFor ELSE closedFor + 1
      BY <1>2, <2>4 DEF Tick
    <3>3. ASSUME NEW t \in TokenIds PROVE access'[t] <= TTL - closedFor'
      <4>1. access[t] \in 0..TTL /\ access[t] <= TTL - closedFor
        BY <1>0, <2>4, Shapes DEF ClosingInv
      <4>2. access'[t] = IF access[t] > 0 THEN access[t] - 1 ELSE 0
        BY <1>2 DEF Tick
      <4> QED
        BY <1>0, <3>2, <4>1, <4>2
    <3> QED
      BY <3>1, <3>3 DEF ClosingInv
  <2> QED
    BY <2>1, <2>2, <2>3, <2>4
<1>3. CASE UNCHANGED <<access, pc, closedFor, reopened, suspended>> /\ user'.active = user.active
  BY <1>3 DEF ClosingInv, Admitted, Closed
<1>4. CASE ResetPassword \/ ResetKeepingSessions
  BY <1>3, <1>4 DEF ResetPassword, NewPassword, ResetKeepingSessions, procVars, TypeOK, Users
<1> QED
  BY <1>1, <1>2, <1>3, <1>4, ClosingServe
     DEF Next, Logout, SessionsOnly, vars, procVars
-----------------------------------------------------------------------------
LEMMA InitInv == Init => Inv
<1> SUFFICES ASSUME Init PROVE Inv
  OBVIOUS
<1>1. TypeOK /\ Places
  BY TypeInit
<1>2. ExchangeInv
  BY DEF Init, ExchangeInv, Successors, Exchanges, NoToken
<1>3. PasswordInv /\ ClosingInv
  BY BoundsAssumption DEF Init, PasswordInv, ClosingInv, Issuing, Live, NoToken
<1> QED
  BY <1>1, <1>2, <1>3 DEF Inv

LEMMA SpecInv == Spec => []Inv
<1>1. Inv /\ [Next]_vars => Inv'
  BY TypeStep, PlacesStep, ExchangeStep, PasswordStep, ClosingStep DEF Inv
<1> QED
  BY InitInv, <1>1, PTL DEF Spec

LEMMA InvImplies == Inv => ExchangedOnce /\ OpenedWithThePassword /\ ClosedWithinTTL
<1> SUFFICES ASSUME Inv PROVE ExchangedOnce /\ OpenedWithThePassword /\ ClosedWithinTTL
  OBVIOUS
<1>1. ExchangedOnce
  <2> SUFFICES ASSUME NEW t \in TokenIds
               PROVE  /\ Cardinality(Successors(t)) <= 1
                      /\ Live(t) => \A s \in TokenIds : t \notin tokens[s].from
    BY DEF ExchangedOnce, Successors
  <2>1. Live(t) => Successors(t) = {}
    BY DEF Inv, ExchangeInv, Live
  <2>2. CASE Successors(t) = {}
    BY <2>1, <2>2, FS_EmptySet DEF Successors
  <2>3. CASE Successors(t) # {}
    <3>1. PICK s : s \in Successors(t)
      BY <2>3
    <3>2. Successors(t) = {s}
      BY <3>1 DEF Inv, ExchangeInv
    <3>3. Cardinality({s}) = 1
      BY FS_Singleton
    <3> QED
      BY <2>1, <2>3, <3>2, <3>3 DEF Successors
  <2> QED
    BY <2>2, <2>3
<1>2. OpenedWithThePassword
  BY DEF Inv, PasswordInv, OpenedWithThePassword
<1>3. ClosedWithinTTL
  <2> SUFFICES ASSUME closedFor = TTL, ~reopened, NEW t \in TokenIds PROVE access[t] = 0
    BY DEF ClosedWithinTTL
  <2>1. closedFor > 0 /\ access[t] \in 0..TTL
    BY BoundsAssumption, Shapes DEF Inv
  <2>2. access[t] <= TTL - closedFor
    BY <2>1 DEF Inv, ClosingInv
  <2> QED
    BY <2>1, <2>2, BoundsAssumption
<1> QED
  BY <1>1, <1>2, <1>3

(* Of two renewals with the same cookie one gets a session, and none once  *)
(* the token was revoked.                                                  *)
THEOREM TokensExchangedOnce == Spec => []ExchangedOnce
BY SpecInv, InvImplies, PTL

(* No session that is open was opened with an earlier password, but for    *)
(* one whose login or renewal the change overtook, and for what the reset  *)
(* of the older users page leaves open until the password is next changed. *)
THEOREM SessionsHaveThePassword == Spec => []OpenedWithThePassword
BY SpecInv, InvImplies, PTL

(* When the life of an access token has gone by since a deactivation or a  *)
(* suspension, the calls it found admitted have ended, and no password was *)
(* changed in the suspended company, no access token is good.              *)
THEOREM DeactivationCloses == Spec => []ClosedWithinTTL
BY SpecInv, InvImplies, PTL
=============================================================================
