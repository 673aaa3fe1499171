------------------------------ MODULE Sessions ------------------------------
(***************************************************************************)
(* The sessions of one user.  A session is a refresh token, kept in the    *)
(* database and exchanged for another one at each renewal, and the access  *)
(* token issued with it, which nobody keeps: it is good until it expires.  *)
(*                                                                         *)
(* Each statement is atomic and no call locks the user: what a call read   *)
(* may have changed when it issues the tokens.                             *)
(*                                                                         *)
(* To the one e-mail that assertCompanyActive exempts, no company is ever  *)
(* suspended.  The login without password of local development is left     *)
(* out.                                                                    *)
(***************************************************************************)
EXTENDS Naturals, FiniteSets

CONSTANTS
    Procs,          \* concurrent HTTP requests
    TokenIds,       \* bound: sessions that are ever issued
    TTL,            \* ticks that an access token lasts
    MaxPassword     \* bound: how often the password changes

ASSUME BoundsAssumption == TTL \in Nat \ {0} /\ MaxPassword \in Nat

VARIABLES
    user,       \* User: isActive, and which password it has
    suspended,  \* the company's status is neither ACTIVE nor TRIAL
    tokens,     \* RefreshToken
    access,     \* ticks left of the access tokens, by the refresh token issued with them
    pc, call,
    opened,     \* per call: the password that its session was opened with
    closedFor,  \* history: ticks since the user was deactivated, or the company
                \* suspended, and every call that had found him active ended
    reopened,   \* history: he changed his password since, of a suspended company
    raced,      \* history: the password changed while a renewal or a login had
                \* passed its checks and not issued its tokens
    kept        \* history: since the sessions were last revoked for a new password,
                \* the reset that does not revoke them made one

vars == <<user, suspended, tokens, access, pc, call, opened, closedFor, reopened, raced, kept>>
procVars == <<pc, call, opened>>

Users == [active: BOOLEAN, password: 0..MaxPassword]

(* opened (history): the password that the session was opened with, before *)
(* all its renewals; from (history): the token it was exchanged for.       *)
NoToken == [status |-> "none", opened |-> 0, from |-> {}]

NoCall == [op |-> "none"]
-----------------------------------------------------------------------------
Live(t) == tokens[t].status = "live"

(* updateMany of what is not revoked yet.                                  *)
Revoked(ts) ==
    [t \in TokenIds |-> IF t \in ts /\ Live(t) THEN [tokens[t] EXCEPT !.status = "revoked"]
                        ELSE tokens[t]]

At(p, step) == pc[p] = step
Goto(p, step) == pc' = [pc EXCEPT ![p] = step]

Begin(p, c, step) ==
    /\ pc[p] = "idle"
    /\ call' = [call EXCEPT ![p] = c]
    /\ Goto(p, step)

Finish(p) ==
    /\ Goto(p, "idle")
    /\ call' = [call EXCEPT ![p] = NoCall]
    /\ opened' = [opened EXCEPT ![p] = 0]

SessionsOnly == UNCHANGED <<user, suspended, closedFor, reopened, raced, kept>>
ReadOnly == UNCHANGED <<tokens, access>> /\ SessionsOnly

(* 401 or 403, an error of the database, or the end of the process.        *)
Abort(p) == pc[p] # "idle" /\ Finish(p) /\ ReadOnly
-----------------------------------------------------------------------------
(* login, with the right password: the user is read once.                  *)
Login(p) ==
    /\ user.active /\ ~suspended
    /\ Begin(p, [op |-> "login"], "issue")
    /\ opened' = [opened EXCEPT ![p] = user.password]
    /\ ReadOnly

(* refresh: the token is found and not revoked.                            *)
BeginRefresh(p) ==
    /\ \E t \in TokenIds : Live(t) /\ Begin(p, [op |-> "refresh", token |-> t], "revoke")
    /\ ReadOnly /\ UNCHANGED opened

(* Mutant: whoever found the token valid goes on.                          *)
RevokeAlways(p) ==
    /\ At(p, "revoke")
    /\ tokens' = Revoked({call[p].token})
    /\ opened' = [opened EXCEPT ![p] = tokens[call[p].token].opened]
    /\ Goto(p, "user") /\ UNCHANGED <<call, access>> /\ SessionsOnly

(* The conditional revocation decides who exchanges the token.             *)
Revoke(p) ==
    /\ At(p, "revoke")
    /\ LET t == call[p].token
       IN  \/ /\ Live(t)
              /\ tokens' = Revoked({t})
              /\ opened' = [opened EXCEPT ![p] = tokens[t].opened]
              /\ Goto(p, "user") /\ UNCHANGED call
           \/ ~Live(t) /\ Finish(p) /\ UNCHANGED tokens
    /\ UNCHANGED access /\ SessionsOnly

(* Mutant: the user's status is not looked at again.                       *)
ReadUserAny(p) ==
    /\ At(p, "user")
    /\ Goto(p, "issue") /\ UNCHANGED <<call, opened>> /\ ReadOnly

(* The user and his company are read again, and refused where they ended.  *)
ReadUser(p) ==
    /\ At(p, "user")
    /\ \/ user.active /\ ~suspended /\ Goto(p, "issue") /\ UNCHANGED <<call, opened>>
       \/ ~(user.active /\ ~suspended) /\ Finish(p)
    /\ ReadOnly

(* issueSession: the two tokens, the refresh token stored.                 *)
Issue(p) ==
    /\ At(p, "issue")
    /\ \E t \in TokenIds :
        /\ tokens[t].status = "none"
        /\ tokens' = [tokens EXCEPT ![t] =
               [status |-> "live", opened |-> opened[p],
                from |-> IF call[p].op = "refresh" THEN {call[p].token} ELSE {}]]
        /\ access' = [access EXCEPT ![t] = TTL]
    /\ Finish(p) /\ SessionsOnly

Logout(t) ==
    /\ Live(t)
    /\ tokens' = Revoked({t})
    /\ UNCHANGED <<access, procVars>> /\ SessionsOnly

(* changePassword, with a valid access token and the right password: the   *)
(* company is not looked at.                                               *)
BeginChange(p) ==
    /\ \E t \in TokenIds : access[t] > 0
    /\ user.active
    /\ Begin(p, [op |-> "change"], "write")
    /\ reopened' = (reopened \/ suspended)
    /\ UNCHANGED <<user, suspended, tokens, access, opened, closedFor, raced, kept>>

(* Those that will still issue a token on what they have read.             *)
Issuing == {p \in Procs : pc[p] \in {"user", "reread", "issue"}}

(* Mutant: the sessions that are open stay.                                *)
NewPasswordKeeping ==
    /\ user.password < MaxPassword
    /\ user' = [user EXCEPT !.password = @ + 1]
    /\ UNCHANGED tokens
    /\ raced' = (raced \/ Issuing # {}) /\ kept' = FALSE

(* One transaction: the password, and every session revoked.               *)
NewPassword ==
    /\ user.password < MaxPassword
    /\ user' = [user EXCEPT !.password = @ + 1]
    /\ tokens' = Revoked(TokenIds)
    /\ raced' = (raced \/ Issuing # {}) /\ kept' = FALSE

CommitChange(p) ==
    /\ At(p, "write")
    /\ NewPassword
    /\ opened' = [opened EXCEPT ![p] = user.password + 1]
    /\ Goto(p, "reread")
    /\ UNCHANGED <<suspended, access, call, closedFor, reopened>>

(* The user is read again, for the session that answers.                   *)
Reread(p) ==
    /\ At(p, "reread")
    /\ Goto(p, "issue") /\ UNCHANGED <<call, opened>> /\ ReadOnly

(* An administrator makes a temporary password (SystemUsersService).       *)
ResetPassword ==
    /\ NewPassword
    /\ UNCHANGED <<suspended, access, procVars, closedFor, reopened>>

(* So does the older page of users (UsersService), and revokes nothing.    *)
ResetKeepingSessions ==
    /\ user.password < MaxPassword
    /\ user' = [user EXCEPT !.password = @ + 1]
    /\ kept' = TRUE
    /\ UNCHANGED <<suspended, tokens, access, procVars, closedFor, reopened, raced>>

(* updateStatus, of either page.                                           *)
SetActive(active) ==
    /\ user' = [user EXCEPT !.active = active]
    /\ closedFor' = 0 /\ reopened' = FALSE
    /\ UNCHANGED <<suspended, tokens, access, procVars, raced, kept>>

SetSuspended(value) ==
    /\ suspended' = value
    /\ closedFor' = 0 /\ reopened' = FALSE
    /\ UNCHANGED <<user, tokens, access, procVars, raced, kept>>

Closed == ~user.active \/ suspended

(* Calls that found the user active and go on by that.                     *)
Admitted == {p \in Procs : pc[p] \in {"issue", "write", "reread"}}

Tick ==
    /\ \/ \E t \in TokenIds : access[t] > 0
       \/ Closed /\ closedFor < TTL
    /\ access' = [t \in TokenIds |-> IF access[t] > 0 THEN access[t] - 1 ELSE 0]
    /\ closedFor' = IF ~Closed \/ Admitted # {} \/ closedFor = TTL THEN closedFor
                    ELSE closedFor + 1
    /\ UNCHANGED <<user, suspended, tokens, procVars, reopened, raced, kept>>
-----------------------------------------------------------------------------
Init ==
    /\ user = [active |-> TRUE, password |-> 0]
    /\ suspended = FALSE
    /\ tokens = [t \in TokenIds |-> NoToken]
    /\ access = [t \in TokenIds |-> 0]
    /\ pc = [p \in Procs |-> "idle"]
    /\ call = [p \in Procs |-> NoCall]
    /\ opened = [p \in Procs |-> 0]
    /\ closedFor = 0 /\ reopened = FALSE /\ raced = FALSE /\ kept = FALSE

Serve(p) ==
    \/ Login(p) \/ BeginRefresh(p) \/ Revoke(p) \/ ReadUser(p) \/ Issue(p)
    \/ BeginChange(p) \/ CommitChange(p) \/ Reread(p) \/ Abort(p)

Next ==
    \/ \E p \in Procs : Serve(p)
    \/ \E t \in TokenIds : Logout(t)
    \/ \E b \in BOOLEAN : SetActive(b) \/ SetSuspended(b)
    \/ ResetPassword \/ ResetKeepingSessions \/ Tick

Spec == Init /\ [][Next]_vars
-----------------------------------------------------------------------------
(* Correctness.                                                            *)

(* Every variable has its shape.                                           *)
TypeOK ==
    /\ user \in Users
    /\ suspended \in BOOLEAN /\ reopened \in BOOLEAN
    /\ raced \in BOOLEAN /\ kept \in BOOLEAN
    /\ tokens \in [TokenIds -> [status: {"none", "live", "revoked"},
                                opened: 0..MaxPassword, from: SUBSET TokenIds]]
    /\ access \in [TokenIds -> 0..TTL]
    /\ pc \in [Procs -> {"idle", "revoke", "user", "issue", "write", "reread"}]
    /\ call \in [Procs -> {NoCall, [op |-> "login"], [op |-> "change"]}
                              \cup [op: {"refresh"}, token: TokenIds]]
    /\ opened \in [Procs -> 0..MaxPassword]
    /\ closedFor \in 0..TTL

(* A token is exchanged at most once, and not once it was revoked by       *)
(* another: of two renewals with the same cookie one gets a session.       *)
ExchangedOnce ==
    \A t \in TokenIds :
        /\ Cardinality({s \in TokenIds : t \in tokens[s].from}) <= 1
        /\ Live(t) => \A s \in TokenIds : t \notin tokens[s].from

(* A session that is open was opened with the password the user has now.   *)
(* A login or renewal that had passed its checks when the password changed *)
(* escapes; and the sessions that one of the two resets does not revoke    *)
(* (ResetKeepingSessions), until the password is next changed.             *)
OpenedWithThePassword ==
    ~raced /\ ~kept => \A t \in TokenIds : Live(t) => tokens[t].opened = user.password

(* A user who was deactivated, or whose company was suspended, is out when *)
(* an access token's life has gone by, unless a call was already admitted, *)
(* or he changed his password meanwhile, which an active user of a         *)
(* suspended company may.                                                  *)
ClosedWithinTTL ==
    closedFor = TTL /\ ~reopened /\ Admitted = {} => \A t \in TokenIds : access[t] = 0
=============================================================================
