------------------------------ MODULE Accounts ------------------------------
(***************************************************************************)
(* Accounts, sessions and API keys of a standalone deployment:             *)
(* src/api/auth_standalone.py, auth_common.py (SSO), api_keys.py,          *)
(* admin_users.py, test_cleanup.py and the authentication dependencies of  *)
(* src/security/auth.py and api_key_auth.py.                               *)
(*                                                                         *)
(* A behaviour runs a cast of HTTP requests concurrently.  Each statement  *)
(* a handler sends to the database is one step, so that what a request has *)
(* read may be stale when it writes.  A JWT is the record [type, sub]: it  *)
(* carries nothing that a later change of the user row could invalidate,   *)
(* and no server-side state remembers it.  No fairness is assumed: a       *)
(* request whose client or instance dies takes no further step.            *)
(***************************************************************************)
EXTENDS Naturals, Sequences, FiniteSets

CONSTANTS
    Casts,        \* sets of requests; a behaviour runs one of them
    MaxUsers,     \* bound on the user rows ever inserted
    MaxKeys       \* bound on the API key rows ever inserted

VARIABLES
    cast,         \* the requests of this behaviour
    users,        \* the users table: row ids are positions
    keys,         \* the api_keys table
    tokens,       \* the JWTs that clients hold
    req           \* progress of each request: [pc, role, saw]

accountVars == <<cast, users, keys, tokens, req>>

None == "none"
Final == {"ok", "refused", "error", "dead"}

Emails == {"ann", "bob", "root", "cat", "dan"}
\* schema.prisma, model User; gone marks a row removed by a hard delete.
UserRow == [email : Emails, password : {None, "old", "new", "temp"},
            role : {"member", "admin"}, active : BOOLEAN, mustChange : BOOLEAN, gone : BOOLEAN]
\* schema.prisma, model ApiKey.
KeyRow == [user : 1..MaxUsers, revoked : BOOLEAN]
TokenTypes == {"access", "refresh", "password_change"}

Present(u) == u \in DOMAIN users /\ ~users[u].gone
UsersWith(email) == {u \in DOMAIN users : Present(u) /\ users[u].email = email}
Pair(u) == {[type |-> t, sub |-> u] : t \in {"access", "refresh"}}
Holds(type, u) == [type |-> type, sub |-> u] \in tokens

At(r, pc) == r \in cast /\ req[r].pc = pc
Goto(r, pc) == req' = [req EXCEPT ![r].pc = pc]
GotoSeeing(r, pc, row) == req' = [req EXCEPT ![r].pc = pc, ![r].saw = row]
SetUser(u, row) == users' = [users EXCEPT ![u] = row]

-----------------------------------------------------------------------------
(* The authentication dependencies.                                        *)

JwtOps == {"create_key", "revoke_key", "delete_account", "create_workflow"}
RoleOps == {"update", "delete", "grant", "revoke", "run", "get", "build"}
UserAdminOps == {"set_role", "deactivate", "reactivate", "admin_revoke_key", "admin_reset"}
OtherAdminOps == {"flags", "owner", "put_llm_key", "delete_llm_key"}
AdminOps == UserAdminOps \cup OtherAdminOps
OpenOps == {"register", "sso", "login", "refresh", "change_password", "forgot_password",
            "reset_password", "run_external"}
Ops == JwtOps \cup RoleOps \cup AdminOps \cup OpenOps

\* _ensure_active_and_no_pending_password_change
MayCall(u) == Present(u) /\ users[u].active /\ ~users[u].mustChange

MayCallThoughPending(u) == Present(u) /\ users[u].active

\* get_current_user_id: the token verifies, then the live row decides.
Authenticate(r) ==
    /\ At(r, "idle")
    /\ r.op \in JwtOps \cup RoleOps \cup AdminOps
    /\ Holds("access", r.by)
    /\ Goto(r, IF MayCall(r.by) THEN "auth" ELSE "refused")
    /\ UNCHANGED <<cast, users, keys, tokens>>

\* get_current_role, and ensure_admin for the admin routes: a second read of
\* the user row.
ReadRole(r) ==
    LET role == IF Present(r.by) THEN users[r.by].role ELSE "member" IN
    /\ At(r, "auth")
    /\ r.op \in RoleOps \cup AdminOps
    /\ req' = [req EXCEPT ![r].role = role,
                          ![r].pc = IF r.op \in AdminOps /\ role # "admin"
                                    THEN "refused" ELSE "role"]
    /\ UNCHANGED <<cast, users, keys, tokens>>

\* get_current_api_key_user, first query: the key row by its prefix.  A key that
\* was made with an expiry may have expired.
FindKey(r) ==
    /\ At(r, "idle")
    /\ r.op = "run_external"
    /\ r.key \in DOMAIN keys
    /\ \E pc \in {"refused"} \cup (IF keys[r.key].revoked THEN {} ELSE {"key"}) : Goto(r, pc)
    /\ UNCHANGED <<cast, users, keys, tokens>>

OwnerUnchecked(u) == Present(u)

OwnerMayCall(u) == Present(u) /\ users[u].active

\* get_current_api_key_user, after lastUsedAt is touched: the owner's row.
FindKeyOwner(r) ==
    LET u == keys[r.key].user IN
    /\ At(r, "key")
    /\ req' = [req EXCEPT ![r].pc = IF OwnerMayCall(u) THEN "role" ELSE "refused",
                          ![r].role = IF Present(u) THEN users[u].role ELSE "member"]
    /\ UNCHANGED <<cast, users, keys, tokens>>

-----------------------------------------------------------------------------
(* Registration, SSO, login, refresh.                                      *)

\* register / sso_exchange: look the address up.
FindAccount(r) ==
    /\ At(r, "idle")
    /\ r.op \in {"register", "sso"}
    /\ LET found == UsersWith(r.email) IN
       IF found = {} THEN Goto(r, "found") /\ UNCHANGED tokens
       ELSE IF r.op = "register" THEN Goto(r, "refused") /\ UNCHANGED tokens
       ELSE \E u \in found :
              IF users[u].active
              THEN GotoSeeing(r, "ok", u) /\ tokens' = tokens \cup Pair(u)
              ELSE Goto(r, "refused") /\ UNCHANGED tokens
    /\ UNCHANGED <<cast, users, keys>>

\* The unique constraint on the address answers a racing insert with an
\* exception that neither handler catches.
CreateAccount(r) ==
    /\ At(r, "found")
    /\ r.op \in {"register", "sso"}
    /\ Len(users) < MaxUsers
    /\ IF UsersWith(r.email) # {}
       THEN Goto(r, "error") /\ UNCHANGED <<users, tokens>>
       ELSE /\ users' = Append(users, [email |-> r.email, role |-> "member", active |-> TRUE,
                                       password |-> IF r.op = "sso" THEN None ELSE "old",
                                       mustChange |-> FALSE, gone |-> FALSE])
            /\ GotoSeeing(r, "ok", Len(users) + 1)
            /\ tokens' = tokens \cup Pair(Len(users) + 1)
    /\ UNCHANGED <<cast, keys>>

\* login with the password r.arg.
Login(r) ==
    /\ At(r, "idle")
    /\ r.op = "login"
    /\ LET match == {u \in UsersWith(r.email) : users[u].password = r.arg} IN
       IF \E u \in match : users[u].active
       THEN \E u \in match :
              /\ GotoSeeing(r, "ok", u)
              /\ tokens' = tokens \cup
                   (IF users[u].mustChange
                    THEN {[type |-> "password_change", sub |-> u]} ELSE Pair(u))
       ELSE Goto(r, "refused") /\ UNCHANGED tokens
    /\ UNCHANGED <<cast, users, keys>>

\* refresh: a new pair; the presented refresh token stays valid.
Refresh(r) ==
    /\ At(r, "idle")
    /\ r.op = "refresh"
    /\ Holds("refresh", r.by)
    /\ IF MayCall(r.by)
       THEN GotoSeeing(r, "ok", r.by) /\ tokens' = tokens \cup Pair(r.by)
       ELSE Goto(r, "refused") /\ UNCHANGED tokens
    /\ UNCHANGED <<cast, users, keys>>

-----------------------------------------------------------------------------
(* Passwords.                                                              *)

\* get_user_id_allow_password_change: either kind of token, an active user.
ChangeAuthenticate(r) ==
    /\ At(r, "idle")
    /\ r.op = "change_password"
    /\ Holds("access", r.by) \/ Holds("password_change", r.by)
    /\ Goto(r, IF MayCallThoughPending(r.by) THEN "auth" ELSE "refused")
    /\ UNCHANGED <<cast, users, keys, tokens>>

\* change_password: the current password is verified against the row read here.
ChangeVerify(r) ==
    /\ At(r, "auth")
    /\ r.op = "change_password"
    /\ Goto(r, IF Present(r.by) /\ users[r.by].password = r.arg THEN "found" ELSE "refused")
    /\ UNCHANGED <<cast, users, keys, tokens>>

\* forgot_password: a link is mailed to any password account; the mail may
\* fail or be lost, and the answer is the same.
ForgotPassword(r) ==
    /\ At(r, "idle")
    /\ r.op = "forgot_password"
    /\ Goto(r, "ok")
    /\ \E mailed \in SUBSET {[type |-> "password_change", sub |-> u] :
                               u \in {v \in UsersWith(r.email) : users[v].password # None}} :
          tokens' = tokens \cup mailed
    /\ UNCHANGED <<cast, users, keys>>

\* reset_password: a password_change token is all it asks for.
ResetVerify(r) ==
    /\ At(r, "idle")
    /\ r.op = "reset_password"
    /\ Holds("password_change", r.by)
    /\ Goto(r, IF MayCallThoughPending(r.by) THEN "found" ELSE "refused")
    /\ UNCHANGED <<cast, users, keys, tokens>>

StorePassword(r, op) ==
    /\ At(r, "found")
    /\ r.op = op
    /\ IF Present(r.by)
       THEN SetUser(r.by, [users[r.by] EXCEPT !.password = "new", !.mustChange = FALSE])
       ELSE UNCHANGED users
    /\ Goto(r, "ok")
    /\ UNCHANGED <<cast, keys, tokens>>

\* Both end with an update by id.
ChangePassword(r) == StorePassword(r, "change_password")
ResetPassword(r) == StorePassword(r, "reset_password")

-----------------------------------------------------------------------------
(* API keys.                                                               *)

\* create_api_key: the insert fails when the owner row is gone (foreign key).
CreateKey(r) ==
    /\ At(r, "auth")
    /\ r.op = "create_key"
    /\ Len(keys) < MaxKeys
    /\ IF Present(r.by)
       THEN /\ keys' = Append(keys, [user |-> r.by, revoked |-> FALSE])
            /\ GotoSeeing(r, "ok", Len(keys) + 1)
       ELSE Goto(r, "error") /\ UNCHANGED keys
    /\ UNCHANGED <<cast, users, tokens>>

\* revoke_api_key / admin_revoke_api_key: key r.key of user `of`.
RevokeRead(r, of) ==
    /\ Goto(r, IF r.key \in DOMAIN keys /\ keys[r.key].user = of /\ Present(of) THEN "found" ELSE "refused")
    /\ UNCHANGED <<cast, users, keys, tokens>>

RevokeOwnKey(r) ==
    /\ At(r, "auth")
    /\ r.op = "revoke_key"
    /\ RevokeRead(r, r.by)

RevokeUsersKey(r) ==
    /\ At(r, "role")
    /\ r.op = "admin_revoke_key"
    /\ RevokeRead(r, r.on)

RevokeWrite(r) ==
    /\ At(r, "found")
    /\ r.op \in {"revoke_key", "admin_revoke_key"}
    /\ keys' = [keys EXCEPT ![r.key].revoked = TRUE]
    /\ Goto(r, "ok")
    /\ UNCHANGED <<cast, users, tokens>>

-----------------------------------------------------------------------------
(* Administration of users.                                                *)

\* Every handler first reads its target; saw keeps how many keys there were.
FindTarget(r) ==
    /\ At(r, "role")
    /\ r.op \in UserAdminOps \ {"admin_revoke_key"}
    /\ GotoSeeing(r, IF Present(r.on) THEN "found" ELSE "refused", Len(keys))
    /\ UNCHANGED <<cast, users, keys, tokens>>

DeactivateKeysNot(r) ==
    /\ At(r, "found")
    /\ r.op = "deactivate"
    /\ Goto(r, "revoked")
    /\ UNCHANGED <<cast, users, keys, tokens>>

\* deactivate_user: the keys first, the flag in a second statement.
DeactivateKeys(r) ==
    /\ At(r, "found")
    /\ r.op = "deactivate"
    /\ keys' = [k \in DOMAIN keys |-> IF keys[k].user = r.on
                                      THEN [keys[k] EXCEPT !.revoked = TRUE] ELSE keys[k]]
    /\ Goto(r, "revoked")
    /\ UNCHANGED <<cast, users, tokens>>

\* The last statement of each handler: an update by id.  Of a row that is gone by
\* then there is nothing to answer with, except the new password.
AdminUpdate(r, op, pc, row) ==
    /\ At(r, pc)
    /\ r.op = op
    /\ IF Present(r.on) THEN SetUser(r.on, row) ELSE UNCHANGED users
    /\ Goto(r, IF Present(r.on) \/ op = "admin_reset" THEN "ok" ELSE "error")
    /\ UNCHANGED <<cast, keys, tokens>>

ChangeRole(r) == AdminUpdate(r, "set_role", "found", [users[r.on] EXCEPT !.role = r.arg])

Deactivate(r) == AdminUpdate(r, "deactivate", "revoked", [users[r.on] EXCEPT !.active = FALSE])

Reactivate(r) == AdminUpdate(r, "reactivate", "found", [users[r.on] EXCEPT !.active = TRUE])

AdminResetPassword(r) ==
    AdminUpdate(r, "admin_reset", "found",
                [users[r.on] EXCEPT !.password = "temp", !.mustChange = TRUE])

AccountStep(r) ==
    \/ Authenticate(r) \/ ReadRole(r) \/ FindKey(r) \/ FindKeyOwner(r)
    \/ FindAccount(r) \/ CreateAccount(r) \/ Login(r) \/ Refresh(r)
    \/ ChangeAuthenticate(r) \/ ChangeVerify(r) \/ ForgotPassword(r)
    \/ ResetVerify(r) \/ ChangePassword(r) \/ ResetPassword(r)
    \/ CreateKey(r) \/ RevokeOwnKey(r) \/ RevokeUsersKey(r) \/ RevokeWrite(r)
    \/ FindTarget(r) \/ DeactivateKeys(r)
    \/ ChangeRole(r) \/ Deactivate(r) \/ Reactivate(r) \/ AdminResetPassword(r)

AccountTypeOK ==
    /\ cast \in Casts
    /\ users \in Seq(UserRow) /\ Len(users) <= MaxUsers
    /\ keys \in Seq(KeyRow) /\ Len(keys) <= MaxKeys
    /\ tokens \subseteq [type : TokenTypes, sub : 1..MaxUsers]
    /\ DOMAIN req = cast
=============================================================================
