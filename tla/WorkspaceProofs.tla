-------------------------- MODULE WorkspaceProofs --------------------------
(***************************************************************************)
(* Proofs about Workspace: accounts, stored workflows, builder sessions    *)
(* and provider keys under any number of concurrent requests.  Known says  *)
(* what a request knows at each of its program points; the safety          *)
(* properties are proved on top of it, one invariant each.                 *)
(***************************************************************************)
EXTENDS Workspace, TLAPS

Early == {"idle", "refused", "error", "dead"}
Turns == {"policy", "diagnosing", "planning", "building", "persist"}
Points == Early \cup Turns \cup {"ok", "auth", "role", "key", "found", "revoked", "receiver", "may",
                                 "assignee", "emptied", "unshared", "session", "stored"}
Signed == JwtOps \cup RoleOps \cup AdminOps

\* Every request has its program counter, the role it read and what it saw.
Fields == {"pc", "role", "saw"}
Shaped(r) == req[r] = [f \in Fields |-> req[r][f]]
Shape == req = [r \in cast |-> req[r]] /\ (\A r \in cast : Shaped(r))

\* A step of r leaves the other requests alone.
Only(r) == /\ r \in cast /\ cast' = cast /\ Shape'
           /\ \A q \in cast : q # r => req'[q] = req[q]

\* The record of r becomes new.
LEMMA OneMoves ==
    ASSUME Shape, cast' = cast, NEW r \in cast, NEW new, new = [f \in Fields |-> new[f]],
           req' = [q \in cast |-> IF q = r THEN new ELSE req[q]]
    PROVE  Only(r) /\ req'[r] = new
  <1>1. \A q \in cast : q # r => req'[q] = req[q]
    OBVIOUS
  <1>2. req'[r] = new
    OBVIOUS
  <1>3. Shaped(r)'
    BY <1>2 DEF Shaped
  <1>4. \A q \in cast : Shaped(q)'
    BY <1>1, <1>3 DEF Shape, Shaped
  <1> QED
    BY <1>1, <1>2, <1>4 DEF Shape, Only

LEMMA GotoIs ==
    ASSUME Shape, cast' = cast, NEW r \in cast, NEW pc, Goto(r, pc)
    PROVE  Only(r) /\ req'[r].pc = pc /\ req'[r].role = req[r].role /\ req'[r].saw = req[r].saw
  <1>1. PICK new : new = [req[r] EXCEPT !.pc = pc]
    OBVIOUS
  <1>2. /\ new = [f \in Fields |-> new[f]]
        /\ new.pc = pc /\ new.role = req[r].role /\ new.saw = req[r].saw
    BY <1>1 DEF Shape, Shaped, Fields
  <1>3. req' = [q \in cast |-> IF q = r THEN new ELSE req[q]]
    BY <1>1 DEF Shape, Goto
  <1> QED
    BY <1>2, <1>3, OneMoves

LEMMA GotoSeeingIs ==
    ASSUME Shape, cast' = cast, NEW r \in cast, NEW pc, NEW row, GotoSeeing(r, pc, row)
    PROVE  Only(r) /\ req'[r].pc = pc /\ req'[r].role = req[r].role /\ req'[r].saw = row
  <1>1. PICK new : new = [req[r] EXCEPT !.pc = pc, !.saw = row]
    OBVIOUS
  <1>2. /\ new = [f \in Fields |-> new[f]]
        /\ new.pc = pc /\ new.role = req[r].role /\ new.saw = row
    BY <1>1 DEF Shape, Shaped, Fields
  <1>3. req' = [q \in cast |-> IF q = r THEN new ELSE req[q]]
    BY <1>1 DEF Shape, GotoSeeing
  <1> QED
    BY <1>2, <1>3, OneMoves

\* The two dependencies that set the role.
LEMMA RoleReadIs ==
    ASSUME Shape, cast' = cast, NEW r \in cast, NEW pc, NEW role,
           req' = [req EXCEPT ![r].role = role, ![r].pc = pc]
    PROVE  Only(r) /\ req'[r].pc = pc /\ req'[r].role = role /\ req'[r].saw = req[r].saw
  <1>1. PICK new : new = [req[r] EXCEPT !.role = role, !.pc = pc]
    OBVIOUS
  <1>2. /\ new = [f \in Fields |-> new[f]]
        /\ new.pc = pc /\ new.role = role /\ new.saw = req[r].saw
    BY <1>1 DEF Shape, Shaped, Fields
  <1>3. req' = [q \in cast |-> IF q = r THEN new ELSE req[q]]
    BY <1>1 DEF Shape
  <1> QED
    BY <1>2, <1>3, OneMoves

LEMMA OwnerReadIs ==
    ASSUME Shape, cast' = cast, NEW r \in cast, NEW pc, NEW role,
           req' = [req EXCEPT ![r].pc = pc, ![r].role = role]
    PROVE  Only(r) /\ req'[r].pc = pc /\ req'[r].role = role /\ req'[r].saw = req[r].saw
  <1>1. PICK new : new = [req[r] EXCEPT !.pc = pc, !.role = role]
    OBVIOUS
  <1>2. /\ new = [f \in Fields |-> new[f]]
        /\ new.pc = pc /\ new.role = role /\ new.saw = req[r].saw
    BY <1>1 DEF Shape, Shaped, Fields
  <1>3. req' = [q \in cast |-> IF q = r THEN new ELSE req[q]]
    BY <1>1 DEF Shape
  <1> QED
    BY <1>2, <1>3, OneMoves

\* What a turn leaves to be stored.
TurnFields == {"row", "session", "base", "result", "proposal"}
HasTurn(saw) == saw = [f \in TurnFields |-> saw[f]]
LEMMA LeavesIs ==
    ASSUME Shape, cast' = cast, NEW r \in cast, NEW canvas, NEW base, Leaves(r, canvas, base),
           HasTurn(req[r].saw)
    PROVE  /\ Only(r) /\ req'[r].pc = "persist" /\ req'[r].role = req[r].role
           /\ HasTurn(req'[r].saw)
           /\ req'[r].saw.row = req[r].saw.row /\ req'[r].saw.session = req[r].saw.session
           /\ req'[r].saw.base = base /\ req'[r].saw.result = canvas /\ req'[r].saw.proposal = FALSE
  <1>1. PICK old : old = req[r].saw
    OBVIOUS
  <1>2. PICK turn : turn = [old EXCEPT !.result = canvas, !.base = base, !.proposal = FALSE]
    OBVIOUS
  <1>3. /\ HasTurn(turn)
        /\ turn.row = old.row /\ turn.session = old.session
        /\ turn.base = base /\ turn.result = canvas /\ turn.proposal = FALSE
    BY <1>1, <1>2 DEF TurnFields, HasTurn
  <1>4. PICK new : new = [req[r] EXCEPT !.pc = "persist", !.saw.result = canvas, !.saw.base = base,
                                        !.saw.proposal = FALSE]
    OBVIOUS
  <1>7. PICK t1 : t1 = [old EXCEPT !.result = canvas]
    OBVIOUS
  <1>8. PICK t2 : t2 = [t1 EXCEPT !.base = base]
    OBVIOUS
  <1>9. PICK t3 : t3 = [t2 EXCEPT !.proposal = FALSE]
    OBVIOUS
  <1>10. turn = t3
    BY <1>2, <1>7, <1>8, <1>9, Zenon
  <1>11. new.saw = t3
    BY <1>1, <1>4, <1>7, <1>8, <1>9 DEF Shape, Shaped, Fields
  <1>5. /\ new = [f \in Fields |-> new[f]]
        /\ new.pc = "persist" /\ new.role = req[r].role /\ new.saw = turn
    <2>1. new = [f \in Fields |-> new[f]]
      BY <1>4 DEF Shape, Shaped, Fields
    <2>2. new.pc = "persist"
      BY <1>4 DEF Shape, Shaped, Fields
    <2>3. new.role = req[r].role
      BY <1>4 DEF Shape, Shaped, Fields
    <2> QED
      BY <2>1, <2>2, <2>3, <1>10, <1>11
  <1>6. req' = [q \in cast |-> IF q = r THEN new ELSE req[q]]
    BY <1>4 DEF Shape, Leaves
  <1> QED
    BY <1>1, <1>3, <1>5, <1>6, OneMoves

-----------------------------------------------------------------------------
(* Where a request goes.                                                   *)

\* Which requests reach which point.
Routed(r) ==
    /\ req[r].pc \in Points /\ req[r].role \in {None, "member", "admin"}
    /\ req[r].pc = "auth" => r.op \in Signed \cup {"change_password"}
    /\ req[r].pc = "role" => r.op \in RoleOps \cup AdminOps \cup {"run_external"}
    /\ req[r].pc = "key" => r.op = "run_external"
    /\ req[r].pc = "found" => r.op \in {"register", "sso", "change_password", "reset_password",
                                        "revoke_key", "delete_account"} \cup UserAdminOps \cup LlmOps
    /\ req[r].pc = "revoked" => r.op = "deactivate"
    /\ req[r].pc = "receiver" => r.op \in {"owner", "grant"}
    /\ req[r].pc = "may" => r.op \in RoleOps \cup {"flags", "owner", "run_external"}
    /\ req[r].pc = "assignee" => r.op \in {"get", "update", "build"}
    /\ req[r].pc \in {"emptied", "unshared"} => r.op = "delete_account"
    /\ req[r].pc \in {"session"} \cup Turns => r.op = "build"
    /\ req[r].pc = "stored" => r.op \in LlmOps

\* The points that a request for a workflow reaches only once it is admitted.
Late == {"may", "receiver", "ok"} \cup Turns
Shielded == RoleOps \cup {"run_external"}

\* The steps that decide what a caller is entitled to, and what the others do.
Admits(r) ==
    \/ Authenticate(r) \/ ReadRole(r) \/ FindKey(r) \/ FindKeyOwner(r)
    \/ Refresh(r) \/ ChangeAuthenticate(r) \/ ResetVerify(r)
    \/ ReadWorkflow(r) \/ ReadAssignment(r) \/ FindSlug(r)
GoesOn(r) ==
    /\ req'[r].role = req[r].role
    /\ \/ req'[r].pc \in Early
       \/ r.op \in {"register", "sso", "login", "forgot_password"}
       \/ /\ req[r].pc \notin Early \cup {"key"}
          /\ req[r].pc = "auth" => r.op \notin AdminOps
          /\ req'[r].pc \in Late /\ r.op \in Shielded => req[r].pc \in Late
\* The only steps that lead to some of the points.
Comes(r) ==
    /\ req'[r].pc \in Turns => BuilderStep(r)
    /\ req'[r].pc = "found" /\ r.op \in {"revoke_key", "admin_revoke_key"}
       => RevokeOwnKey(r) \/ RevokeUsersKey(r)
    /\ req'[r].pc \in {"found", "revoked", "ok"} /\ r.op = "deactivate"
       => FindTarget(r) \/ DeactivateKeys(r) \/ Deactivate(r)
    /\ req'[r].pc = "receiver" => FindReceiver(r)
    /\ req'[r].pc = "may" => ReadWorkflow(r) \/ ReadAssignment(r) \/ FindSlug(r)
    /\ req'[r].pc = "assignee" => ReadWorkflow(r)
    /\ req'[r].pc = "stored" => StoreLlmKey(r) \/ DeleteLlmKey(r)
    /\ req'[r].pc = "session" => FindSession(r)
Goes(r) == Only(r) /\ Routed(r)' /\ (Admits(r) \/ GoesOn(r)) /\ Comes(r)

LEMMA SignsIn ==
    ASSUME Shape, NEW r \in cast, Routed(r), users \in Seq(UserRow),
           Authenticate(r) \/ ReadRole(r) \/ FindKey(r) \/ FindKeyOwner(r)
    PROVE  Goes(r)
  <1> USE DEF Points, Early, Turns, Late, Signed, Shielded, JwtOps, RoleOps, UserAdminOps, OtherAdminOps, AdminOps,
              LlmOps
  <1>1. CASE Authenticate(r)
    <2>1. PICK pc \in {"auth", "refused"} : Goto(r, pc)
      BY <1>1 DEF Authenticate
    <2>2. Only(r) /\ req'[r].pc \in {"auth", "refused"} /\ req'[r].role = req[r].role
      BY <1>1, <2>1, GotoIs DEF Authenticate
    <2> QED
      BY <1>1, <2>2 DEF Authenticate, At, Goes, GoesOn, Admits, Comes, Routed
  <1>2. CASE ReadRole(r)
    <2>3. PICK role : role = IF Present(r.by) THEN users[r.by].role ELSE "member"
      OBVIOUS
    <2>4. PICK pc : pc = IF r.op \in AdminOps /\ role # "admin" THEN "refused" ELSE "role"
      OBVIOUS
    <2>5. role \in {"member", "admin"} /\ pc \in {"role", "refused"}
      <3>1. Present(r.by) => users[r.by] \in UserRow
        BY DEF Present
      <3>2. role \in {"member", "admin"}
        BY <2>3, <3>1 DEF UserRow
      <3> QED
        BY <2>4, <3>2
    <2>1. req' = [req EXCEPT ![r].role = role, ![r].pc = pc]
      BY <1>2, <2>3, <2>4, Zenon DEF ReadRole
    <2>2. Only(r) /\ req'[r].pc \in {"role", "refused"} /\ req'[r].role \in {"member", "admin"}
      <3>1. cast' = cast
        BY <1>2 DEF ReadRole
      <3> QED
        BY <2>1, <2>5, <3>1, RoleReadIs
    <2> QED
      BY <1>2, <2>2 DEF ReadRole, At, Goes, GoesOn, Admits, Comes, Routed
  <1>3. CASE FindKey(r)
    <2>1. PICK pc \in {"key", "refused"} : Goto(r, pc)
      BY <1>3 DEF FindKey
    <2>2. Only(r) /\ req'[r].pc \in {"key", "refused"} /\ req'[r].role = req[r].role
      BY <1>3, <2>1, GotoIs DEF FindKey
    <2> QED
      BY <1>3, <2>2 DEF FindKey, At, Goes, GoesOn, Admits, Comes, Routed
  <1>4. CASE FindKeyOwner(r)
    <2>3. PICK role : role = IF Present(keys[r.key].user) THEN users[keys[r.key].user].role ELSE "member"
      OBVIOUS
    <2>4. PICK pc : pc = IF OwnerMayCall(keys[r.key].user) THEN "role" ELSE "refused"
      OBVIOUS
    <2>5. role \in {"member", "admin"} /\ pc \in {"role", "refused"}
      <3>1. Present(keys[r.key].user) => users[keys[r.key].user] \in UserRow
        BY DEF Present
      <3>2. role \in {"member", "admin"}
        BY <2>3, <3>1 DEF UserRow
      <3> QED
        BY <2>4, <3>2
    <2>1. req' = [req EXCEPT ![r].pc = pc, ![r].role = role]
      BY <1>4, <2>3, <2>4, Zenon DEF FindKeyOwner
    <2>2. Only(r) /\ req'[r].pc \in {"role", "refused"} /\ req'[r].role \in {"member", "admin"}
      <3>1. cast' = cast
        BY <1>4 DEF FindKeyOwner
      <3> QED
        BY <2>1, <2>5, <3>1, OwnerReadIs
    <2> QED
      BY <1>4, <2>2 DEF FindKeyOwner, At, Goes, GoesOn, Admits, Comes, Routed
  <1> QED
    BY <1>1, <1>2, <1>3, <1>4

LEMMA EntersAccount ==
    ASSUME Shape, NEW r \in cast, Routed(r),
           FindAccount(r) \/ CreateAccount(r) \/ Login(r) \/ Refresh(r)
    PROVE  Goes(r)
  <1> USE DEF Points, Early, Turns, Late, Signed, Shielded, JwtOps, RoleOps, UserAdminOps, OtherAdminOps, AdminOps,
              LlmOps
  <1>1. CASE FindAccount(r)
    <2>1. \E pc \in {"found", "refused", "ok"} : Goto(r, pc) \/ \E row : GotoSeeing(r, pc, row)
      BY <1>1 DEF FindAccount
    <2>2. Only(r) /\ req'[r].pc \in {"found", "refused", "ok"} /\ req'[r].role = req[r].role
      BY <1>1, <2>1, GotoIs, GotoSeeingIs DEF FindAccount
    <2> QED
      BY <1>1, <2>2 DEF FindAccount, At, Goes, GoesOn, Admits, Comes, Routed
  <1>2. CASE CreateAccount(r)
    <2>1. \E pc \in {"error", "ok"} : Goto(r, pc) \/ \E row : GotoSeeing(r, pc, row)
      BY <1>2 DEF CreateAccount
    <2>2. Only(r) /\ req'[r].pc \in {"error", "ok"} /\ req'[r].role = req[r].role
      BY <1>2, <2>1, GotoIs, GotoSeeingIs DEF CreateAccount
    <2> QED
      BY <1>2, <2>2 DEF CreateAccount, At, Goes, GoesOn, Admits, Comes, Routed
  <1>3. CASE Login(r)
    <2>1. \E pc \in {"ok", "refused"} : Goto(r, pc) \/ \E row : GotoSeeing(r, pc, row)
      BY <1>3 DEF Login
    <2>2. Only(r) /\ req'[r].pc \in {"ok", "refused"} /\ req'[r].role = req[r].role
      BY <1>3, <2>1, GotoIs, GotoSeeingIs DEF Login
    <2> QED
      BY <1>3, <2>2 DEF Login, At, Goes, GoesOn, Admits, Comes, Routed
  <1>4. CASE Refresh(r)
    <2>1. \E pc \in {"ok", "refused"} : Goto(r, pc) \/ \E row : GotoSeeing(r, pc, row)
      BY <1>4 DEF Refresh
    <2>2. Only(r) /\ req'[r].pc \in {"ok", "refused"} /\ req'[r].role = req[r].role
      BY <1>4, <2>1, GotoIs, GotoSeeingIs DEF Refresh
    <2> QED
      BY <1>4, <2>2 DEF Refresh, At, Goes, GoesOn, Admits, Comes, Routed
  <1> QED
    BY <1>1, <1>2, <1>3, <1>4

LEMMA ChangesPassword ==
    ASSUME Shape, NEW r \in cast, Routed(r),
           ChangeAuthenticate(r) \/ ChangeVerify(r) \/ ForgotPassword(r) \/ ResetVerify(r)
           \/ ChangePassword(r) \/ ResetPassword(r)
    PROVE  Goes(r)
  <1> USE DEF Points, Early, Turns, Late, Signed, Shielded, JwtOps, RoleOps, UserAdminOps, OtherAdminOps, AdminOps,
              LlmOps
  <1>1. CASE ChangeAuthenticate(r)
    <2>1. PICK pc \in {"auth", "refused"} : Goto(r, pc)
      BY <1>1 DEF ChangeAuthenticate
    <2>2. Only(r) /\ req'[r].pc \in {"auth", "refused"} /\ req'[r].role = req[r].role
      BY <1>1, <2>1, GotoIs DEF ChangeAuthenticate
    <2> QED
      BY <1>1, <2>2 DEF ChangeAuthenticate, At, Goes, GoesOn, Admits, Comes, Routed
  <1>2. CASE ChangeVerify(r)
    <2>1. PICK pc \in {"found", "refused"} : Goto(r, pc)
      BY <1>2 DEF ChangeVerify
    <2>2. Only(r) /\ req'[r].pc \in {"found", "refused"} /\ req'[r].role = req[r].role
      BY <1>2, <2>1, GotoIs DEF ChangeVerify
    <2> QED
      BY <1>2, <2>2 DEF ChangeVerify, At, Goes, GoesOn, Admits, Comes, Routed
  <1>3. CASE ForgotPassword(r)
    <2>1. Goto(r, "ok")
      BY <1>3 DEF ForgotPassword
    <2>2. Only(r) /\ req'[r].pc = "ok" /\ req'[r].role = req[r].role
      BY <1>3, <2>1, GotoIs DEF ForgotPassword
    <2> QED
      BY <1>3, <2>2 DEF ForgotPassword, At, Goes, GoesOn, Admits, Comes, Routed
  <1>4. CASE ResetVerify(r)
    <2>1. PICK pc \in {"found", "refused"} : Goto(r, pc)
      BY <1>4 DEF ResetVerify
    <2>2. Only(r) /\ req'[r].pc \in {"found", "refused"} /\ req'[r].role = req[r].role
      BY <1>4, <2>1, GotoIs DEF ResetVerify
    <2> QED
      BY <1>4, <2>2 DEF ResetVerify, At, Goes, GoesOn, Admits, Comes, Routed
  <1>5. CASE ChangePassword(r)
    <2>1. Goto(r, "ok")
      BY <1>5 DEF ChangePassword, StorePassword
    <2>2. Only(r) /\ req'[r].pc = "ok" /\ req'[r].role = req[r].role
      BY <1>5, <2>1, GotoIs DEF ChangePassword, StorePassword
    <2> QED
      BY <1>5, <2>2 DEF ChangePassword, StorePassword, At, Goes, GoesOn, Admits, Comes, Routed
  <1>6. CASE ResetPassword(r)
    <2>1. Goto(r, "ok")
      BY <1>6 DEF ResetPassword, StorePassword
    <2>2. Only(r) /\ req'[r].pc = "ok" /\ req'[r].role = req[r].role
      BY <1>6, <2>1, GotoIs DEF ResetPassword, StorePassword
    <2> QED
      BY <1>6, <2>2 DEF ResetPassword, StorePassword, At, Goes, GoesOn, Admits, Comes, Routed
  <1> QED
    BY <1>1, <1>2, <1>3, <1>4, <1>5, <1>6

LEMMA UsesKeys ==
    ASSUME Shape, NEW r \in cast, Routed(r),
           CreateKey(r) \/ RevokeOwnKey(r) \/ RevokeUsersKey(r) \/ RevokeWrite(r)
           \/ FindTarget(r) \/ DeactivateKeys(r)
    PROVE  Goes(r)
  <1> USE DEF Points, Early, Turns, Late, Signed, Shielded, JwtOps, RoleOps, UserAdminOps, OtherAdminOps, AdminOps,
              LlmOps
  <1>1. CASE CreateKey(r)
    <2>1. \E pc \in {"ok", "error"} : Goto(r, pc) \/ \E row : GotoSeeing(r, pc, row)
      BY <1>1 DEF CreateKey
    <2>2. Only(r) /\ req'[r].pc \in {"ok", "error"} /\ req'[r].role = req[r].role
      BY <1>1, <2>1, GotoIs, GotoSeeingIs DEF CreateKey
    <2> QED
      BY <1>1, <2>2 DEF CreateKey, At, Goes, GoesOn, Admits, Comes, Routed
  <1>2. CASE RevokeOwnKey(r)
    <2>1. PICK pc \in {"found", "refused"} : Goto(r, pc)
      BY <1>2 DEF RevokeOwnKey, RevokeRead
    <2>2. Only(r) /\ req'[r].pc \in {"found", "refused"} /\ req'[r].role = req[r].role
      BY <1>2, <2>1, GotoIs DEF RevokeOwnKey, RevokeRead
    <2> QED
      BY <1>2, <2>2 DEF RevokeOwnKey, RevokeRead, At, Goes, GoesOn, Admits, Comes, Routed
  <1>3. CASE RevokeUsersKey(r)
    <2>1. PICK pc \in {"found", "refused"} : Goto(r, pc)
      BY <1>3 DEF RevokeUsersKey, RevokeRead
    <2>2. Only(r) /\ req'[r].pc \in {"found", "refused"} /\ req'[r].role = req[r].role
      BY <1>3, <2>1, GotoIs DEF RevokeUsersKey, RevokeRead
    <2> QED
      BY <1>3, <2>2 DEF RevokeUsersKey, RevokeRead, At, Goes, GoesOn, Admits, Comes, Routed
  <1>4. CASE RevokeWrite(r)
    <2>1. Goto(r, "ok")
      BY <1>4 DEF RevokeWrite
    <2>2. Only(r) /\ req'[r].pc = "ok" /\ req'[r].role = req[r].role
      BY <1>4, <2>1, GotoIs DEF RevokeWrite
    <2> QED
      BY <1>4, <2>2 DEF RevokeWrite, At, Goes, GoesOn, Admits, Comes, Routed
  <1>5. CASE FindTarget(r)
    <2>1. PICK pc \in {"found", "refused"} : \E row : GotoSeeing(r, pc, row)
      BY <1>5 DEF FindTarget
    <2>2. Only(r) /\ req'[r].pc \in {"found", "refused"} /\ req'[r].role = req[r].role
      BY <1>5, <2>1, GotoSeeingIs DEF FindTarget
    <2> QED
      BY <1>5, <2>2 DEF FindTarget, At, Goes, GoesOn, Admits, Comes, Routed
  <1>6. CASE DeactivateKeys(r)
    <2>1. Goto(r, "revoked")
      BY <1>6 DEF DeactivateKeys
    <2>2. Only(r) /\ req'[r].pc = "revoked" /\ req'[r].role = req[r].role
      BY <1>6, <2>1, GotoIs DEF DeactivateKeys
    <2> QED
      BY <1>6, <2>2 DEF DeactivateKeys, At, Goes, GoesOn, Admits, Comes, Routed
  <1> QED
    BY <1>1, <1>2, <1>3, <1>4, <1>5, <1>6

LEMMA AdministersUsers ==
    ASSUME Shape, NEW r \in cast, Routed(r),
           ChangeRole(r) \/ Deactivate(r) \/ Reactivate(r) \/ AdminResetPassword(r)
    PROVE  Goes(r)
  <1> USE DEF Points, Early, Turns, Late, Signed, Shielded, JwtOps, RoleOps, UserAdminOps, OtherAdminOps, AdminOps,
              LlmOps
  <1>1. CASE ChangeRole(r)
    <2>1. \E pc \in {"ok", "error"} : Goto(r, pc)
      BY <1>1 DEF ChangeRole, AdminUpdate
    <2>2. Only(r) /\ req'[r].pc \in {"ok", "error"} /\ req'[r].role = req[r].role
      BY <1>1, <2>1, GotoIs DEF ChangeRole, AdminUpdate
    <2> QED
      BY <1>1, <2>2 DEF ChangeRole, AdminUpdate, At, Goes, GoesOn, Admits, Comes, Routed
  <1>2. CASE Deactivate(r)
    <2>1. \E pc \in {"ok", "error"} : Goto(r, pc)
      BY <1>2 DEF Deactivate, AdminUpdate
    <2>2. Only(r) /\ req'[r].pc \in {"ok", "error"} /\ req'[r].role = req[r].role
      BY <1>2, <2>1, GotoIs DEF Deactivate, AdminUpdate
    <2> QED
      BY <1>2, <2>2 DEF Deactivate, AdminUpdate, At, Goes, GoesOn, Admits, Comes, Routed
  <1>3. CASE Reactivate(r)
    <2>1. \E pc \in {"ok", "error"} : Goto(r, pc)
      BY <1>3 DEF Reactivate, AdminUpdate
    <2>2. Only(r) /\ req'[r].pc \in {"ok", "error"} /\ req'[r].role = req[r].role
      BY <1>3, <2>1, GotoIs DEF Reactivate, AdminUpdate
    <2> QED
      BY <1>3, <2>2 DEF Reactivate, AdminUpdate, At, Goes, GoesOn, Admits, Comes, Routed
  <1>4. CASE AdminResetPassword(r)
    <2>1. \E pc \in {"ok", "error"} : Goto(r, pc)
      BY <1>4 DEF AdminResetPassword, AdminUpdate
    <2>2. Only(r) /\ req'[r].pc \in {"ok", "error"} /\ req'[r].role = req[r].role
      BY <1>4, <2>1, GotoIs DEF AdminResetPassword, AdminUpdate
    <2> QED
      BY <1>4, <2>2 DEF AdminResetPassword, AdminUpdate, At, Goes, GoesOn, Admits, Comes, Routed
  <1> QED
    BY <1>1, <1>2, <1>3, <1>4

LEMMA FindsWorkflow ==
    ASSUME Shape, NEW r \in cast, Routed(r),
           FindReceiver(r) \/ ReadWorkflow(r) \/ ReadAssignment(r) \/ FindSlug(r)
    PROVE  Goes(r)
  <1> USE DEF Points, Early, Turns, Late, Signed, Shielded, JwtOps, RoleOps, UserAdminOps, OtherAdminOps, AdminOps,
              LlmOps
  <1>1. CASE FindReceiver(r)
    <2>1. PICK pc \in {"receiver", "refused"} : Goto(r, pc)
      BY <1>1 DEF FindReceiver
    <2>2. Only(r) /\ req'[r].pc \in {"receiver", "refused"} /\ req'[r].role = req[r].role
      BY <1>1, <2>1, GotoIs DEF FindReceiver
    <2> QED
      BY <1>1, <2>2 DEF FindReceiver, At, Goes, GoesOn, Admits, Comes, Routed
  <1>2. CASE ReadWorkflow(r)
    <2>1. \E pc \in {"refused", "ok", "may", "assignee"} : Goto(r, pc) \/ \E row : GotoSeeing(r, pc, row)
      <3>1. PICK pc : pc = CASE RowAdmits(r, wfs[r.wf]) -> "may"
                             [] r.op \in {"get", "update", "build"} /\ ~RowAdmits(r, wfs[r.wf]) -> "assignee"
                             [] OTHER -> "refused"
        OBVIOUS
      <3>2. pc \in {"refused", "may", "assignee"}
        BY <3>1
      <3>3. Goto(r, "refused") \/ (\E row : GotoSeeing(r, "ok", row)) \/ GotoSeeing(r, pc, wfs[r.wf])
        BY <1>2, <3>1, Zenon DEF ReadWorkflow, Answer
      <3> QED
        BY <3>2, <3>3
    <2>2. Only(r) /\ req'[r].pc \in {"refused", "ok", "may", "assignee"} /\ req'[r].role = req[r].role
      BY <1>2, <2>1, GotoIs, GotoSeeingIs DEF ReadWorkflow, Answer
    <2> QED
      <3>1. \/ req[r].pc = "role" /\ r.op \in (RoleOps \cup {"flags"}) \ {"build"}
            \/ req[r].pc = "session" /\ r.op = "build"
            \/ req[r].pc = "receiver" /\ r.op = "owner"
        BY <1>2 DEF ReadWorkflow, At
      <3>2. req'[r].pc = "assignee" => r.op \in {"get", "update", "build"}
        BY <1>2, <2>2, GotoIs, GotoSeeingIs DEF ReadWorkflow, Answer
      <3>3. Admits(r)
        BY <1>2 DEF Admits
      <3>4. Routed(r)'
        BY <2>2, <3>1, <3>2 DEF Routed
      <3>5. Comes(r)
        BY <1>2, <2>2, <3>1 DEF Comes
      <3> QED
        BY <2>2, <3>3, <3>4, <3>5 DEF Goes
  <1>3. CASE ReadAssignment(r)
    <2>1. \E pc \in {"refused", "ok", "may"} : Goto(r, pc) \/ \E row : GotoSeeing(r, pc, row)
      BY <1>3 DEF ReadAssignment, Answer
    <2>2. Only(r) /\ req'[r].pc \in {"refused", "ok", "may"} /\ req'[r].role = req[r].role
      BY <1>3, <2>1, GotoIs, GotoSeeingIs DEF ReadAssignment, Answer
    <2> QED
      BY <1>3, <2>2 DEF ReadAssignment, Answer, At, Goes, GoesOn, Admits, Comes, Routed
  <1>4. CASE FindSlug(r)
    <2>1. \E pc \in {"refused", "may"} : Goto(r, pc) \/ \E row : GotoSeeing(r, pc, row)
      BY <1>4 DEF FindSlug
    <2>2. Only(r) /\ req'[r].pc \in {"refused", "may"} /\ req'[r].role = req[r].role
      BY <1>4, <2>1, GotoIs, GotoSeeingIs DEF FindSlug
    <2> QED
      BY <1>4, <2>2 DEF FindSlug, At, Goes, GoesOn, Admits, Comes, Routed
  <1> QED
    BY <1>1, <1>2, <1>3, <1>4

LEMMA WritesWorkflow ==
    ASSUME Shape, NEW r \in cast, Routed(r),
           CreateWorkflow(r) \/ Update(r) \/ UpdateFlags(r) \/ AssignOwner(r) \/ Delete(r)
    PROVE  Goes(r)
  <1> USE DEF Points, Early, Turns, Late, Signed, Shielded, JwtOps, RoleOps, UserAdminOps, OtherAdminOps, AdminOps,
              LlmOps
  <1>1. CASE CreateWorkflow(r)
    <2>1. Goto(r, "ok")
      BY <1>1 DEF CreateWorkflow
    <2>2. Only(r) /\ req'[r].pc = "ok" /\ req'[r].role = req[r].role
      BY <1>1, <2>1, GotoIs DEF CreateWorkflow
    <2> QED
      BY <1>1, <2>2 DEF CreateWorkflow, At, Goes, GoesOn, Admits, Comes, Routed
  <1>2. CASE Update(r)
    <2>1. PICK pc \in {"ok", "refused", "error"} : Goto(r, pc)
      BY <1>2 DEF Update, Changed
    <2>2. Only(r) /\ req'[r].pc \in {"ok", "refused", "error"} /\ req'[r].role = req[r].role
      BY <1>2, <2>1, GotoIs DEF Update, Changed
    <2> QED
      BY <1>2, <2>2 DEF Update, Changed, At, Goes, GoesOn, Admits, Comes, Routed
  <1>3. CASE UpdateFlags(r)
    <2>1. PICK pc \in {"ok", "refused", "error"} : Goto(r, pc)
      BY <1>3 DEF UpdateFlags, Changed
    <2>2. Only(r) /\ req'[r].pc \in {"ok", "refused", "error"} /\ req'[r].role = req[r].role
      BY <1>3, <2>1, GotoIs DEF UpdateFlags, Changed
    <2> QED
      BY <1>3, <2>2 DEF UpdateFlags, Changed, At, Goes, GoesOn, Admits, Comes, Routed
  <1>4. CASE AssignOwner(r)
    <2>1. PICK pc \in {"ok", "error"} : Goto(r, pc)
      BY <1>4 DEF AssignOwner, Changed
    <2>2. Only(r) /\ req'[r].pc \in {"ok", "error"} /\ req'[r].role = req[r].role
      BY <1>4, <2>1, GotoIs DEF AssignOwner, Changed
    <2> QED
      BY <1>4, <2>2 DEF AssignOwner, Changed, At, Goes, GoesOn, Admits, Comes, Routed
  <1>5. CASE Delete(r)
    <2>1. Goto(r, "ok")
      BY <1>5 DEF Delete, Changed
    <2>2. Only(r) /\ req'[r].pc = "ok" /\ req'[r].role = req[r].role
      BY <1>5, <2>1, GotoIs DEF Delete, Changed
    <2> QED
      BY <1>5, <2>2 DEF Delete, Changed, At, Goes, GoesOn, Admits, Comes, Routed
  <1> QED
    BY <1>1, <1>2, <1>3, <1>4, <1>5

LEMMA SharesOrStarts ==
    ASSUME Shape, NEW r \in cast, Routed(r),
           Grant(r) \/ Revoke(r) \/ Start(r)
    PROVE  Goes(r)
  <1> USE DEF Points, Early, Turns, Late, Signed, Shielded, JwtOps, RoleOps, UserAdminOps, OtherAdminOps, AdminOps,
              LlmOps
  <1>1. CASE Grant(r)
    <2>1. PICK pc \in {"ok", "refused", "error"} : Goto(r, pc)
      BY <1>1 DEF Grant
    <2>2. Only(r) /\ req'[r].pc \in {"ok", "refused", "error"} /\ req'[r].role = req[r].role
      BY <1>1, <2>1, GotoIs DEF Grant
    <2> QED
      BY <1>1, <2>2 DEF Grant, At, Goes, GoesOn, Admits, Comes, Routed
  <1>2. CASE Revoke(r)
    <2>1. PICK pc \in {"ok", "refused"} : Goto(r, pc)
      BY <1>2 DEF Revoke
    <2>2. Only(r) /\ req'[r].pc \in {"ok", "refused"} /\ req'[r].role = req[r].role
      BY <1>2, <2>1, GotoIs DEF Revoke
    <2> QED
      BY <1>2, <2>2 DEF Revoke, At, Goes, GoesOn, Admits, Comes, Routed
  <1>3. CASE Start(r)
    <2>1. PICK pc \in {"ok", "error"} : Goto(r, pc)
      BY <1>3 DEF Start
    <2>2. Only(r) /\ req'[r].pc \in {"ok", "error"} /\ req'[r].role = req[r].role
      BY <1>3, <2>1, GotoIs DEF Start
    <2> QED
      BY <1>3, <2>2 DEF Start, At, Goes, GoesOn, Admits, Comes, Routed
  <1> QED
    BY <1>1, <1>2, <1>3

LEMMA DeletesAccount ==
    ASSUME Shape, NEW r \in cast, Routed(r),
           DeleteAccountRead(r) \/ DeleteAccountWorkflows(r) \/ DeleteAccountAssignments(r)
           \/ DeleteAccountUser(r)
    PROVE  Goes(r)
  <1> USE DEF Points, Early, Turns, Late, Signed, Shielded, JwtOps, RoleOps, UserAdminOps, OtherAdminOps, AdminOps,
              LlmOps
  <1>1. CASE DeleteAccountRead(r)
    <2>1. PICK pc \in {"found", "refused"} : Goto(r, pc)
      BY <1>1 DEF DeleteAccountRead
    <2>2. Only(r) /\ req'[r].pc \in {"found", "refused"} /\ req'[r].role = req[r].role
      BY <1>1, <2>1, GotoIs DEF DeleteAccountRead
    <2> QED
      BY <1>1, <2>2 DEF DeleteAccountRead, At, Goes, GoesOn, Admits, Comes, Routed
  <1>2. CASE DeleteAccountWorkflows(r)
    <2>1. Goto(r, "emptied")
      BY <1>2 DEF DeleteAccountWorkflows
    <2>2. Only(r) /\ req'[r].pc = "emptied" /\ req'[r].role = req[r].role
      BY <1>2, <2>1, GotoIs DEF DeleteAccountWorkflows
    <2> QED
      BY <1>2, <2>2 DEF DeleteAccountWorkflows, At, Goes, GoesOn, Admits, Comes, Routed
  <1>3. CASE DeleteAccountAssignments(r)
    <2>1. Goto(r, "unshared")
      BY <1>3 DEF DeleteAccountAssignments
    <2>2. Only(r) /\ req'[r].pc = "unshared" /\ req'[r].role = req[r].role
      BY <1>3, <2>1, GotoIs DEF DeleteAccountAssignments
    <2> QED
      BY <1>3, <2>2 DEF DeleteAccountAssignments, At, Goes, GoesOn, Admits, Comes, Routed
  <1>4. CASE DeleteAccountUser(r)
    <2>1. Goto(r, "ok")
      BY <1>4 DEF DeleteAccountUser
    <2>2. Only(r) /\ req'[r].pc = "ok" /\ req'[r].role = req[r].role
      BY <1>4, <2>1, GotoIs DEF DeleteAccountUser
    <2> QED
      BY <1>4, <2>2 DEF DeleteAccountUser, At, Goes, GoesOn, Admits, Comes, Routed
  <1> QED
    BY <1>1, <1>2, <1>3, <1>4

LEMMA WritesProviderKey ==
    ASSUME Shape, NEW r \in cast, Routed(r),
           FindLlmKey(r) \/ StoreLlmKey(r) \/ DeleteLlmKey(r) \/ ApplySetting(r)
    PROVE  Goes(r)
  <1> USE DEF Points, Early, Turns, Late, Signed, Shielded, JwtOps, RoleOps, UserAdminOps, OtherAdminOps, AdminOps,
              LlmOps
  <1>1. CASE FindLlmKey(r)
    <2>1. \E pc \in {"refused", "found"} : Goto(r, pc) \/ \E row : GotoSeeing(r, pc, row)
      BY <1>1 DEF FindLlmKey
    <2>2. Only(r) /\ req'[r].pc \in {"refused", "found"} /\ req'[r].role = req[r].role
      BY <1>1, <2>1, GotoIs, GotoSeeingIs DEF FindLlmKey
    <2> QED
      BY <1>1, <2>2 DEF FindLlmKey, At, Goes, GoesOn, Admits, Comes, Routed
  <1>2. CASE StoreLlmKey(r)
    <2>1. \E pc \in {"error", "stored"} : Goto(r, pc) \/ \E row : GotoSeeing(r, pc, row)
      BY <1>2 DEF StoreLlmKey
    <2>2. Only(r) /\ req'[r].pc \in {"error", "stored"} /\ req'[r].role = req[r].role
      BY <1>2, <2>1, GotoIs, GotoSeeingIs DEF StoreLlmKey
    <2> QED
      BY <1>2, <2>2 DEF StoreLlmKey, At, Goes, GoesOn, Admits, Comes, Routed
  <1>3. CASE DeleteLlmKey(r)
    <2>1. Goto(r, "stored")
      BY <1>3 DEF DeleteLlmKey
    <2>2. Only(r) /\ req'[r].pc = "stored" /\ req'[r].role = req[r].role
      BY <1>3, <2>1, GotoIs DEF DeleteLlmKey
    <2> QED
      BY <1>3, <2>2 DEF DeleteLlmKey, At, Goes, GoesOn, Admits, Comes, Routed
  <1>4. CASE ApplySetting(r)
    <2>1. PICK pc \in {"error", "ok"} : Goto(r, pc)
      BY <1>4 DEF ApplySetting
    <2>2. Only(r) /\ req'[r].pc \in {"error", "ok"} /\ req'[r].role = req[r].role
      BY <1>4, <2>1, GotoIs DEF ApplySetting
    <2> QED
      BY <1>4, <2>2 DEF ApplySetting, At, Goes, GoesOn, Admits, Comes, Routed
  <1> QED
    BY <1>1, <1>2, <1>3, <1>4

\* A turn of the builder: the row and the patch's base, the session, and what is
\* to be stored.
Turn == [row : WorkflowRow, session : Nat, base : WorkflowRow, result : Canvas, proposal : BOOLEAN]
TurnOK(r) ==
    req[r].pc \in Turns =>
      /\ req[r].saw \in Turn
      /\ req[r].saw.session \in DOMAIN sessions
      /\ req[r].saw.result \in Edits(CanvasOf(req[r].saw.base))
      /\ req[r].saw.proposal => /\ req[r].saw.base = req[r].saw.row
                                /\ req[r].saw.result = CanvasOf(req[r].saw.row)
      /\ req[r].pc # "persist" => req[r].saw.proposal

LEMMA TurnHasFields ==
    ASSUME NEW turn \in Turn
    PROVE  HasTurn(turn)
  BY DEF Turn, TurnFields, HasTurn

LEMMA Builds ==
    ASSUME Shape, NEW r \in cast, Routed(r), TurnOK(r),
           FindSession(r) \/ OpenSession(r) \/ ModelRefused(r) \/ TurnStart(r)
           \/ Diagnosed(r) \/ Planned(r) \/ Built(r) \/ ModelRaises(r) \/ TooLarge(r)
           \/ Persist(r)
    PROVE  Goes(r)
  <1> USE DEF Points, Early, Turns, Late, Signed, Shielded, JwtOps, RoleOps, UserAdminOps, OtherAdminOps, AdminOps,
              LlmOps
  <1>0. BuilderStep(r)
    BY DEF BuilderStep
  <1>1. CASE FindSession(r)
    <2>1. PICK pc \in {"session", "refused"} : Goto(r, pc)
      BY <1>1 DEF FindSession
    <2>2. Only(r) /\ req'[r].pc \in {"session", "refused"} /\ req'[r].role = req[r].role
      BY <1>1, <2>1, GotoIs DEF FindSession
    <2> QED
      BY <1>0, <1>1, <2>2 DEF FindSession, At, Goes, GoesOn, Admits, Comes, Routed
  <1>2. CASE OpenSession(r)
    <2>1. PICK row : GotoSeeing(r, "policy", row)
      BY <1>2 DEF OpenSession
    <2>2. Only(r) /\ req'[r].pc = "policy" /\ req'[r].role = req[r].role
      BY <1>2, <2>1, GotoSeeingIs DEF OpenSession
    <2> QED
      BY <1>0, <1>2, <2>2 DEF OpenSession, At, Goes, GoesOn, Admits, Comes, Routed
  <1>3. CASE ModelRefused(r)
    <2>1. Goto(r, "refused")
      BY <1>3 DEF ModelRefused
    <2>2. Only(r) /\ req'[r].pc = "refused" /\ req'[r].role = req[r].role
      BY <1>3, <2>1, GotoIs DEF ModelRefused
    <2> QED
      BY <1>0, <1>3, <2>2 DEF ModelRefused, At, Goes, GoesOn, Admits, Comes, Routed
  <1>4. CASE TurnStart(r)
    <2>0. cast' = cast /\ req[r].pc = "policy" /\ r \in cast
      BY <1>4 DEF TurnStart, At
    <2>1. \/ \E canvas, base : Leaves(r, canvas, base)
          \/ \E pc \in {"persist", "diagnosing", "planning", "building"} : Goto(r, pc)
      <3>1. PICK pc : pc = CASE r.arg = "diagnose" -> "diagnosing"
                             [] r.arg # "diagnose" /\ ~sessions[req[r].saw.session].plan -> "planning"
                             [] OTHER -> "building"
        OBVIOUS
      <3>2. pc \in {"diagnosing", "planning", "building"}
        BY <3>1
      <3>3. (\E canvas, base : Leaves(r, canvas, base)) \/ Goto(r, "persist") \/ Goto(r, pc)
        BY <1>4, <3>1, Zenon DEF TurnStart
      <3> QED
        BY <3>2, <3>3
    <2>2. /\ Only(r) /\ req'[r].pc \in {"persist", "diagnosing", "planning", "building"}
          /\ req'[r].role = req[r].role
      BY <2>0, <2>1, GotoIs, LeavesIs, TurnHasFields DEF TurnOK
    <2> QED
      BY <1>0, <1>4, <2>2 DEF TurnStart, At, Goes, GoesOn, Admits, Comes, Routed
  <1>5. CASE Diagnosed(r)
    <2>1. Goto(r, "persist")
      BY <1>5 DEF Diagnosed
    <2>2. Only(r) /\ req'[r].pc = "persist" /\ req'[r].role = req[r].role
      BY <1>5, <2>1, GotoIs DEF Diagnosed
    <2> QED
      BY <1>0, <1>5, <2>2 DEF Diagnosed, At, Goes, GoesOn, Admits, Comes, Routed
  <1>6. CASE Planned(r)
    <2>1. PICK pc \in {"persist", "building"} : Goto(r, pc)
      BY <1>6 DEF Planned
    <2>2. Only(r) /\ req'[r].pc \in {"persist", "building"} /\ req'[r].role = req[r].role
      BY <1>6, <2>1, GotoIs DEF Planned
    <2> QED
      BY <1>0, <1>6, <2>2 DEF Planned, At, Goes, GoesOn, Admits, Comes, Routed
  <1>7. CASE Built(r)
    <2>0. cast' = cast /\ req[r].pc = "building" /\ r \in cast
      BY <1>7 DEF Built, At
    <2>1. \E canvas, base : Leaves(r, canvas, base)
      BY <1>7 DEF Built
    <2>2. Only(r) /\ req'[r].pc = "persist" /\ req'[r].role = req[r].role
      BY <2>0, <2>1, LeavesIs, TurnHasFields DEF TurnOK
    <2> QED
      BY <1>0, <1>7, <2>2 DEF Built, At, Goes, GoesOn, Admits, Comes, Routed
  <1>8. CASE ModelRaises(r)
    <2>1. Goto(r, "error")
      BY <1>8 DEF ModelRaises
    <2>2. Only(r) /\ req'[r].pc = "error" /\ req'[r].role = req[r].role
      BY <1>8, <2>1, GotoIs DEF ModelRaises
    <2> QED
      BY <1>0, <1>8, <2>2 DEF ModelRaises, At, Goes, GoesOn, Admits, Comes, Routed
  <1>9. CASE TooLarge(r)
    <2>1. Goto(r, "refused")
      BY <1>9 DEF TooLarge
    <2>2. Only(r) /\ req'[r].pc = "refused" /\ req'[r].role = req[r].role
      BY <1>9, <2>1, GotoIs DEF TooLarge
    <2> QED
      BY <1>0, <1>9, <2>2 DEF TooLarge, At, Goes, GoesOn, Admits, Comes, Routed
  <1>10. CASE Persist(r)
    <2>1. PICK pc \in {"ok", "error"} : Goto(r, pc)
      BY <1>10 DEF Persist, Changed
    <2>2. Only(r) /\ req'[r].pc \in {"ok", "error"} /\ req'[r].role = req[r].role
      BY <1>10, <2>1, GotoIs DEF Persist, Changed
    <2> QED
      BY <1>0, <1>10, <2>2 DEF Persist, Changed, At, Goes, GoesOn, Admits, Comes, Routed
  <1> QED
    BY <1>1, <1>2, <1>3, <1>4, <1>5, <1>6, <1>7, <1>8, <1>9, <1>10

LEMMA RequestGoes ==
    ASSUME Shape, NEW r \in cast, Routed(r), TurnOK(r), users \in Seq(UserRow), RequestStep(r)
    PROVE  Goes(r)
  <1>1. CASE AccountStep(r)
    BY <1>1, SignsIn, EntersAccount, ChangesPassword, UsesKeys, AdministersUsers DEF AccountStep
  <1>2. CASE StoreStep(r)
    BY <1>2, FindsWorkflow, WritesWorkflow, SharesOrStarts, DeletesAccount DEF StoreStep
  <1>3. CASE BuilderStep(r)
    BY <1>3, Builds DEF BuilderStep
  <1>4. CASE KeyStep(r)
    BY <1>4, WritesProviderKey DEF KeyStep
  <1> QED
    BY <1>1, <1>2, <1>3, <1>4 DEF RequestStep

\* Who steps is one of the requests of the cast.
LEMMA OfTheCast == ASSUME NEW r, RequestStep(r) PROVE r \in cast
  <1> USE DEF At
  <1>1. CASE AccountStep(r)
    BY <1>1 DEF AccountStep, Authenticate, ReadRole, FindKey, FindKeyOwner, FindAccount, CreateAccount,
       Login, Refresh, ChangeAuthenticate, ChangeVerify, ForgotPassword, ResetVerify, ChangePassword,
       ResetPassword, StorePassword, CreateKey, RevokeOwnKey, RevokeUsersKey, RevokeWrite, FindTarget,
       DeactivateKeys, ChangeRole, Deactivate, Reactivate, AdminResetPassword, AdminUpdate
  <1>2. CASE StoreStep(r)
    BY <1>2 DEF StoreStep, FindReceiver, ReadWorkflow, ReadAssignment, FindSlug, CreateWorkflow, Update,
       UpdateFlags, AssignOwner, Delete, Grant, Revoke, Start, DeleteAccountRead, DeleteAccountWorkflows,
       DeleteAccountAssignments, DeleteAccountUser
  <1>3. CASE BuilderStep(r)
    BY <1>3 DEF BuilderStep, FindSession, OpenSession, ModelRefused, TurnStart, Diagnosed, Planned, Built,
       ModelRaises, TooLarge, Persist
  <1>4. CASE KeyStep(r)
    BY <1>4 DEF KeyStep, FindLlmKey, StoreLlmKey, DeleteLlmKey, ApplySetting
  <1> QED
    BY <1>1, <1>2, <1>3, <1>4 DEF RequestStep

-----------------------------------------------------------------------------
(* What the steps do to the tables.                                        *)

\* A request knows rows that are there.
Knows(r) ==
    /\ r.op \in Signed /\ req[r].pc \notin Early => r.by \in DOMAIN users
    /\ r.op \in {"revoke_key", "admin_revoke_key"} /\ req[r].pc = "found" => r.key \in DOMAIN keys
    /\ r.op = "run_external" /\ req[r].pc \notin Early => r.key \in DOMAIN keys
    /\ r.op \in {"owner", "grant"} /\ req[r].pc = "receiver" => r.on \in DOMAIN users
    /\ r.op = "owner" /\ req[r].pc = "may" => r.on \in DOMAIN users
    /\ r.op \in RoleOps \cup {"flags", "owner"} /\ req[r].pc \in {"may", "assignee"} \cup Turns
       => r.wf \in DOMAIN wfs
    /\ r.op \in RoleOps \cup {"flags"} /\ req[r].pc \in {"may", "assignee"}
       => req[r].saw \in WorkflowRow
    /\ r.op = "deactivate" /\ req[r].pc \in {"found", "revoked", "ok"} => req[r].saw \in 0..Len(keys)
    /\ r.op = "build" /\ req[r].pc \in {"session", "may", "assignee"}
       => r.session \in {0} \cup DOMAIN sessions

UsersOK == users \in Seq(UserRow) /\ Len(users) <= MaxUsers
KeysOK == keys \in Seq(KeyRow) /\ Len(keys) <= MaxKeys
WfsOK == wfs \in Seq(WorkflowRow) /\ Len(wfs) <= MaxWorkflows
SessionsOK == sessions \in Seq(Session) /\ Len(sessions) <= MaxSessions

LEMMA Bounds ==
    MaxUsers \in Nat /\ MaxKeys \in Nat /\ MaxWorkflows \in Nat /\ MaxSessions \in Nat /\ MaxBoots \in Nat
  BY WorkspaceAssumption

\* Rows of the users table are never removed.
UsersKept == UsersOK' /\ Len(users) <= Len(users')

LEMMA SetUserKeeps ==
    ASSUME UsersOK, NEW u \in DOMAIN users, NEW row \in UserRow, SetUser(u, row)
    PROVE  UsersKept
  BY DEF UsersOK, UsersKept, SetUser

LEMMA UsersUntouched ==
    ASSUME UsersOK, UNCHANGED users
    PROVE  UsersKept
  BY Bounds DEF UsersOK, UsersKept

LEMMA AccountStepUsers ==
    ASSUME UsersOK, NEW r \in cast, Routed(r), Knows(r), WellFormed(r), AccountStep(r)
    PROVE  UsersKept
  <1>1. ASSUME CreateAccount(r) PROVE UsersKept
    <2>1. r.op \in {"register", "sso"} /\ r.email \in Emails
      BY <1>1 DEF CreateAccount, WellFormed
    <2>2. PICK row : row = [email |-> r.email, role |-> "member", active |-> TRUE,
                            password |-> IF r.op = "sso" THEN None ELSE "old",
                            mustChange |-> FALSE, gone |-> FALSE]
      OBVIOUS
    <2>3. row \in UserRow
      BY <2>1, <2>2 DEF UserRow
    <2>4. UNCHANGED users \/ users' = Append(users, row)
      BY <1>1, <2>2, Zenon DEF CreateAccount
    <2>5. Len(users) < MaxUsers
      BY <1>1 DEF CreateAccount
    <2> QED
      BY <2>3, <2>4, <2>5, Bounds, UsersUntouched DEF UsersOK, UsersKept
  <1>2. ASSUME NEW op, StorePassword(r, op) PROVE UsersKept
    <2>1. CASE ~Present(r.by)
      BY <1>2, <2>1, UsersUntouched DEF StorePassword
    <2>2. CASE Present(r.by)
      <3>1. r.by \in DOMAIN users /\ users[r.by] \in UserRow
        BY <2>2 DEF Present, UsersOK
      <3>2. [users[r.by] EXCEPT !.password = "new", !.mustChange = FALSE] \in UserRow
        BY <3>1 DEF UserRow
      <3> QED
        BY <1>2, <2>2, <3>1, <3>2, SetUserKeeps DEF StorePassword
    <2> QED
      BY <2>1, <2>2
  <1>3. ASSUME NEW op, NEW pc, NEW row, AdminUpdate(r, op, pc, row),
               r.on \in DOMAIN users => row \in UserRow
        PROVE  UsersKept
    <2>1. CASE Present(r.on)
      <3>1. r.on \in DOMAIN users /\ SetUser(r.on, row)
        BY <1>3, <2>1 DEF AdminUpdate, Present
      <3> QED
        BY <1>3, <3>1, SetUserKeeps
    <2>2. CASE ~Present(r.on)
      <3>1. UNCHANGED users
        BY <1>3, <2>2 DEF AdminUpdate
      <3> QED
        BY <3>1, UsersUntouched
    <2> QED
      BY <2>1, <2>2
  <1>4. ASSUME ChangeRole(r) PROVE UsersKept
    <2>1. r.arg \in {"member", "admin"}
      BY <1>4 DEF ChangeRole, AdminUpdate, WellFormed
    <2>2. r.on \in DOMAIN users => [users[r.on] EXCEPT !.role = r.arg] \in UserRow
      <3>1. ASSUME r.on \in DOMAIN users PROVE users[r.on] \in UserRow
        BY <3>1 DEF UsersOK
      <3> QED
        BY <2>1, <3>1 DEF UserRow
    <2>3. AdminUpdate(r, "set_role", "found", [users[r.on] EXCEPT !.role = r.arg])
      BY <1>4 DEF ChangeRole
    <2> QED
      BY <1>3, <2>2, <2>3
  <1>5. ASSUME Deactivate(r) \/ Reactivate(r) \/ AdminResetPassword(r) PROVE UsersKept
    <2>1. \A u \in DOMAIN users : users[u] \in UserRow
      BY DEF UsersOK
    <2>2. r.on \in DOMAIN users => [users[r.on] EXCEPT !.active = FALSE] \in UserRow
      BY <2>1 DEF UserRow
    <2>3. r.on \in DOMAIN users => [users[r.on] EXCEPT !.active = TRUE] \in UserRow
      BY <2>1 DEF UserRow
    <2>4. r.on \in DOMAIN users => [users[r.on] EXCEPT !.password = "temp", !.mustChange = TRUE] \in UserRow
      BY <2>1 DEF UserRow
    <2>5. CASE Deactivate(r)
      BY <1>3, <2>2, <2>5, Zenon DEF Deactivate
    <2>6. CASE Reactivate(r)
      BY <1>3, <2>3, <2>6, Zenon DEF Reactivate
    <2>7. CASE AdminResetPassword(r)
      BY <1>3, <2>4, <2>7, Zenon DEF AdminResetPassword
    <2> QED
      BY <1>5, <2>5, <2>6, <2>7
  <1>6. ASSUME Authenticate(r) \/ ReadRole(r) \/ FindKey(r) \/ FindKeyOwner(r) \/ FindAccount(r) \/ Login(r)
               \/ Refresh(r) \/ ChangeAuthenticate(r) \/ ChangeVerify(r) \/ ForgotPassword(r)
               \/ ResetVerify(r) \/ CreateKey(r) \/ RevokeOwnKey(r) \/ RevokeUsersKey(r)
               \/ RevokeWrite(r) \/ FindTarget(r) \/ DeactivateKeys(r)
        PROVE  UsersKept
    <2>1. users' = users
      BY <1>6 DEF Authenticate, ReadRole, FindKey, FindKeyOwner, FindAccount, Login, Refresh,
         ChangeAuthenticate, ChangeVerify, ForgotPassword, ResetVerify, CreateKey, RevokeOwnKey,
         RevokeUsersKey, RevokeRead, RevokeWrite, FindTarget, DeactivateKeys
    <2> QED
      BY <2>1, UsersUntouched
  <1> QED
    BY <1>1, <1>2, <1>4, <1>5, <1>6 DEF AccountStep, ChangePassword, ResetPassword

\* Keys are appended and revoked, never given to another user nor revived.
KeysKept ==
    /\ KeysOK' /\ Len(keys) <= Len(keys')
    /\ \A k \in DOMAIN keys : /\ keys'[k].user = keys[k].user
                              /\ keys[k].revoked => keys'[k].revoked

LEMMA KeysUntouched == ASSUME KeysOK, UNCHANGED keys PROVE KeysKept
  BY Bounds DEF KeysOK, KeysKept

LEMMA RevokedKeep ==
    ASSUME KeysOK, NEW gone,
           keys' = [k \in DOMAIN keys |-> IF k \in gone THEN [keys[k] EXCEPT !.revoked = TRUE] ELSE keys[k]]
    PROVE  KeysKept
  <1>1. \A k \in DOMAIN keys :
            /\ keys'[k] \in KeyRow
            /\ keys'[k].user = keys[k].user
            /\ keys[k].revoked => keys'[k].revoked
    <2>1. TAKE k \in DOMAIN keys
    <2>2. PICK old : old = keys[k]
      OBVIOUS
    <2>3. PICK new : new = [old EXCEPT !.revoked = TRUE]
      OBVIOUS
    <2>4. old \in KeyRow
      BY <2>2 DEF KeysOK
    <2>5. new \in KeyRow /\ new.user = old.user /\ new.revoked
      BY <2>3, <2>4 DEF KeyRow
    <2>6. keys'[k] = old \/ keys'[k] = new
      BY <2>2, <2>3
    <2> QED
      BY <2>2, <2>4, <2>5, <2>6
  <1>2. keys' \in Seq(KeyRow) /\ Len(keys') = Len(keys)
    BY <1>1 DEF KeysOK
  <1> QED
    BY <1>1, <1>2, Bounds DEF KeysOK, KeysKept

LEMMA AccountStepKeys ==
    ASSUME UsersOK, KeysOK, NEW r \in cast, Knows(r), AccountStep(r)
    PROVE  KeysKept
  <1>1. ASSUME CreateKey(r) PROVE KeysKept
    <2>1. CASE ~Present(r.by)
      <3>1. UNCHANGED keys
        BY <1>1, <2>1 DEF CreateKey
      <3> QED
        BY <3>1, KeysUntouched
    <2>2. CASE Present(r.by)
      <3>1. PICK new : new = [user |-> r.by, revoked |-> FALSE]
        OBVIOUS
      <3>2. keys' = Append(keys, new) /\ Len(keys) < MaxKeys
        BY <1>1, <2>2, <3>1 DEF CreateKey
      <3>3. new \in KeyRow
        BY <2>2, <3>1, Bounds DEF Present, UsersOK, KeyRow
      <3>4. \A k \in DOMAIN keys : keys'[k] = keys[k]
        BY <3>2, <3>3 DEF KeysOK
      <3> QED
        BY <3>2, <3>3, <3>4, Bounds DEF KeysOK, KeysKept
    <2> QED
      BY <2>1, <2>2
  <1>2. ASSUME RevokeWrite(r) PROVE KeysKept
    <2>1. r.key \in DOMAIN keys
      BY <1>2 DEF RevokeWrite, Knows, At
    <2>2. PICK new : new = [keys[r.key] EXCEPT !.revoked = TRUE]
      OBVIOUS
    <2>3. keys' = [keys EXCEPT ![r.key] = new]
      BY <1>2, <2>2 DEF RevokeWrite
    <2>4. keys[r.key] \in KeyRow
      BY <2>1 DEF KeysOK
    <2>5. new \in KeyRow /\ new.user = keys[r.key].user /\ new.revoked
      BY <2>2, <2>4 DEF KeyRow
    <2>6. keys' \in Seq(KeyRow) /\ Len(keys') = Len(keys)
      BY <2>1, <2>3, <2>5 DEF KeysOK
    <2>7. \A k \in DOMAIN keys : keys'[k].user = keys[k].user /\ (keys[k].revoked => keys'[k].revoked)
      BY <2>1, <2>3, <2>5
    <2> QED
      BY <2>6, <2>7, Bounds DEF KeysOK, KeysKept
  <1>3. ASSUME DeactivateKeys(r) PROVE KeysKept
    <2>1. keys' = [k \in DOMAIN keys |-> IF k \in {l \in DOMAIN keys : keys[l].user = r.on}
                                          THEN [keys[k] EXCEPT !.revoked = TRUE] ELSE keys[k]]
      BY <1>3 DEF DeactivateKeys
    <2> QED
      BY <2>1, RevokedKeep
  <1>4. ASSUME Authenticate(r) \/ ReadRole(r) \/ FindKey(r) \/ FindKeyOwner(r) \/ FindAccount(r) \/ Login(r)
               \/ CreateAccount(r) \/ Refresh(r) \/ ChangeAuthenticate(r) \/ ChangeVerify(r)
               \/ ForgotPassword(r) \/ ResetVerify(r) \/ ChangePassword(r) \/ ResetPassword(r)
               \/ RevokeOwnKey(r) \/ RevokeUsersKey(r) \/ FindTarget(r) \/ ChangeRole(r)
               \/ Deactivate(r) \/ Reactivate(r) \/ AdminResetPassword(r)
        PROVE  KeysKept
    <2>1. keys' = keys
      BY <1>4 DEF Authenticate, ReadRole, FindKey, FindKeyOwner, FindAccount, Login,
         CreateAccount, Refresh, ChangeAuthenticate, ChangeVerify, ForgotPassword, ResetVerify,
         ChangePassword, ResetPassword, StorePassword, RevokeOwnKey, RevokeUsersKey, RevokeRead,
         FindTarget, ChangeRole, Deactivate, Reactivate, AdminResetPassword, AdminUpdate
    <2> QED
      BY <2>1, KeysUntouched
  <1> QED
    BY <1>1, <1>2, <1>3, <1>4 DEF AccountStep

-----------------------------------------------------------------------------
(* What the steps do to the workflows.                                     *)

\* What a client or a turn may send as a secret.
AnySecret == StoredSecret \cup SentSecret

\* There is a stored secret to put in the place of a mask.
Matches(put, hasPrior, prior) == hasPrior /\ prior.node = put.node /\ prior.secret # NoSecret

LEMMA EncryptStores ==
    ASSUME NEW put, put.secret \in AnySecret, NEW prior, NEW hasPrior,
           hasPrior = FALSE \/ prior.secret \in StoredSecret
    PROVE  Encrypt(put, hasPrior, prior) \in StoredSecret
  <1>1. PICK s : s = put.secret
    OBVIOUS
  <1>2. CASE s \in {Plain(x) : x \in Secrets}
    <2>1. PICK x \in Secrets : s = Plain(x)
      BY <1>2
    <2>2. s.form = "plain" /\ s.of = x
      BY <2>1 DEF Plain
    <2>3. Encrypt(put, hasPrior, prior) = Enc(x)
      BY <1>1, <2>2 DEF Encrypt
    <2> QED
      BY <2>3 DEF StoredSecret
  <1>3. CASE s = Marker
    <2>1. s.form = "marker"
      BY <1>3 DEF Marker
    <2>2. Encrypt(put, hasPrior, prior) = IF Matches(put, hasPrior, prior) THEN prior.secret
                                          ELSE IF put.header THEN Marker ELSE NoSecret
      BY <1>1, <2>1 DEF Encrypt, Matches
    <2> QED
      BY <2>2 DEF StoredSecret, Matches
  <1>4. CASE s = NoSecret \/ s \in {Enc(x) : x \in Secrets}
    <2>1. s.form = "none" \/ s.form = "enc"
      BY <1>4 DEF NoSecret, Enc
    <2>2. Encrypt(put, hasPrior, prior) = s
      BY <1>1, <2>1 DEF Encrypt
    <2> QED
      BY <1>4, <2>2 DEF StoredSecret
  <1> QED
    BY <1>1, <1>2, <1>3, <1>4 DEF AnySecret, StoredSecret, SentSecret

\* Two rows that differ in who may see them, or whether they are published.
SameWork(new, old) == new.secret = old.secret /\ new.gone = old.gone

LEMMA WithVisibilityIs ==
    ASSUME NEW row \in WorkflowRow, NEW put
    PROVE  /\ WithVisibility(put, row) \in WorkflowRow /\ SameWork(WithVisibility(put, row), row)
           /\ WithVisibility(put, row).slug = row.slug
           /\ WithVisibility(put, row).production = row.production
  <1>1. PICK b : b = CASE put.public = "yes" -> TRUE [] put.public = "no" -> FALSE [] OTHER -> row.public
    OBVIOUS
  <1>2. b \in BOOLEAN
    BY <1>1 DEF WorkflowRow
  <1>3. PICK new : new = [row EXCEPT !.public = b]
    OBVIOUS
  <1>4. WithVisibility(put, row) = new
    BY <1>1, <1>3, Zenon DEF WithVisibility
  <1>5. /\ new \in WorkflowRow /\ new.slug = row.slug /\ new.production = row.production
        /\ new.secret = row.secret /\ new.gone = row.gone
    BY <1>2, <1>3 DEF WorkflowRow
  <1> QED
    BY <1>4, <1>5 DEF SameWork

\* A row is published under a slug, unpublished without one, or left as it is.
Published(new, slug) == new.production /\ new.slug = slug
Unpublished(new) == ~new.production /\ new.slug = None

LEMMA WithPublicationIs ==
    ASSUME NEW row \in WorkflowRow, NEW put, put.slug \in Slugs \cup {None}
    PROVE  /\ WithPublication(put, row) \in WorkflowRow /\ SameWork(WithPublication(put, row), row)
           /\ put.publish = "yes" => Published(WithPublication(put, row), put.slug)
           /\ put.publish = "no" => Unpublished(WithPublication(put, row))
           /\ put.publish \notin {"yes", "no"} => WithPublication(put, row) = row
  <1>1. PICK yes : yes = [row EXCEPT !.production = TRUE, !.slug = put.slug]
    OBVIOUS
  <1>2. yes \in WorkflowRow /\ SameWork(yes, row) /\ Published(yes, put.slug)
    BY <1>1 DEF WorkflowRow, SameWork, Published
  <1>3. PICK no : no = [row EXCEPT !.production = FALSE, !.slug = None]
    OBVIOUS
  <1>4. no \in WorkflowRow /\ SameWork(no, row) /\ Unpublished(no)
    BY <1>3 DEF WorkflowRow, SameWork, Unpublished
  <1>5. SameWork(row, row)
    BY DEF SameWork
  <1>6. WithPublication(put, row) = CASE put.publish = "yes" -> yes
                                      [] put.publish = "no"  -> no
                                      [] OTHER               -> row
    BY <1>1, <1>3, Zenon DEF WithPublication
  <1> QED
    BY <1>2, <1>4, <1>5, <1>6

LEMMA FlagsRowIs ==
    ASSUME NEW row \in WorkflowRow, NEW saw, NEW put, put.slug \in Slugs \cup {None},
           saw.slug \in Slugs \cup {None}
    PROVE  /\ FlagsRow(put, saw, row) \in WorkflowRow /\ SameWork(FlagsRow(put, saw, row), row)
           /\ put.publish = "yes" => Published(FlagsRow(put, saw, row), SlugGiven(put, saw))
           /\ put.publish = "no" => Unpublished(FlagsRow(put, saw, row))
           /\ put.publish \notin {"yes", "no"} =>
                /\ FlagsRow(put, saw, row).production = row.production
                /\ FlagsRow(put, saw, row).slug \in {row.slug} \cup Slugs
  <1>1. PICK given_ : given_ = SlugGiven(put, saw)
    OBVIOUS
  <1>2. given_ \in Slugs \cup {None}
    BY <1>1 DEF SlugGiven
  <1>3. PICK yes : yes = [row EXCEPT !.production = TRUE, !.slug = given_]
    OBVIOUS
  <1>4. yes \in WorkflowRow /\ SameWork(yes, row) /\ Published(yes, given_)
    BY <1>2, <1>3 DEF WorkflowRow, SameWork, Published
  <1>5. PICK no : no = [row EXCEPT !.production = FALSE, !.slug = None]
    OBVIOUS
  <1>6. no \in WorkflowRow /\ SameWork(no, row) /\ Unpublished(no)
    BY <1>5 DEF WorkflowRow, SameWork, Unpublished
  <1>7. PICK slug : slug = IF put.slug # None THEN put.slug ELSE row.slug
    OBVIOUS
  <1>8. slug \in {row.slug} \cup Slugs
    BY <1>7
  <1>9. PICK keep : keep = [row EXCEPT !.slug = slug]
    OBVIOUS
  <1>10. /\ keep \in WorkflowRow /\ SameWork(keep, row)
         /\ keep.production = row.production /\ keep.slug = slug
    BY <1>8, <1>9 DEF WorkflowRow, SameWork
  <1>11. FlagsRow(put, saw, row) = CASE put.publish = "yes" -> yes
                                     [] put.publish = "no"  -> no
                                     [] OTHER               -> keep
    BY <1>1, <1>3, <1>5, <1>7, <1>9, Zenon DEF FlagsRow
  <1> QED
    BY <1>1, <1>4, <1>6, <1>8, <1>10, <1>11

\* The row of r's workflow is written anew.
Rewrites(r, row) == r.wf \in DOMAIN wfs /\ row \in WorkflowRow /\ wfs' = [wfs EXCEPT ![r.wf] = row]
\* A row that is still there keeps its slug or takes a free one, and is published
\* with a slug.
KeepsSlug(r, row) ==
    \/ row.gone /\ Delete(r)
    \/ /\ ~wfs[r.wf].gone /\ ~row.gone
       /\ row.slug = wfs[r.wf].slug \/ ~SlugTaken(row.slug, r.wf)
       /\ row.production => row.slug # None \/ (wfs[r.wf].production /\ row.slug = wfs[r.wf].slug)
\* The secret that a save or a turn stores.
SecretIs(r, row) ==
    /\ r.op # "create_workflow" /\ (r.op = "update" => At(r, "may")) /\ (r.op = "build" => At(r, "persist"))
    /\ row.secret = IF r.op = "update" THEN Encrypt(r.put, TRUE, req[r].saw)
                    ELSE IF r.op = "build" THEN Encrypt(req[r].saw.result, TRUE, req[r].saw.row)
                    ELSE wfs[r.wf].secret
RewritesWell(r) ==
    UNCHANGED wfs \/ \E row : Rewrites(r, row) /\ KeepsSlug(r, row) /\ SecretIs(r, row)

LEMMA UpdateRewrites ==
    ASSUME WfsOK, NEW r \in cast, Knows(r), WellFormed(r), Update(r)
    PROVE  RewritesWell(r)
  <1>1. PICK put : put = r.put
    OBVIOUS
  <1>2. put \in Payload /\ r.op = "update" /\ req[r].pc = "may"
    BY <1>1 DEF WellFormed, Request, Update, At
  <1>3. r.wf \in DOMAIN wfs /\ req[r].saw \in WorkflowRow
    BY <1>2 DEF Knows, RoleOps
  <1>4. PICK old : old = wfs[r.wf]
    OBVIOUS
  <1>5. old \in WorkflowRow
    BY <1>3, <1>4 DEF WfsOK
  <1>6. PICK secret : secret = Encrypt(put, TRUE, req[r].saw)
    OBVIOUS
  <1>7. secret \in StoredSecret
    <2>1. put.secret \in AnySecret
      BY <1>2 DEF Payload, AnySecret
    <2>2. req[r].saw.secret \in StoredSecret
      BY <1>3 DEF WorkflowRow
    <2> QED
      BY <1>6, <2>1, <2>2, EncryptStores
  <1>8. PICK public : public = (put.public = "yes")
    OBVIOUS
  <1>9. public \in BOOLEAN
    BY <1>8
  <1>10. PICK seen : seen = [old EXCEPT !.node = put.node, !.resolves = put.resolves, !.public = public,
                                        !.secret = secret]
    OBVIOUS
  <1>11. PICK row : row = WithPublication(put, seen)
    OBVIOUS
  <1>12. /\ seen \in WorkflowRow /\ seen.secret = secret /\ seen.gone = old.gone
         /\ seen.slug = old.slug /\ seen.production = old.production
    BY <1>2, <1>5, <1>7, <1>9, <1>10 DEF Payload, WorkflowRow
  <1>13. put.slug \in Slugs \cup {None}
    BY <1>2 DEF Payload
  <1>14. /\ row \in WorkflowRow /\ row.secret = secret /\ row.gone = old.gone
         /\ put.publish = "yes" => Published(row, put.slug)
         /\ put.publish = "no" => Unpublished(row)
         /\ put.publish \notin {"yes", "no"} => row = seen
    BY <1>11, <1>12, <1>13, WithPublicationIs DEF SameWork
  <1>15. \/ UNCHANGED wfs
         \/ /\ ~PublishRefused(put.publish, put.slug, put.resolves)
            /\ Stored(r.wf) /\ ~SlugTaken(row.slug, r.wf) /\ wfs' = [wfs EXCEPT ![r.wf] = row]
    BY <1>1, <1>4, <1>6, <1>8, <1>10, <1>11, Zenon DEF Update, Changed
  <1>16. ASSUME ~UNCHANGED wfs PROVE Rewrites(r, row) /\ KeepsSlug(r, row) /\ SecretIs(r, row)
    <2>1. Rewrites(r, row)
      BY <1>3, <1>14, <1>15, <1>16 DEF Rewrites
    <2>2. SecretIs(r, row)
      BY <1>1, <1>2, <1>6, <1>14 DEF SecretIs, At
    <2>3. ~old.gone /\ ~SlugTaken(row.slug, r.wf)
      BY <1>4, <1>15, <1>16 DEF Stored
    <2>4. put.publish = "yes" => put.slug # None
      BY <1>15, <1>16 DEF PublishRefused
    <2>5. row.production => row.slug # None \/ (old.production /\ row.slug = old.slug)
      BY <1>12, <1>14, <2>4 DEF Published, Unpublished
    <2> QED
      BY <1>4, <1>14, <2>1, <2>2, <2>3, <2>5 DEF KeepsSlug
  <1> QED
    BY <1>16 DEF RewritesWell

LEMMA FlagsRewrite ==
    ASSUME WfsOK, NEW r \in cast, Knows(r), WellFormed(r), UpdateFlags(r)
    PROVE  RewritesWell(r)
  <1>1. PICK put : put = r.put
    OBVIOUS
  <1>2. put \in Payload /\ r.op = "flags" /\ req[r].pc = "may"
    BY <1>1 DEF WellFormed, Request, UpdateFlags, At
  <1>3. r.wf \in DOMAIN wfs /\ req[r].saw \in WorkflowRow
    BY <1>2 DEF Knows
  <1>4. PICK old : old = wfs[r.wf]
    OBVIOUS
  <1>5. old \in WorkflowRow
    BY <1>3, <1>4 DEF WfsOK
  <1>6. PICK saw : saw = req[r].saw
    OBVIOUS
  <1>10. PICK seen : seen = WithVisibility(put, old)
    OBVIOUS
  <1>11. PICK row : row = FlagsRow(put, saw, seen)
    OBVIOUS
  <1>12. /\ seen \in WorkflowRow /\ seen.secret = old.secret /\ seen.gone = old.gone
         /\ seen.slug = old.slug /\ seen.production = old.production
    BY <1>5, <1>10, WithVisibilityIs DEF SameWork
  <1>13. put.slug \in Slugs \cup {None} /\ saw.slug \in Slugs \cup {None}
    BY <1>2, <1>3, <1>6 DEF Payload, WorkflowRow
  <1>14. /\ row \in WorkflowRow /\ row.secret = old.secret /\ row.gone = old.gone
         /\ put.publish = "yes" => Published(row, SlugGiven(put, saw))
         /\ put.publish = "no" => Unpublished(row)
         /\ put.publish \notin {"yes", "no"} => /\ row.production = old.production
                                                /\ row.slug \in {old.slug} \cup Slugs
    BY <1>11, <1>12, <1>13, FlagsRowIs DEF SameWork
  <1>15. \/ UNCHANGED wfs
         \/ /\ ~PublishRefused(put.publish, SlugGiven(put, saw), saw.resolves)
            /\ Stored(r.wf) /\ ~SlugTaken(row.slug, r.wf) /\ wfs' = [wfs EXCEPT ![r.wf] = row]
    BY <1>1, <1>4, <1>6, <1>10, <1>11, Zenon DEF UpdateFlags, Changed
  <1>16. ASSUME ~UNCHANGED wfs PROVE Rewrites(r, row) /\ KeepsSlug(r, row) /\ SecretIs(r, row)
    <2>1. Rewrites(r, row)
      BY <1>3, <1>14, <1>15, <1>16 DEF Rewrites
    <2>2. SecretIs(r, row)
      BY <1>2, <1>4, <1>14 DEF SecretIs, At
    <2>3. ~old.gone /\ ~SlugTaken(row.slug, r.wf)
      BY <1>4, <1>15, <1>16 DEF Stored
    <2>4. put.publish = "yes" => SlugGiven(put, saw) # None
      BY <1>15, <1>16 DEF PublishRefused
    <2>5. None \notin Slugs
      BY DEF Slugs, None
    <2>6. row.production => row.slug # None \/ (old.production /\ row.slug = old.slug)
      BY <1>14, <2>4, <2>5 DEF Published, Unpublished
    <2> QED
      BY <1>4, <1>14, <2>1, <2>2, <2>3, <2>6 DEF KeepsSlug
  <1> QED
    BY <1>16 DEF RewritesWell

LEMMA OwnerRewrites ==
    ASSUME UsersOK, WfsOK, NEW r \in cast, Knows(r), WellFormed(r), AssignOwner(r) \/ Delete(r)
    PROVE  RewritesWell(r)
  <1>1. r.op \in {"owner", "delete"} /\ req[r].pc = "may"
    BY DEF AssignOwner, Delete, At
  <1>2. r.wf \in DOMAIN wfs
    BY <1>1 DEF Knows, RoleOps
  <1>3. PICK old : old = wfs[r.wf]
    OBVIOUS
  <1>4. old \in WorkflowRow
    BY <1>2, <1>3 DEF WfsOK
  <1>5. CASE AssignOwner(r)
    <2>1. r.op = "owner" /\ r.on \in 1..MaxUsers
      BY <1>1, <1>5, Bounds DEF AssignOwner, Knows, UsersOK
    <2>2. PICK row : row = [old EXCEPT !.owner = r.on]
      OBVIOUS
    <2>3. /\ row \in WorkflowRow /\ row.secret = old.secret /\ row.gone = old.gone
          /\ row.slug = old.slug /\ row.production = old.production
      BY <1>4, <2>1, <2>2 DEF WorkflowRow
    <2>4. UNCHANGED wfs \/ (Stored(r.wf) /\ wfs' = [wfs EXCEPT ![r.wf] = row])
      BY <1>3, <1>5, <2>2 DEF AssignOwner, Changed
    <2>5. Stored(r.wf) => KeepsSlug(r, row)
      BY <1>3, <2>3 DEF Stored, KeepsSlug
    <2>6. SecretIs(r, row)
      BY <1>3, <2>1, <2>3 DEF SecretIs, At
    <2> QED
      BY <1>2, <2>3, <2>4, <2>5, <2>6 DEF RewritesWell, Rewrites
  <1>6. CASE Delete(r)
    <2>1. r.op = "delete"
      BY <1>6 DEF Delete
    <2>2. PICK row : row = [old EXCEPT !.gone = TRUE]
      OBVIOUS
    <2>3. row \in WorkflowRow /\ row.secret = old.secret /\ row.gone
      BY <1>4, <2>2 DEF WorkflowRow
    <2>4. wfs' = [wfs EXCEPT ![r.wf] = row]
      BY <1>3, <1>6, <2>2 DEF Delete, Changed
    <2>5. KeepsSlug(r, row) /\ SecretIs(r, row)
      BY <1>3, <1>6, <2>1, <2>3 DEF SecretIs, At, KeepsSlug
    <2> QED
      BY <1>2, <2>3, <2>4, <2>5 DEF RewritesWell, Rewrites
  <1> QED
    BY <1>5, <1>6

LEMMA PersistRewrites ==
    ASSUME WfsOK, NEW r \in cast, Routed(r), Knows(r), TurnOK(r), Persist(r)
    PROVE  RewritesWell(r)
  <1>1. r.op = "build" /\ req[r].pc = "persist"
    BY DEF Persist, At, Routed, Turns
  <1>2. r.wf \in DOMAIN wfs
    BY <1>1 DEF Knows, RoleOps, Turns
  <1>3. PICK turn : turn = req[r].saw
    OBVIOUS
  <1>4. turn \in Turn
    BY <1>1, <1>3 DEF TurnOK, Turns
  <1>5. PICK old : old = wfs[r.wf]
    OBVIOUS
  <1>6. old \in WorkflowRow
    BY <1>2, <1>5 DEF WfsOK
  <1>7. PICK canvas : canvas = turn.result
    OBVIOUS
  <1>8. canvas \in Canvas /\ turn.row \in WorkflowRow
    BY <1>4, <1>7 DEF Turn
  <1>9. canvas.secret \in AnySecret /\ turn.row.secret \in StoredSecret
    BY <1>8 DEF Canvas, WorkflowRow, AnySecret
  <1>10. PICK secret : secret = Encrypt(canvas, TRUE, turn.row)
    OBVIOUS
  <1>11. secret \in StoredSecret
    BY <1>9, <1>10, EncryptStores
  <1>12. PICK row : row = [old EXCEPT !.node = canvas.node, !.resolves = canvas.resolves, !.secret = secret]
    OBVIOUS
  <1>13. /\ row \in WorkflowRow /\ row.secret = secret /\ row.gone = old.gone
         /\ row.slug = old.slug /\ row.production = old.production
    BY <1>6, <1>8, <1>11, <1>12 DEF Canvas, WorkflowRow
  <1>14. UNCHANGED wfs \/ (Stored(r.wf) /\ wfs' = [wfs EXCEPT ![r.wf] = row])
    BY <1>3, <1>5, <1>7, <1>10, <1>12, Zenon DEF Persist, Changed
  <1>15. Stored(r.wf) => KeepsSlug(r, row)
    BY <1>5, <1>13 DEF Stored, KeepsSlug
  <1>16. SecretIs(r, row)
    BY <1>1, <1>3, <1>7, <1>10, <1>13 DEF SecretIs, At
  <1> QED
    BY <1>2, <1>13, <1>14, <1>15, <1>16 DEF RewritesWell, Rewrites

\* A workflow is created, unpublished.
Creates(r) ==
    /\ r.op = "create_workflow"
    /\ \E row \in WorkflowRow :
          /\ Len(wfs) < MaxWorkflows /\ wfs' = Append(wfs, row)
          /\ Unpublished(row) /\ row.secret = Encrypt(r.put, FALSE, [node |-> None])
\* The workflows of an account go with it.
Empties(r) ==
    /\ DeleteAccountWorkflows(r)
    /\ wfs' = [w \in DOMAIN wfs |-> IF wfs[w].owner = r.by
                                    THEN [wfs[w] EXCEPT !.gone = TRUE] ELSE wfs[w]]

LEMMA CreateCreates ==
    ASSUME UsersOK, WfsOK, NEW r \in cast, Knows(r), WellFormed(r), CreateWorkflow(r)
    PROVE  Creates(r)
  <1>1. PICK put : put = r.put
    OBVIOUS
  <1>2. put \in Payload /\ r.op = "create_workflow" /\ req[r].pc = "auth"
    BY <1>1 DEF WellFormed, Request, CreateWorkflow, At
  <1>3. r.by \in 1..MaxUsers
    BY <1>2, Bounds DEF Knows, Signed, JwtOps, Early, UsersOK
  <1>4. PICK secret : secret = Encrypt(put, FALSE, [node |-> None])
    OBVIOUS
  <1>5. secret \in StoredSecret
    <2>1. put.secret \in AnySecret
      BY <1>2 DEF Payload, AnySecret
    <2> QED
      BY <1>4, <2>1, EncryptStores
  <1>6. PICK public : public = (put.public = "yes")
    OBVIOUS
  <1>7. public \in BOOLEAN
    BY <1>6
  <1>8. PICK row : row = [owner |-> r.by, public |-> public, production |-> FALSE, slug |-> None,
                          node |-> put.node, secret |-> secret, resolves |-> put.resolves, gone |-> FALSE]
    OBVIOUS
  <1>9. row \in WorkflowRow
    BY <1>2, <1>3, <1>5, <1>7, <1>8 DEF Payload, WorkflowRow
  <1>10. Unpublished(row) /\ row.secret = secret
    BY <1>8 DEF Unpublished
  <1>11. Len(wfs) < MaxWorkflows /\ wfs' = Append(wfs, row)
    BY <1>1, <1>4, <1>6, <1>8, Zenon DEF CreateWorkflow
  <1> QED
    BY <1>1, <1>2, <1>4, <1>9, <1>10, <1>11 DEF Creates

LEMMA RequestWrites ==
    ASSUME UsersOK, WfsOK, NEW r \in cast, Routed(r), Knows(r), TurnOK(r), WellFormed(r), RequestStep(r)
    PROVE  Creates(r) \/ Empties(r) \/ RewritesWell(r)
  <1>1. ASSUME UNCHANGED wfs PROVE RewritesWell(r)
    BY <1>1 DEF RewritesWell
  <1>2. CASE AccountStep(r) /\ UNCHANGED <<storeVars, builderVars, keyVars>>
    BY <1>1, <1>2 DEF storeVars
  <1>3. CASE StoreStep(r)
    <2>1. CASE FindReceiver(r) \/ ReadWorkflow(r) \/ ReadAssignment(r) \/ FindSlug(r)
      <3>1. UNCHANGED wfs
        BY <2>1 DEF FindReceiver, ReadWorkflow, ReadAssignment, FindSlug, storeVars
      <3> QED
        BY <1>1, <3>1
    <2>2. CASE Grant(r) \/ Revoke(r) \/ Start(r) \/ DeleteAccountRead(r) \/ DeleteAccountAssignments(r)
               \/ DeleteAccountUser(r)
      <3>1. UNCHANGED wfs
        BY <2>2 DEF Grant, Revoke, Start, DeleteAccountRead, DeleteAccountAssignments, DeleteAccountUser,
           storeVars
      <3> QED
        BY <1>1, <3>1
    <2>3. CASE DeleteAccountWorkflows(r)
      BY <2>3 DEF DeleteAccountWorkflows, Empties
    <2> QED
      BY <1>3, <2>1, <2>2, <2>3, CreateCreates, UpdateRewrites, FlagsRewrite, OwnerRewrites DEF StoreStep
  <1>4. CASE BuilderStep(r)
    <2>1. CASE Persist(r)
      BY <2>1, PersistRewrites
    <2>2. CASE ~Persist(r)
      <3>1. UNCHANGED wfs
        BY <1>4, <2>2 DEF BuilderStep, FindSession, OpenSession, ModelRefused, TurnStart, Diagnosed,
           Planned, Built, ModelRaises, TooLarge, storeVars
      <3> QED
        BY <1>1, <3>1
    <2> QED
      BY <2>1, <2>2
  <1>5. CASE KeyStep(r) /\ UNCHANGED <<storeVars, builderVars>>
    BY <1>1, <1>5 DEF storeVars
  <1> QED
    BY <1>2, <1>3, <1>4, <1>5 DEF RequestStep

\* Rows of the workflows table are never removed.
WfsKept == WfsOK' /\ Len(wfs) <= Len(wfs')

LEMMA EmptiedRows ==
    ASSUME WfsOK, NEW r, Empties(r)
    PROVE  /\ WfsOK' /\ Len(wfs') = Len(wfs)
           /\ \A w \in DOMAIN wfs : wfs'[w] = wfs[w] \/ wfs'[w].gone
  <1>1. \A w \in DOMAIN wfs : wfs'[w] \in WorkflowRow /\ (wfs'[w] = wfs[w] \/ wfs'[w].gone)
    <2>1. TAKE w \in DOMAIN wfs
    <2>2. PICK old : old = wfs[w]
      OBVIOUS
    <2>3. PICK new : new = [old EXCEPT !.gone = TRUE]
      OBVIOUS
    <2>4. old \in WorkflowRow
      BY <2>2 DEF WfsOK
    <2>5. new \in WorkflowRow /\ new.gone
      BY <2>3, <2>4 DEF WorkflowRow
    <2>6. wfs'[w] = old \/ wfs'[w] = new
      BY <2>2, <2>3 DEF Empties
    <2> QED
      BY <2>2, <2>4, <2>5, <2>6
  <1>2. wfs' \in Seq(WorkflowRow) /\ Len(wfs') = Len(wfs)
    BY <1>1 DEF WfsOK, Empties
  <1> QED
    BY <1>1, <1>2 DEF WfsOK

LEMMA RequestWfs ==
    ASSUME UsersOK, WfsOK, NEW r \in cast, Routed(r), Knows(r), TurnOK(r), WellFormed(r), RequestStep(r)
    PROVE  WfsKept
  <1>1. CASE UNCHANGED wfs
    BY <1>1, Bounds DEF WfsOK, WfsKept
  <1>2. CASE Creates(r)
    BY <1>2, Bounds DEF Creates, WfsOK, WfsKept
  <1>3. CASE Empties(r)
    BY <1>3, EmptiedRows, Bounds DEF WfsOK, WfsKept
  <1>4. ASSUME NEW row, Rewrites(r, row) PROVE WfsKept
    BY <1>4, Bounds DEF Rewrites, WfsOK, WfsKept
  <1> QED
    BY <1>1, <1>2, <1>3, <1>4, RequestWrites DEF RewritesWell

\* The other tables of accounts, under any step of a request.
LEMMA RequestUsers ==
    ASSUME UsersOK, NEW r \in cast, Routed(r), Knows(r), WellFormed(r), RequestStep(r)
    PROVE  UsersKept
  <1>1. CASE AccountStep(r)
    BY <1>1, AccountStepUsers
  <1>2. CASE DeleteAccountUser(r)
    <2>1. r.by \in DOMAIN users
      BY <1>2 DEF DeleteAccountUser, At, Routed, Knows, Signed, JwtOps, Early
    <2>2. PICK row : row = [users[r.by] EXCEPT !.gone = TRUE]
      OBVIOUS
    <2>3. row \in UserRow
      <3>1. users[r.by] \in UserRow
        BY <2>1 DEF UsersOK
      <3> QED
        BY <2>2, <3>1 DEF UserRow
    <2>4. SetUser(r.by, row)
      BY <1>2, <2>2, Zenon DEF DeleteAccountUser
    <2> QED
      BY <2>1, <2>3, <2>4, SetUserKeeps
  <1>3. CASE StoreStep(r) /\ ~DeleteAccountUser(r)
    <2>1. users' = users
      BY <1>3 DEF StoreStep, FindReceiver, ReadWorkflow, ReadAssignment, FindSlug, CreateWorkflow, Update,
         UpdateFlags, AssignOwner, Delete, Grant, Revoke, Start, DeleteAccountRead, DeleteAccountWorkflows,
         DeleteAccountAssignments
    <2> QED
      BY <2>1, UsersUntouched
  <1>4. CASE BuilderStep(r)
    <2>1. users' = users
      BY <1>4 DEF BuilderStep, FindSession, OpenSession, ModelRefused, TurnStart, Diagnosed, Planned, Built,
         ModelRaises, TooLarge, Persist
    <2> QED
      BY <2>1, UsersUntouched
  <1>5. CASE KeyStep(r)
    <2>1. users' = users
      BY <1>5 DEF KeyStep, FindLlmKey, StoreLlmKey, DeleteLlmKey, ApplySetting
    <2> QED
      BY <2>1, UsersUntouched
  <1> QED
    BY <1>1, <1>2, <1>3, <1>4, <1>5 DEF RequestStep

LEMMA RequestKeys ==
    ASSUME UsersOK, KeysOK, NEW r \in cast, Knows(r), RequestStep(r)
    PROVE  KeysKept
  <1>1. CASE AccountStep(r)
    BY <1>1, AccountStepKeys
  <1>2. CASE DeleteAccountUser(r)
    <2>1. keys' = [k \in DOMAIN keys |-> IF k \in {l \in DOMAIN keys : keys[l].user = r.by}
                                         THEN [keys[k] EXCEPT !.revoked = TRUE] ELSE keys[k]]
      BY <1>2 DEF DeleteAccountUser
    <2> QED
      BY <2>1, RevokedKeep
  <1>3. CASE StoreStep(r) /\ ~DeleteAccountUser(r)
    <2>1. keys' = keys
      BY <1>3 DEF StoreStep, FindReceiver, ReadWorkflow, ReadAssignment, FindSlug, CreateWorkflow, Update,
         UpdateFlags, AssignOwner, Delete, Grant, Revoke, Start, DeleteAccountRead, DeleteAccountWorkflows,
         DeleteAccountAssignments
    <2> QED
      BY <2>1, KeysUntouched
  <1>4. CASE BuilderStep(r)
    <2>1. keys' = keys
      BY <1>4 DEF BuilderStep, FindSession, OpenSession, ModelRefused, TurnStart, Diagnosed, Planned, Built,
         ModelRaises, TooLarge, Persist
    <2> QED
      BY <2>1, KeysUntouched
  <1>5. CASE KeyStep(r)
    <2>1. keys' = keys
      BY <1>5 DEF KeyStep, FindLlmKey, StoreLlmKey, DeleteLlmKey, ApplySetting
    <2> QED
      BY <2>1, KeysUntouched
  <1> QED
    BY <1>1, <1>2, <1>3, <1>4, <1>5 DEF RequestStep

-----------------------------------------------------------------------------
(* What the steps do to the builder's sessions.                            *)

PatchesAreEdits ==
    \A s \in DOMAIN sessions : \A p \in sessions[s].patch : p.canvas \in Edits(CanvasOf(p.base))
SessionsWell == SessionsOK /\ PatchesAreEdits
SessionsKept == SessionsWell' /\ Len(sessions) <= Len(sessions')

LEMMA CanvasOfRow == ASSUME NEW row \in WorkflowRow PROVE CanvasOf(row) \in Canvas
  <1>1. PICK header : header = (row.secret = Marker)
    OBVIOUS
  <1>2. CanvasOf(row) = [node |-> row.node, secret |-> row.secret, resolves |-> row.resolves,
                         header |-> header]
    BY <1>1 DEF CanvasOf
  <1>3. header \in BOOLEAN
    BY <1>1
  <1> QED
    BY <1>2, <1>3 DEF Canvas, WorkflowRow

LEMMA EditsAreCanvases == ASSUME NEW canvas \in Canvas PROVE Edits(canvas) \subseteq Canvas
  <1>1. NoSecret \in StoredSecret /\ Plain("s2") \in SentSecret
    BY DEF StoredSecret, SentSecret, Secrets
  <1>2. [canvas EXCEPT !.resolves = ~@] \in Canvas
    BY DEF Canvas
  <1>3. [canvas EXCEPT !.secret = Plain("s2"), !.header = FALSE] \in Canvas
    BY <1>1 DEF Canvas
  <1>4. [canvas EXCEPT !.node = "n2", !.secret = NoSecret, !.header = FALSE] \in Canvas
    BY <1>1 DEF Canvas
  <1> QED
    BY <1>2, <1>3, <1>4 DEF Edits

LEMMA SessionsUntouched == ASSUME SessionsWell, UNCHANGED sessions PROVE SessionsKept
  BY Bounds DEF SessionsWell, SessionsOK, PatchesAreEdits, SessionsKept

\* A session is rewritten with a patch that is an edit of its base.
LEMMA SessionRewritten ==
    ASSUME SessionsWell, NEW s \in DOMAIN sessions, NEW new \in Session,
           sessions' = [sessions EXCEPT ![s] = new],
           \A p \in new.patch : p.canvas \in Edits(CanvasOf(p.base))
    PROVE  SessionsKept
  <1>1. SessionsOK' /\ Len(sessions') = Len(sessions)
    BY DEF SessionsWell, SessionsOK
  <1>2. \A t \in DOMAIN sessions' : sessions'[t] = new \/ (t \in DOMAIN sessions /\ sessions'[t] = sessions[t])
    BY DEF SessionsWell, SessionsOK
  <1>3. PatchesAreEdits'
    BY <1>2 DEF SessionsWell, PatchesAreEdits
  <1> QED
    BY <1>1, <1>3, Bounds DEF SessionsWell, SessionsOK, SessionsKept

LEMMA TurnIs ==
    ASSUME NEW turn, HasTurn(turn), turn.row \in WorkflowRow, turn.session \in Nat,
           turn.base \in WorkflowRow, turn.result \in Canvas, turn.proposal \in BOOLEAN
    PROVE  turn \in Turn
  <1>1. turn = [row |-> turn.row, session |-> turn.session, base |-> turn.base, result |-> turn.result,
                proposal |-> turn.proposal]
    BY DEF TurnFields, HasTurn
  <1> QED
    BY <1>1 DEF Turn

\* The steps of a turn, one by one.
Turned(r) == SessionsKept /\ TurnOK(r)'

LEMMA OpenSessionTurns ==
    ASSUME Shape, SessionsWell, NEW r \in cast, Knows(r), WellFormed(r), OpenSession(r)
    PROVE  Turned(r)
  <1>1. PICK s : s = IF r.session = 0 THEN Len(sessions) + 1 ELSE r.session
    OBVIOUS
  <1>2. r.session \in Nat /\ (r.session # 0 => r.session \in DOMAIN sessions)
    BY DEF WellFormed, Request, OpenSession, At, Knows
  <1>3. PICK row : row = req[r].saw
    OBVIOUS
  <1>4. row \in WorkflowRow
    BY <1>3 DEF OpenSession, At, Knows, RoleOps
  <1>5. PICK new : new = [live |-> TRUE, plan |-> FALSE, patch |-> {}]
    OBVIOUS
  <1>6. new \in Session /\ new.patch = {}
    BY <1>5 DEF Session
  <1>7. s <= MaxSessions /\ sessions' = (IF r.session # 0 THEN sessions ELSE Append(sessions, new))
    BY <1>1, <1>5, Zenon DEF OpenSession
  <1>8. SessionsKept /\ s \in DOMAIN sessions' /\ s \in Nat
    <2>1. CASE r.session # 0
      <3>1. sessions' = sessions /\ s \in DOMAIN sessions
        BY <1>1, <1>2, <1>7, <2>1
      <3> QED
        BY <3>1, SessionsUntouched DEF SessionsWell, SessionsOK
    <2>2. CASE r.session = 0
      <3>1. s = Len(sessions) + 1 /\ sessions' = Append(sessions, new)
        BY <1>1, <1>7, <2>2
      <3>2. /\ sessions' \in Seq(Session) /\ Len(sessions') = Len(sessions) + 1
            /\ s \in DOMAIN sessions' /\ s \in Nat
        BY <1>6, <3>1 DEF SessionsWell, SessionsOK
      <3>3. \A t \in DOMAIN sessions' : sessions'[t] = new \/ (t \in DOMAIN sessions /\ sessions'[t] = sessions[t])
        BY <1>6, <3>1 DEF SessionsWell, SessionsOK
      <3>4. PatchesAreEdits'
        BY <1>6, <3>3 DEF SessionsWell, PatchesAreEdits
      <3> QED
        BY <1>7, <3>1, <3>2, <3>4, Bounds DEF SessionsWell, SessionsOK, SessionsKept
    <2> QED
      BY <2>1, <2>2
  <1>9. PICK turn : turn = [row |-> row, session |-> s, base |-> row, result |-> CanvasOf(row), proposal |-> TRUE]
    OBVIOUS
  <1>10. turn \in Turn
    BY <1>4, <1>8, <1>9, CanvasOfRow DEF Turn
  <1>11. /\ turn.session = s /\ turn.base = row /\ turn.row = row
         /\ turn.result = CanvasOf(row) /\ turn.proposal = TRUE
    BY <1>9
  <1>12. req'[r].pc = "policy" /\ req'[r].saw = turn
    <2>1. GotoSeeing(r, "policy", turn) /\ cast' = cast
      BY <1>1, <1>3, <1>9, Zenon DEF OpenSession
    <2> QED
      BY <2>1, GotoSeeingIs
  <1>13. CanvasOf(row) \in Edits(CanvasOf(row))
    BY DEF Edits
  <1> QED
    BY <1>8, <1>10, <1>11, <1>12, <1>13 DEF Turned, TurnOK

\* What a turn holds while it is under way, and while it still proposes.
LEMMA InTurn ==
    ASSUME SessionsWell, NEW r \in cast, TurnOK(r), req[r].pc \in Turns
    PROVE  LET turn == req[r].saw IN
           /\ turn \in Turn /\ turn.session \in DOMAIN sessions /\ sessions[turn.session] \in Session
           /\ turn.result \in Edits(CanvasOf(turn.base))
           /\ req[r].pc # "persist" => /\ turn.proposal
                                       /\ turn.base = turn.row /\ turn.result = CanvasOf(turn.row)
  BY DEF TurnOK, SessionsWell, SessionsOK

\* A turn goes on without touching what it holds.
LEMMA TurnGoesOn ==
    ASSUME Shape, SessionsWell, NEW r \in cast, TurnOK(r), req[r].pc \in Turns \ {"persist"}, cast' = cast,
           NEW pc, Goto(r, pc), SessionsKept
    PROVE  Turned(r)
  <1>1. req'[r].pc = pc /\ req'[r].saw = req[r].saw
    BY GotoIs
  <1>2. DOMAIN sessions \subseteq DOMAIN sessions'
    BY DEF SessionsKept, SessionsWell, SessionsOK
  <1>3. PICK turn : turn = req[r].saw
    OBVIOUS
  <1>4. /\ turn \in Turn /\ turn.session \in DOMAIN sessions
        /\ turn.result \in Edits(CanvasOf(turn.base))
        /\ turn.base = turn.row /\ turn.result = CanvasOf(turn.row) /\ turn.proposal
    BY <1>3, InTurn
  <1>5. req'[r].saw = turn
    BY <1>1, <1>3
  <1>6. turn.proposal = TRUE
    BY <1>4 DEF Turn
  <1>7. turn.session \in DOMAIN sessions'
    BY <1>2, <1>4
  <1>8. TurnOK(r)'
    BY <1>4, <1>5, <1>6, <1>7 DEF TurnOK
  <1> QED
    BY <1>8 DEF Turned

\* A turn leaves an edit of a base to be stored.
LEMMA TurnLeaves ==
    ASSUME Shape, SessionsWell, NEW r \in cast, TurnOK(r), req[r].pc \in Turns, cast' = cast,
           NEW base \in WorkflowRow, NEW canvas \in Edits(CanvasOf(base)), Leaves(r, canvas, base),
           SessionsKept
    PROVE  Turned(r)
  <1>1. PICK turn : turn = req[r].saw
    OBVIOUS
  <1>2. turn \in Turn /\ turn.session \in DOMAIN sessions
    BY <1>1 DEF TurnOK
  <1>3. HasTurn(req[r].saw)
    BY <1>1, <1>2, TurnHasFields
  <1>4. PICK new : new = req'[r].saw
    OBVIOUS
  <1>5. /\ req'[r].pc = "persist" /\ HasTurn(new)
        /\ new.row = turn.row /\ new.session = turn.session
        /\ new.base = base /\ new.result = canvas /\ new.proposal = FALSE
    <2>1. /\ req'[r].pc = "persist"
          /\ HasTurn(req'[r].saw)
          /\ req'[r].saw.row = req[r].saw.row /\ req'[r].saw.session = req[r].saw.session
          /\ req'[r].saw.base = base /\ req'[r].saw.result = canvas /\ req'[r].saw.proposal = FALSE
      BY <1>3, LeavesIs
    <2> QED
      BY <1>1, <1>4, <2>1, Zenon
  <1>6. canvas \in Canvas
    BY CanvasOfRow, EditsAreCanvases
  <1>7. turn.row \in WorkflowRow /\ turn.session \in Nat
    BY <1>2 DEF Turn
  <1>8. new \in Turn
    BY <1>5, <1>6, <1>7, TurnIs
  <1>9. DOMAIN sessions \subseteq DOMAIN sessions'
    BY DEF SessionsKept, SessionsWell, SessionsOK
  <1> QED
    BY <1>2, <1>4, <1>5, <1>8, <1>9 DEF Turned, TurnOK

LEMMA TurnStartTurns ==
    ASSUME Shape, SessionsWell, NEW r \in cast, Routed(r), TurnOK(r), TurnStart(r)
    PROVE  Turned(r)
  <1>1. req[r].pc = "policy" /\ req[r].pc \in Turns \ {"persist"} /\ cast' = cast
    BY DEF TurnStart, At, Turns
  <1>2. PICK s : s = req[r].saw.session
    OBVIOUS
  <1>3. s \in DOMAIN sessions /\ sessions[s] \in Session
    BY <1>1, <1>2, InTurn
  <1>4. PICK patch : patch = sessions[s].patch
    OBVIOUS
  <1>5. CASE r.arg \in {"approve", "reject"} /\ patch # {}
    <2>1. PICK p \in patch :
            /\ IF r.arg = "approve" THEN Leaves(r, p.canvas, p.base) ELSE Goto(r, "persist")
            /\ sessions' = [sessions EXCEPT ![s].patch = {}]
      BY <1>2, <1>4, <1>5, Zenon DEF TurnStart
    <2>2. p \in Patch /\ p.canvas \in Edits(CanvasOf(p.base))
      BY <1>3, <1>4 DEF Session, SessionsWell, PatchesAreEdits
    <2>3. p.base \in WorkflowRow
      BY <2>2 DEF Patch
    <2>4. PICK new : new = [sessions[s] EXCEPT !.patch = {}]
      OBVIOUS
    <2>5. sessions' = [sessions EXCEPT ![s] = new]
      BY <2>1, <2>4
    <2>6. new \in Session /\ new.patch = {}
      BY <1>3, <2>4 DEF Session
    <2>7. SessionsKept
      BY <1>3, <2>5, <2>6, SessionRewritten
    <2>8. CASE Leaves(r, p.canvas, p.base)
      BY <1>1, <2>2, <2>3, <2>7, <2>8, TurnLeaves
    <2>9. CASE Goto(r, "persist")
      BY <1>1, <2>7, <2>9, TurnGoesOn
    <2> QED
      BY <2>1, <2>8, <2>9
  <1>6. CASE ~(r.arg \in {"approve", "reject"} /\ patch # {})
    <2>1. PICK pc : pc = CASE r.arg = "diagnose" -> "diagnosing"
                           [] r.arg # "diagnose" /\ ~sessions[s].plan -> "planning"
                           [] OTHER -> "building"
      OBVIOUS
    <2>2. Goto(r, pc) /\ UNCHANGED builderVars
      BY <1>2, <1>4, <1>6, <2>1, Zenon DEF TurnStart
    <2>3. SessionsKept
      BY <2>2, SessionsUntouched DEF builderVars
    <2> QED
      BY <1>1, <2>2, <2>3, TurnGoesOn
  <1> QED
    BY <1>5, <1>6

LEMMA DiagnosedTurns ==
    ASSUME Shape, SessionsWell, NEW r \in cast, WellFormed(r), TurnOK(r), Diagnosed(r)
    PROVE  Turned(r)
  <1>1. req[r].pc = "diagnosing" /\ req[r].pc \in Turns \ {"persist"} /\ cast' = cast
    BY DEF Diagnosed, At, Turns
  <1>2. PICK turn : turn = req[r].saw
    OBVIOUS
  <1>3. /\ turn \in Turn /\ turn.session \in DOMAIN sessions /\ sessions[turn.session] \in Session
        /\ turn.result = CanvasOf(turn.row)
    BY <1>1, <1>2, InTurn
  <1>4. PICK canvas \in Edits(turn.result) : Propose(r, canvas)
    BY <1>2 DEF Diagnosed
  <1>5. turn.row \in WorkflowRow
    BY <1>3 DEF Turn
  <1>6. canvas \in Canvas /\ canvas \in Edits(CanvasOf(turn.row))
    BY <1>3, <1>4, <1>5, CanvasOfRow, EditsAreCanvases
  <1>7. PICK p : p = [canvas |-> canvas, from |-> r.id, base |-> turn.row]
    OBVIOUS
  <1>8. p \in Patch /\ p.canvas = canvas /\ p.base = turn.row
    BY <1>5, <1>6, <1>7 DEF Patch, WellFormed, Request
  <1>9. PICK new : new = [sessions[turn.session] EXCEPT !.patch = {p}]
    OBVIOUS
  <1>10. new \in Session /\ new.patch = {p}
    BY <1>3, <1>8, <1>9 DEF Session
  <1>11. sessions' = [sessions EXCEPT ![turn.session] = new]
    BY <1>2, <1>4, <1>7, <1>9 DEF Propose
  <1>12. SessionsKept
    BY <1>3, <1>6, <1>8, <1>10, <1>11, SessionRewritten
  <1> QED
    BY <1>1, <1>12, TurnGoesOn DEF Diagnosed

LEMMA PlannedTurns ==
    ASSUME Shape, SessionsWell, NEW r \in cast, TurnOK(r), Planned(r)
    PROVE  Turned(r)
  <1>1. req[r].pc = "planning" /\ req[r].pc \in Turns \ {"persist"} /\ cast' = cast
    BY DEF Planned, At, Turns
  <1>2. PICK s : s = req[r].saw.session
    OBVIOUS
  <1>3. s \in DOMAIN sessions /\ sessions[s] \in Session
    BY <1>1, <1>2, InTurn
  <1>4. CASE Goto(r, "building") /\ UNCHANGED sessions
    BY <1>1, <1>4, SessionsUntouched, TurnGoesOn
  <1>5. CASE Goto(r, "persist") /\ sessions' = [sessions EXCEPT ![req[r].saw.session].plan = TRUE]
    <2>1. PICK new : new = [sessions[s] EXCEPT !.plan = TRUE]
      OBVIOUS
    <2>2. new \in Session /\ new.patch = sessions[s].patch
      BY <1>3, <2>1 DEF Session
    <2>3. sessions' = [sessions EXCEPT ![s] = new]
      BY <1>2, <1>5, <2>1
    <2>4. \A p \in new.patch : p.canvas \in Edits(CanvasOf(p.base))
      BY <1>3, <2>2 DEF SessionsWell, PatchesAreEdits
    <2>5. SessionsKept
      BY <1>3, <2>2, <2>3, <2>4, SessionRewritten
    <2> QED
      BY <1>1, <1>5, <2>5, TurnGoesOn
  <1> QED
    BY <1>4, <1>5 DEF Planned

LEMMA BuiltTurns ==
    ASSUME Shape, SessionsWell, NEW r \in cast, TurnOK(r), Built(r)
    PROVE  Turned(r)
  <1>1. req[r].pc = "building" /\ req[r].pc \in Turns /\ cast' = cast /\ UNCHANGED sessions
    BY DEF Built, At, Turns, builderVars
  <1>2. PICK turn : turn = req[r].saw
    OBVIOUS
  <1>3. turn \in Turn /\ turn.result = CanvasOf(turn.row)
    BY <1>1, <1>2, InTurn
  <1>4. PICK canvas \in Edits(turn.result) : Leaves(r, canvas, turn.row)
    BY <1>2 DEF Built
  <1>5. turn.row \in WorkflowRow
    BY <1>3 DEF Turn
  <1>6. SessionsKept
    BY <1>1, SessionsUntouched
  <1> QED
    BY <1>1, <1>3, <1>4, <1>5, <1>6, TurnLeaves

LEMMA BuilderTurns ==
    ASSUME Shape, SessionsWell, NEW r \in cast, Routed(r), Knows(r), TurnOK(r), WellFormed(r), BuilderStep(r)
    PROVE  Turned(r)
  <1>1. CASE FindSession(r) \/ ModelRefused(r) \/ ModelRaises(r) \/ TooLarge(r) \/ Persist(r)
    <2>1. UNCHANGED sessions /\ cast' = cast
      BY <1>1 DEF FindSession, ModelRefused, ModelRaises, TooLarge, Persist, builderVars
    <2>2. PICK pc \in {"session", "refused", "error", "ok"} : Goto(r, pc)
      BY <1>1 DEF FindSession, ModelRefused, ModelRaises, TooLarge, Persist, Changed
    <2>3. req'[r].pc \notin Turns
      BY <2>1, <2>2, GotoIs DEF Turns
    <2> QED
      BY <2>1, <2>3, SessionsUntouched DEF Turned, TurnOK
  <1> QED
    BY <1>1, OpenSessionTurns, TurnStartTurns, DiagnosedTurns, PlannedTurns, BuiltTurns DEF BuilderStep

LEMMA RequestTurns ==
    ASSUME Shape, SessionsWell, NEW r \in cast, Routed(r), Knows(r), TurnOK(r), WellFormed(r), Goes(r),
           RequestStep(r)
    PROVE  Turned(r)
  <1>1. CASE BuilderStep(r)
    BY <1>1, BuilderTurns
  <1>2. CASE ~BuilderStep(r)
    <2>1. UNCHANGED sessions
      BY <1>2 DEF RequestStep, builderVars
    <2>2. req'[r].pc \notin Turns
      BY <1>2 DEF Goes, Comes
    <2> QED
      BY <2>1, <2>2, SessionsUntouched DEF Turned, TurnOK
  <1> QED
    BY <1>1, <1>2

-----------------------------------------------------------------------------
(* What a request knows after its step, and after a step of another.       *)

TablesKept == UsersKept /\ KeysKept /\ WfsKept /\ SessionsKept
TablesWell == UsersOK /\ KeysOK /\ WfsOK /\ SessionsWell

LEMMA DomainsGrow ==
    ASSUME TablesWell, TablesKept
    PROVE  /\ DOMAIN users \subseteq DOMAIN users' /\ DOMAIN keys \subseteq DOMAIN keys'
           /\ DOMAIN wfs \subseteq DOMAIN wfs' /\ DOMAIN sessions \subseteq DOMAIN sessions'
           /\ Len(keys) \in Nat /\ Len(keys') \in Nat /\ Len(keys) <= Len(keys')
  <1>1. DOMAIN users \subseteq DOMAIN users'
    BY DEF TablesWell, TablesKept, UsersOK, UsersKept
  <1>2. /\ DOMAIN keys \subseteq DOMAIN keys'
        /\ Len(keys) \in Nat /\ Len(keys') \in Nat /\ Len(keys) <= Len(keys')
    BY DEF TablesWell, TablesKept, KeysOK, KeysKept
  <1>3. DOMAIN wfs \subseteq DOMAIN wfs'
    BY DEF TablesWell, TablesKept, WfsOK, WfsKept
  <1>4. DOMAIN sessions \subseteq DOMAIN sessions'
    BY DEF TablesWell, TablesKept, SessionsWell, SessionsOK, SessionsKept
  <1> QED
    BY <1>1, <1>2, <1>3, <1>4

\* Another request's step takes nothing away.
LEMMA OthersKnow ==
    ASSUME TablesWell, TablesKept, NEW q \in cast, req'[q] = req[q], Knows(q), TurnOK(q)
    PROVE  Knows(q)' /\ TurnOK(q)'
  <1>1. Knows(q)'
    BY DomainsGrow DEF Knows
  <1>2. TurnOK(q)'
    BY DomainsGrow DEF TurnOK
  <1> QED
    BY <1>1, <1>2

\* Only authentication takes a request in.
LEMMA UnderWay ==
    ASSUME NEW r \in cast, Routed(r), Goes(r), req'[r].pc \notin Early
    PROVE  /\ r.op \in Signed => Authenticate(r) \/ req[r].pc \notin Early
           /\ r.op = "run_external" => FindKey(r) \/ req[r].pc \notin Early
  <1> USE DEF Early, Signed, JwtOps, RoleOps, AdminOps, UserAdminOps, OtherAdminOps
  <1>1. CASE GoesOn(r)
    BY <1>1 DEF GoesOn
  <1>2. CASE Authenticate(r) \/ ReadRole(r) \/ FindKey(r) \/ FindKeyOwner(r)
    BY <1>2 DEF Authenticate, ReadRole, FindKey, FindKeyOwner, At
  <1>3. CASE Refresh(r) \/ ChangeAuthenticate(r) \/ ResetVerify(r)
    BY <1>3 DEF Refresh, ChangeAuthenticate, ResetVerify, At
  <1>4. CASE ReadWorkflow(r) \/ ReadAssignment(r) \/ FindSlug(r)
    BY <1>4 DEF ReadWorkflow, ReadAssignment, FindSlug, At
  <1> QED
    BY <1>1, <1>2, <1>3, <1>4 DEF Goes, Admits

LEMMA RequestKnows ==
    ASSUME Shape, TablesWell, TablesKept, NEW r \in cast, Routed(r), Knows(r), TurnOK(r), Goes(r),
           RequestStep(r)
    PROVE  Knows(r)'
  <1>0. cast' = cast /\ Routed(r)'
    BY DEF Goes, Only
  <1>1. r.op \in Signed /\ req'[r].pc \notin Early => r.by \in DOMAIN users'
    <2> SUFFICES ASSUME r.op \in Signed, req'[r].pc \notin Early PROVE r.by \in DOMAIN users'
      OBVIOUS
    <2>1. CASE Authenticate(r)
      <3>1. MayCall(r.by)
        <4>1. CASE ~MayCall(r.by)
          <5>1. Goto(r, "refused")
            BY <2>1, <4>1 DEF Authenticate
          <5> QED
            BY <1>0, <5>1, GotoIs DEF Early
        <4> QED
          BY <4>1
      <3> QED
        BY <3>1, DomainsGrow DEF MayCall, Present
    <2>2. CASE req[r].pc \notin Early
      BY <2>2, DomainsGrow DEF Knows
    <2> QED
      BY <2>1, <2>2, UnderWay
  <1>2. r.op \in {"revoke_key", "admin_revoke_key"} /\ req'[r].pc = "found" => r.key \in DOMAIN keys'
    <2> SUFFICES ASSUME r.op \in {"revoke_key", "admin_revoke_key"}, req'[r].pc = "found"
                 PROVE  r.key \in DOMAIN keys'
      OBVIOUS
    <2>1. RevokeOwnKey(r) \/ RevokeUsersKey(r)
      BY DEF Goes, Comes
    <2>2. PICK of : RevokeRead(r, of)
      BY <2>1 DEF RevokeOwnKey, RevokeUsersKey
    <2>3. CASE r.key \notin DOMAIN keys
      <3>1. Goto(r, "refused")
        BY <2>2, <2>3 DEF RevokeRead
      <3> QED
        BY <1>0, <3>1, GotoIs
    <2> QED
      BY <2>3, DomainsGrow
  <1>3. r.op = "run_external" /\ req'[r].pc \notin Early => r.key \in DOMAIN keys'
    BY UnderWay, DomainsGrow DEF FindKey, Knows
  <1>4. req'[r].pc = "receiver" => r.on \in DOMAIN users'
    <2> SUFFICES ASSUME req'[r].pc = "receiver" PROVE r.on \in DOMAIN users'
      OBVIOUS
    <2>1. FindReceiver(r)
      BY DEF Goes, Comes
    <2>2. CASE ~Present(r.on)
      <3>1. Goto(r, "refused")
        BY <2>1, <2>2 DEF FindReceiver
      <3> QED
        BY <1>0, <3>1, GotoIs
    <2> QED
      BY <2>2, DomainsGrow DEF Present
  <1>5. r.op = "owner" /\ req'[r].pc = "may" => r.on \in DOMAIN users'
    <2> SUFFICES ASSUME r.op = "owner", req'[r].pc = "may" PROVE r.on \in DOMAIN users'
      OBVIOUS
    <2>1. ReadWorkflow(r) \/ ReadAssignment(r) \/ FindSlug(r)
      BY DEF Goes, Comes
    <2>2. req[r].pc = "receiver"
      BY <2>1 DEF ReadWorkflow, ReadAssignment, FindSlug, At, RoleOps, Routed
    <2> QED
      BY <2>2, DomainsGrow DEF Knows
  <1>6. ASSUME req'[r].pc \in {"may", "assignee"}, ReadWorkflow(r)
        PROVE  r.wf \in DOMAIN wfs /\ req'[r].saw \in WorkflowRow
    <2>1. CASE ~Stored(r.wf)
      <3>1. Goto(r, "refused")
        BY <1>6, <2>1 DEF ReadWorkflow
      <3> QED
        BY <1>0, <1>6, <3>1, GotoIs
    <2>2. CASE Stored(r.wf)
      <3>1. r.wf \in DOMAIN wfs
        BY <2>2 DEF Stored
      <3>2. Answer(r, wfs[r.wf]) \/ \E pc : GotoSeeing(r, pc, wfs[r.wf])
        BY <1>6, <2>2 DEF ReadWorkflow
      <3>3. ~Answer(r, wfs[r.wf])
        BY <1>0, <1>6, GotoSeeingIs DEF Answer
      <3>4. req'[r].saw = wfs[r.wf]
        BY <1>0, <3>2, <3>3, GotoSeeingIs
      <3> QED
        BY <3>1, <3>4 DEF TablesWell, WfsOK
    <2> QED
      BY <2>1, <2>2
  <1>7. ASSUME req'[r].pc = "may", ReadAssignment(r)
        PROVE  req[r].pc = "assignee" /\ req'[r].saw = req[r].saw
    <2>1. req[r].pc = "assignee"
      BY <1>7 DEF ReadAssignment, At
    <2>2. ~Answer(r, req[r].saw)
      BY <1>0, <1>7, GotoSeeingIs DEF Answer
    <2>3. \E pc : Goto(r, pc)
      BY <1>7, <2>2 DEF ReadAssignment
    <2> QED
      BY <1>0, <2>1, <2>3, GotoIs
  <1>8. r.op \in RoleOps \cup {"flags", "owner"} /\ req'[r].pc \in {"may", "assignee"} \cup Turns
        => r.wf \in DOMAIN wfs'
    <2> SUFFICES ASSUME r.op \in RoleOps \cup {"flags", "owner"}, req'[r].pc \in {"may", "assignee"} \cup Turns
                 PROVE  r.wf \in DOMAIN wfs
      BY DomainsGrow
    <2>1. CASE ReadWorkflow(r) /\ req'[r].pc \in {"may", "assignee"}
      BY <1>6, <2>1
    <2>2. CASE ReadAssignment(r) /\ req'[r].pc = "may"
      BY <1>7, <2>2 DEF Knows
    <2>3. CASE BuilderStep(r) /\ req'[r].pc \in Turns
      <3>1. r.op = "build"
        BY <1>0, <2>3 DEF Routed
      <3>2. req[r].pc \in {"may"} \cup Turns
        <4>1. CASE FindSession(r)
          <5>1. PICK pc \in {"session", "refused"} : Goto(r, pc)
            BY <4>1 DEF FindSession
          <5> QED
            BY <1>0, <2>3, <5>1, GotoIs DEF Turns
        <4> QED
          BY <2>3, <4>1 DEF BuilderStep, OpenSession, ModelRefused, TurnStart, Diagnosed, Planned,
             Built, ModelRaises, TooLarge, Persist, At, Turns
      <3> QED
        BY <3>1, <3>2 DEF Knows, RoleOps
    <2>4. ~FindSlug(r)
      BY DEF FindSlug, RoleOps
    <2> QED
      BY <2>1, <2>2, <2>3, <2>4 DEF Goes, Comes
  <1>9. r.op \in RoleOps \cup {"flags"} /\ req'[r].pc \in {"may", "assignee"} => req'[r].saw \in WorkflowRow
    <2> SUFFICES ASSUME r.op \in RoleOps \cup {"flags"}, req'[r].pc \in {"may", "assignee"}
                 PROVE  req'[r].saw \in WorkflowRow
      OBVIOUS
    <2>1. CASE ReadWorkflow(r)
      BY <1>6, <2>1
    <2>2. CASE ReadAssignment(r) /\ req'[r].pc = "may"
      BY <1>7, <2>2 DEF Knows
    <2>3. ~FindSlug(r)
      BY DEF FindSlug, RoleOps
    <2> QED
      BY <2>1, <2>2, <2>3 DEF Goes, Comes
  <1>10. r.op = "deactivate" /\ req'[r].pc \in {"found", "revoked", "ok"} => req'[r].saw \in 0..Len(keys')
    <2> SUFFICES ASSUME r.op = "deactivate", req'[r].pc \in {"found", "revoked", "ok"}
                 PROVE  req'[r].saw \in 0..Len(keys')
      OBVIOUS
    <2>1. CASE FindTarget(r)
      <3>1. PICK pc : GotoSeeing(r, pc, Len(keys))
        BY <2>1 DEF FindTarget
      <3>2. req'[r].saw = Len(keys)
        BY <1>0, <3>1, GotoSeeingIs
      <3> QED
        BY <3>2, DomainsGrow
    <2>2. CASE DeactivateKeys(r) \/ Deactivate(r)
      <3>1. req[r].pc \in {"found", "revoked"} /\ \E pc : Goto(r, pc)
        BY <2>2 DEF DeactivateKeys, Deactivate, AdminUpdate, At
      <3>2. req'[r].saw = req[r].saw
        BY <1>0, <3>1, GotoIs
      <3>3. req[r].saw \in 0..Len(keys)
        BY <3>1 DEF Knows
      <3> QED
        BY <3>2, <3>3, DomainsGrow
    <2> QED
      BY <2>1, <2>2 DEF Goes, Comes
  <1>11. r.op = "build" /\ req'[r].pc \in {"session", "may", "assignee"}
         => r.session \in {0} \cup DOMAIN sessions'
    <2> SUFFICES ASSUME r.op = "build", req'[r].pc \in {"session", "may", "assignee"}
                 PROVE  r.session \in {0} \cup DOMAIN sessions
      BY DomainsGrow
    <2>1. CASE FindSession(r)
      <3>1. CASE r.session \notin {0} \cup DOMAIN sessions
        <4>1. Goto(r, "refused")
          BY <2>1, <3>1 DEF FindSession
        <4> QED
          BY <1>0, <4>1, GotoIs
      <3> QED
        BY <3>1
    <2>2. CASE ReadWorkflow(r) \/ ReadAssignment(r)
      <3>1. req[r].pc \in {"session", "assignee"}
        BY <2>2 DEF ReadWorkflow, ReadAssignment, At
      <3> QED
        BY <3>1 DEF Knows
    <2>3. ~FindSlug(r)
      BY DEF FindSlug
    <2> QED
      BY <2>1, <2>2, <2>3 DEF Goes, Comes
  <1> QED
    BY <1>1, <1>2, <1>3, <1>4, <1>5, <1>8, <1>9, <1>10, <1>11 DEF Knows

-----------------------------------------------------------------------------
(* The invariant that everything else stands on.                           *)

RequestOK(r) == Routed(r) /\ Knows(r) /\ TurnOK(r)
Known ==
    /\ cast \in Casts
    /\ Shape
    /\ TablesWell
    /\ \A r \in cast : RequestOK(r)

LEMMA CastIsWellFormed == ASSUME cast \in Casts, NEW r \in cast PROVE WellFormed(r)
  BY WorkspaceAssumption

\* What holds of a step that a request takes.
LEMMA Stepping ==
    ASSUME Known, NEW r, RequestStep(r)
    PROVE  r \in cast /\ RequestOK(r) /\ WellFormed(r) /\ Goes(r) /\ TablesKept /\ Turned(r) /\ RequestOK(r)'
  <1>1. r \in cast
    BY OfTheCast
  <1>2. RequestOK(r) /\ WellFormed(r) /\ Shape /\ TablesWell
    BY <1>1, CastIsWellFormed DEF Known
  <1>3. UsersOK /\ KeysOK /\ WfsOK /\ SessionsWell /\ Routed(r) /\ Knows(r) /\ TurnOK(r)
    BY <1>2 DEF TablesWell, RequestOK
  <1>4. Goes(r)
    BY <1>1, <1>2, <1>3, RequestGoes DEF UsersOK
  <1>5. UsersKept
    BY <1>1, <1>2, <1>3, RequestUsers
  <1>6. KeysKept
    BY <1>1, <1>2, <1>3, RequestKeys
  <1>7. WfsKept
    BY <1>1, <1>2, <1>3, RequestWfs
  <1>8. Turned(r)
    BY <1>1, <1>2, <1>3, <1>4, RequestTurns
  <1>9. TablesKept
    BY <1>5, <1>6, <1>7, <1>8 DEF TablesKept, Turned
  <1>10. Knows(r)'
    BY <1>1, <1>2, <1>3, <1>4, <1>9, RequestKnows
  <1>11. RequestOK(r)'
    BY <1>4, <1>8, <1>10 DEF RequestOK, Goes, Turned
  <1> QED
    BY <1>1, <1>2, <1>4, <1>8, <1>9, <1>11

LEMMA TablesStayWell == ASSUME TablesKept PROVE TablesWell'
  BY DEF TablesKept, TablesWell, UsersKept, KeysKept, WfsKept, SessionsKept

LEMMA RequestKeepsKnown ==
    ASSUME Known, NEW r, RequestStep(r)
    PROVE  Known'
  <1>1. r \in cast /\ Only(r) /\ TablesKept /\ RequestOK(r)'
    BY Stepping DEF Goes
  <1>2. ASSUME NEW q \in cast, q # r PROVE RequestOK(q)'
    <2>1. req'[q] = req[q] /\ RequestOK(q) /\ TablesWell
      BY <1>1, <1>2 DEF Only, Known
    <2>2. Knows(q)' /\ TurnOK(q)'
      BY <1>1, <2>1, OthersKnow DEF RequestOK
    <2>3. Routed(q)'
      BY <2>1 DEF RequestOK, Routed
    <2> QED
      BY <2>2, <2>3 DEF RequestOK
  <1>3. TablesWell'
    BY <1>1, TablesStayWell
  <1> QED
    BY <1>1, <1>2, <1>3 DEF Known, Only

\* A restart drops requests of its instance and touches no table.
LEMMA BootIs ==
    ASSUME Shape, NEW i, Boot(i)
    PROVE  /\ cast' = cast /\ Shape'
           /\ \A q \in cast : \/ req'[q] = req[q]
                              \/ /\ req'[q].pc = "dead" /\ req'[q].role = req[q].role
                                 /\ req'[q].saw = req[q].saw
                                 /\ q.op \in LlmOps /\ q.at = i
  <1>1. cast' = cast
    BY DEF Boot
  <1>2. ASSUME NEW q \in cast
        PROVE  /\ Shaped(q)'
               /\ \/ req'[q] = req[q]
                  \/ /\ req'[q].pc = "dead" /\ req'[q].role = req[q].role /\ req'[q].saw = req[q].saw
                     /\ q.op \in LlmOps /\ q.at = i
    <2>1. PICK dead : dead = [req[q] EXCEPT !.pc = "dead"]
      OBVIOUS
    <2>2. /\ dead = [f \in Fields |-> dead[f]]
          /\ dead.pc = "dead" /\ dead.role = req[q].role /\ dead.saw = req[q].saw
      BY <2>1 DEF Shape, Shaped, Fields
    <2>3. req'[q] = req[q] \/ (req'[q] = dead /\ q.op \in LlmOps /\ q.at = i)
      BY <2>1 DEF Boot
    <2>4. Shaped(q)'
      <3>1. req[q] = [f \in Fields |-> req[q][f]]
        BY DEF Shape, Shaped
      <3>2. PICK new : new = req'[q]
        OBVIOUS
      <3>3. new = [f \in Fields |-> new[f]]
        BY <2>2, <2>3, <3>1, <3>2
      <3> QED
        BY <3>2, <3>3, Zenon DEF Shaped
    <2> QED
      BY <2>2, <2>3, <2>4
  <1>3. req' = [q \in cast |-> req'[q]]
    BY DEF Boot
  <1> QED
    BY <1>1, <1>2, <1>3 DEF Shape

LEMMA RestartKeepsKnown ==
    ASSUME Known, NEW i, Restart(i)
    PROVE  Known'
  <1>1. Boot(i) /\ UNCHANGED <<users, keys, wfs, sessions>>
    BY DEF Restart, Boot, storeVars, builderVars
  <1>2. TablesWell'
    BY <1>1 DEF Known, TablesWell, UsersOK, KeysOK, WfsOK, SessionsWell, SessionsOK, PatchesAreEdits
  <1>3. ASSUME NEW q \in cast PROVE RequestOK(q)'
    <2>1. RequestOK(q)
      BY DEF Known
    <2>2. CASE req'[q] = req[q]
      BY <1>1, <2>1, <2>2 DEF RequestOK, Routed, Knows, TurnOK
    <2>3. CASE req'[q].pc = "dead" /\ req'[q].role = req[q].role
      BY <2>1, <2>3 DEF RequestOK, Routed, Knows, TurnOK, Early, Turns, Points
    <2> QED
      BY <1>1, <2>2, <2>3, BootIs DEF Known
  <1> QED
    BY <1>1, <1>2, <1>3, BootIs DEF Known

LEMMA ExpireKeepsSessions ==
    ASSUME SessionsWell, NEW s \in DOMAIN sessions, Expire(s)
    PROVE  SessionsKept
  <1>1. PICK new : new = [sessions[s] EXCEPT !.live = FALSE]
    OBVIOUS
  <1>2. sessions[s] \in Session
    BY DEF SessionsWell, SessionsOK
  <1>3. new \in Session /\ new.patch = sessions[s].patch
    BY <1>1, <1>2 DEF Session
  <1>4. sessions' = [sessions EXCEPT ![s] = new]
    BY <1>1 DEF Expire
  <1>5. \A p \in new.patch : p.canvas \in Edits(CanvasOf(p.base))
    BY <1>3 DEF SessionsWell, PatchesAreEdits
  <1> QED
    BY <1>3, <1>4, <1>5, SessionRewritten

LEMMA ExpireKeepsKnown ==
    ASSUME Known, NEW s \in DOMAIN sessions, Expire(s)
    PROVE  Known'
  <1>1. UNCHANGED <<cast, users, keys, req, wfs>>
    BY DEF Expire, storeVars
  <1>2. SessionsKept
    BY ExpireKeepsSessions DEF Known, TablesWell
  <1>3. TablesWell'
    BY <1>1, <1>2 DEF Known, TablesWell, UsersOK, KeysOK, WfsOK, SessionsKept
  <1>4. DOMAIN sessions \subseteq DOMAIN sessions'
    BY <1>2 DEF Known, TablesWell, SessionsKept, SessionsWell, SessionsOK
  <1>5. ASSUME NEW q \in cast PROVE RequestOK(q)'
    BY <1>1, <1>4 DEF Known, RequestOK, Routed, Knows, TurnOK
  <1>6. Shape'
    BY <1>1 DEF Known, Shape, Shaped
  <1> QED
    BY <1>1, <1>3, <1>5, <1>6 DEF Known

LEMMA InitKnown == ASSUME Init PROVE Known
  <1>1. TablesWell
    <2>1. UsersOK /\ KeysOK /\ WfsOK
      BY SeedAssumption DEF Init, UsersOK, KeysOK, WfsOK
    <2>2. SessionsOK /\ PatchesAreEdits
      BY SeedAssumption DEF Init, SessionsOK, PatchesAreEdits
    <2> QED
      BY <2>1, <2>2 DEF TablesWell, SessionsWell
  <1>2. \A r \in cast : req[r].pc = "idle" /\ req[r].role = None
    BY DEF Init
  <1>3. Shape
    <2>1. ASSUME NEW r \in cast PROVE Shaped(r)
      <3>1. PICK new : new = [pc |-> "idle", role |-> None, saw |-> None]
        OBVIOUS
      <3>2. new = [f \in Fields |-> new[f]] /\ req[r] = new
        BY <3>1 DEF Init, Fields
      <3> QED
        BY <3>2, Zenon DEF Shaped
    <2>2. req = [r \in cast |-> req[r]]
      BY DEF Init
    <2> QED
      BY <2>1, <2>2 DEF Shape
  <1>4. \A r \in cast : RequestOK(r)
    BY <1>2 DEF RequestOK, Routed, Knows, TurnOK, Early, Turns, Points
  <1> QED
    BY <1>1, <1>3, <1>4 DEF Init, Known

LEMMA StutterKnown == ASSUME Known, UNCHANGED vars PROVE Known'
  <1>1. UNCHANGED <<cast, users, keys, req, wfs, sessions>>
    BY DEF vars, accountVars, storeVars, builderVars
  <1> QED
    BY <1>1 DEF Known, Shape, Shaped, TablesWell, UsersOK, KeysOK, WfsOK, SessionsWell, SessionsOK,
       PatchesAreEdits, RequestOK, Routed, Knows, TurnOK

LEMMA StepKnown == Known /\ [Next]_vars => Known'
  <1> SUFFICES ASSUME Known, [Next]_vars PROVE Known'
    OBVIOUS
  <1>1. CASE UNCHANGED vars
    BY <1>1, StutterKnown
  <1>2. CASE \E r \in cast : RequestStep(r)
    BY <1>2, RequestKeepsKnown
  <1>3. CASE \E i \in Instances : Restart(i)
    BY <1>3, RestartKeepsKnown
  <1>4. CASE \E s \in DOMAIN sessions : Expire(s) /\ UNCHANGED <<keyVars, histVars>>
    BY <1>4, ExpireKeepsKnown
  <1> QED
    BY <1>1, <1>2, <1>3, <1>4 DEF Next

LEMMA AlwaysKnown == Spec => []Known
  <1>1. Init => Known
    BY InitKnown
  <1> QED
    BY <1>1, StepKnown, PTL DEF Spec

-----------------------------------------------------------------------------
(* Revoked keys.                                                           *)

LEMMA RevokedStays ==
    ASSUME KeysOK, KeysKept, NEW q \in cast, q.op = "deactivate", req[q].saw \in 0..Len(keys),
           \A k \in 1..req[q].saw : keys[k].user = q.on => keys[k].revoked,
           req'[q].saw = req[q].saw
    PROVE  \A k \in 1..req'[q].saw : keys'[k].user = q.on => keys'[k].revoked
  <1>1. \A k \in 1..req[q].saw : k \in DOMAIN keys
    BY DEF KeysOK
  <1> QED
    BY <1>1 DEF KeysKept

LEMMA StepRevoked == Known /\ RevokedForGood /\ [Next]_vars => RevokedForGood'
  <1> SUFFICES ASSUME Known, RevokedForGood, [Next]_vars PROVE RevokedForGood'
    OBVIOUS
  <1>0. KeysOK
    BY DEF Known, TablesWell
  <1>1. ASSUME cast' = cast, KeysKept, NEW q \in cast, req'[q] = req[q],
               q.op = "deactivate", req'[q].pc \in {"revoked", "ok"}
        PROVE  \A k \in 1..req'[q].saw : keys'[k].user = q.on => keys'[k].revoked
    <2>1. req[q].saw \in 0..Len(keys)
      BY <1>1 DEF Known, RequestOK, Knows
    <2>2. \A k \in 1..req[q].saw : keys[k].user = q.on => keys[k].revoked
      BY <1>1 DEF RevokedForGood
    <2> QED
      BY <1>0, <1>1, <2>1, <2>2, RevokedStays
  <1>2. ASSUME UNCHANGED <<cast, req, keys>> PROVE RevokedForGood'
    BY <1>2 DEF RevokedForGood
  <1>3. ASSUME NEW r, RequestStep(r) PROVE RevokedForGood'
    <2>1. r \in cast /\ Goes(r) /\ TablesKept /\ Knows(r)
      BY <1>3, Stepping DEF RequestOK
    <2>2. cast' = cast /\ KeysKept /\ Shape
      BY <2>1 DEF Goes, Only, TablesKept, Known
    <2>3. ASSUME r.op = "deactivate", req'[r].pc \in {"revoked", "ok"}
          PROVE  \A k \in 1..req'[r].saw : keys'[k].user = r.on => keys'[k].revoked
      <3>1. ~FindTarget(r)
        <4>1. ASSUME FindTarget(r) PROVE FALSE
          <5>1. PICK pc \in {"found", "refused"} : \E row : GotoSeeing(r, pc, row)
            BY <4>1 DEF FindTarget
          <5> QED
            BY <2>1, <2>2, <2>3, <5>1, GotoSeeingIs
        <4> QED
          BY <4>1
      <3>2. CASE DeactivateKeys(r)
        <4>1. req'[r].saw = req[r].saw
          BY <2>1, <2>2, <3>2, GotoIs DEF DeactivateKeys
        <4>2. req[r].saw \in 0..Len(keys)
          BY <2>1, <3>2 DEF DeactivateKeys, Knows, At
        <4>3. ASSUME NEW k \in DOMAIN keys PROVE keys'[k].user = r.on => keys'[k].revoked
          <5>1. PICK old : old = keys[k]
            OBVIOUS
          <5>2. PICK new : new = [old EXCEPT !.revoked = TRUE]
            OBVIOUS
          <5>3. old \in KeyRow
            BY <1>0, <5>1 DEF KeysOK
          <5>4. new.user = old.user /\ new.revoked
            BY <5>2, <5>3 DEF KeyRow
          <5>5. keys'[k] = IF old.user = r.on THEN new ELSE old
            BY <3>2, <5>1, <5>2 DEF DeactivateKeys
          <5> QED
            BY <5>4, <5>5
        <4>4. \A k \in 1..req[r].saw : k \in DOMAIN keys
          BY <1>0, <4>2 DEF KeysOK
        <4> QED
          BY <4>1, <4>3, <4>4
      <3>3. CASE Deactivate(r)
        <4>1. req[r].pc = "revoked" /\ \E pc : Goto(r, pc)
          BY <3>3 DEF Deactivate, AdminUpdate, At
        <4>2. req'[r].saw = req[r].saw
          BY <2>1, <2>2, <4>1, GotoIs
        <4>3. req[r].saw \in 0..Len(keys)
          BY <2>1, <2>3, <4>1 DEF Knows
        <4>4. \A k \in 1..req[r].saw : keys[k].user = r.on => keys[k].revoked
          BY <2>1, <2>3, <4>1 DEF RevokedForGood
        <4> QED
          BY <1>0, <2>1, <2>2, <2>3, <4>2, <4>3, <4>4, RevokedStays
      <3> QED
        BY <2>1, <2>3, <3>1, <3>2, <3>3 DEF Goes, Comes
    <2>4. \A q \in cast : q # r => req'[q] = req[q]
      BY <2>1 DEF Goes, Only
    <2> QED
      BY <1>1, <2>2, <2>3, <2>4 DEF RevokedForGood
  <1>4. ASSUME NEW i, Restart(i) PROVE RevokedForGood'
    <2>1. cast' = cast /\ keys' = keys
      BY <1>4 DEF Restart, Boot
    <2>2. \A q \in cast : req'[q] = req[q] \/ req'[q].pc = "dead"
      BY <1>4, BootIs DEF Known, Restart
    <2> QED
      BY <2>1, <2>2 DEF RevokedForGood
  <1>5. ASSUME NEW s, Expire(s) PROVE RevokedForGood'
    BY <1>2, <1>5 DEF Expire
  <1>6. ASSUME UNCHANGED vars PROVE RevokedForGood'
    BY <1>2, <1>6 DEF vars, accountVars
  <1> QED
    BY <1>3, <1>4, <1>5, <1>6 DEF Next

\* A deactivation kills, for good, every key that its user had when the handler
\* looked the user up: keys are only appended and revoked, whatever runs beside
\* it, and reactivating the account revives none (deactivate_user).
THEOREM RevokedKeysStayDead == Spec => []RevokedForGood
  <1>1. Init => RevokedForGood
    BY DEF Init, RevokedForGood
  <1> QED
    BY <1>1, AlwaysKnown, StepRevoked, PTL DEF Spec

-----------------------------------------------------------------------------
(* Entitlement.                                                            *)

HadOK == had = [q \in cast |-> had[q]]

LEMMA Recorded ==
    ASSUME HadOK, NEW r \in cast, Record(r), cast' = cast
    PROVE  HadOK' /\ had'[r] = had[r] \cup Rights(r) /\ \A q \in cast : q # r => had'[q] = had[q]
  <1>1. had' = [had EXCEPT ![r] = @ \cup Rights(r)]
    BY DEF Record
  <1> QED
    BY <1>1 DEF HadOK

LEMMA RightsAre ==
    ASSUME NEW r
    PROVE  LET u == Caller(r) IN
           /\ Present(u) /\ users[u].active => "active" \in Rights(r)
           /\ Present(u) /\ ~users[u].mustChange => "settled" \in Rights(r)
           /\ Present(u) /\ users[u].role = "admin" => "admin" \in Rights(r)
           /\ \A w \in Reached(r) : wfs[w].owner = u => "owner" \in Rights(r)
           /\ \A w \in Reached(r) : HasAssignment(w, u) => "assignee" \in Rights(r)
           /\ \A w \in Reached(r) : wfs[w].public => "public" \in Rights(r)
           /\ r.key \in DOMAIN keys /\ ~keys[r.key].revoked => "live key" \in Rights(r)
  BY DEF Rights

LEMMA CallerIs ==
    ASSUME NEW r
    PROVE  /\ r.op # "run_external" => Caller(r) = r.by
           /\ r.op = "run_external" /\ r.key \in DOMAIN keys => Caller(r) = keys[r.key].user
           /\ r.op # "run_external" /\ Stored(r.wf) => r.wf \in Reached(r)
  BY DEF Caller, Reached

\* An assignment is of a workflow that is there.
ForeignKeys == \A a \in assigned : Stored(a.wf)

\* What a request has been entitled to by each point.
Owns == {"admin", "owner"}
Entitled(r) ==
    /\ req[r].pc \notin Early =>
          /\ r.op \in Signed \cup {"refresh"} => {"active", "settled"} \subseteq had[r]
          /\ r.op \in {"change_password", "reset_password"} => "active" \in had[r]
          /\ r.op = "run_external" => "live key" \in had[r] /\ (req[r].pc # "key" => "active" \in had[r])
          /\ r.op \in AdminOps /\ req[r].pc # "auth" => req[r].role = "admin"
    /\ req[r].role = "admin" => "admin" \in had[r]
    /\ req[r].pc \in Late =>
          /\ r.op \in {"delete", "grant", "revoke"} => had[r] \cap Owns # {}
          /\ r.op \in {"update", "build"} => had[r] \cap (Owns \cup {"assignee"}) # {}
          /\ r.op = "get" => had[r] \cap (Owns \cup {"assignee", "public"}) # {}
          /\ r.op \in {"run", "run_external"} => had[r] \cap (Owns \cup {"public"}) # {}
EntitledInv == \A r \in cast : Entitled(r)

LEMMA EntitledIsServed == EntitledInv => ServedWhenEntitled
  <1> SUFFICES ASSUME EntitledInv, NEW r \in cast, req[r].pc = "ok"
               PROVE  /\ r.op \in JwtOps \cup RoleOps \cup AdminOps \cup {"refresh"} =>
                            {"active", "settled"} \subseteq had[r]
                      /\ r.op \in {"change_password", "reset_password"} => "active" \in had[r]
                      /\ r.op \in AdminOps => "admin" \in had[r]
                      /\ r.op \in {"delete", "grant", "revoke"} => had[r] \cap {"admin", "owner"} # {}
                      /\ r.op \in {"update", "build"} => had[r] \cap {"admin", "owner", "assignee"} # {}
                      /\ r.op = "get" => had[r] \cap {"admin", "owner", "assignee", "public"} # {}
                      /\ r.op = "run" => had[r] \cap {"admin", "owner", "public"} # {}
                      /\ r.op = "run_external" => /\ {"active", "live key"} \subseteq had[r]
                                                  /\ had[r] \cap {"admin", "owner", "public"} # {}
    BY DEF ServedWhenEntitled
  <1>1. Entitled(r)
    BY DEF EntitledInv
  <1>2. /\ Owns \cup {"assignee"} = {"admin", "owner", "assignee"}
        /\ Owns \cup {"assignee", "public"} = {"admin", "owner", "assignee", "public"}
        /\ Owns \cup {"public"} = {"admin", "owner", "public"}
    BY DEF Owns
  <1>3. req[r].pc \notin Early /\ req[r].pc \in Late
    BY DEF Early, Late
  <1>4. Signed = JwtOps \cup RoleOps \cup AdminOps
    BY DEF Signed
  <1>5. r.op \in JwtOps \cup RoleOps \cup AdminOps \cup {"refresh"} => {"active", "settled"} \subseteq had[r]
    BY <1>1, <1>3, <1>4 DEF Entitled
  <1>6. /\ r.op \in {"change_password", "reset_password"} => "active" \in had[r]
        /\ r.op \in AdminOps => "admin" \in had[r]
    BY <1>1, <1>3 DEF Entitled
  <1>7. /\ r.op \in {"delete", "grant", "revoke"} => had[r] \cap {"admin", "owner"} # {}
        /\ r.op \in {"update", "build"} => had[r] \cap {"admin", "owner", "assignee"} # {}
    BY <1>1, <1>2, <1>3 DEF Entitled, Owns
  <1>8. /\ r.op = "get" => had[r] \cap {"admin", "owner", "assignee", "public"} # {}
        /\ r.op = "run" => had[r] \cap {"admin", "owner", "public"} # {}
    BY <1>1, <1>2, <1>3 DEF Entitled
  <1>9. r.op = "run_external" => /\ {"active", "live key"} \subseteq had[r]
                                 /\ had[r] \cap {"admin", "owner", "public"} # {}
    BY <1>1, <1>2, <1>3 DEF Entitled
  <1> QED
    BY <1>5, <1>6, <1>7, <1>8, <1>9

\* Rights are only added.
LEMMA GoingOnKeepsEntitled ==
    ASSUME NEW r \in cast, Entitled(r), GoesOn(r), had[r] \subseteq had'[r], r.op \in Ops
    PROVE  Entitled(r)'
  <1> USE DEF Early, Shielded
  <1>1. req'[r].role = "admin" => "admin" \in had'[r]
    BY DEF GoesOn, Entitled
  <1>2. CASE req'[r].pc \in Early
    BY <1>1, <1>2 DEF Entitled, Late, Turns
  <1>3. CASE r.op \in {"register", "sso", "login", "forgot_password"}
    BY <1>1, <1>3 DEF Entitled, Signed, JwtOps, RoleOps, AdminOps, UserAdminOps, OtherAdminOps
  <1>4. CASE /\ req[r].pc \notin Early \cup {"key"}
             /\ req[r].pc = "auth" => r.op \notin AdminOps
             /\ req'[r].pc \in Late /\ r.op \in Shielded => req[r].pc \in Late
    <2>1. req'[r].role = req[r].role
      BY DEF GoesOn
    <2>2. /\ r.op \in Signed \cup {"refresh"} => {"active", "settled"} \subseteq had'[r]
          /\ r.op \in {"change_password", "reset_password"} => "active" \in had'[r]
          /\ r.op = "run_external" => "live key" \in had'[r] /\ "active" \in had'[r]
      BY <1>4 DEF Entitled
    <2>3. r.op \in AdminOps => req'[r].role = "admin"
      BY <1>4, <2>1 DEF Entitled
    <2>4. req'[r].pc \in Late =>
            /\ r.op \in {"delete", "grant", "revoke"} => had'[r] \cap Owns # {}
            /\ r.op \in {"update", "build"} => had'[r] \cap (Owns \cup {"assignee"}) # {}
            /\ r.op = "get" => had'[r] \cap (Owns \cup {"assignee", "public"}) # {}
            /\ r.op \in {"run", "run_external"} => had'[r] \cap (Owns \cup {"public"}) # {}
      BY <1>4 DEF Entitled, RoleOps
    <2> QED
      BY <1>1, <2>2, <2>3, <2>4 DEF Entitled
  <1> QED
    BY <1>2, <1>3, <1>4 DEF GoesOn

\* Each step that admits, with what it has just seen.
LEMMA SigningInEntitles ==
    ASSUME Shape, cast' = cast, NEW r \in cast, Routed(r), Knows(r), Routed(r)', Entitled(r),
           had'[r] = had[r] \cup Rights(r),
           Authenticate(r) \/ Refresh(r) \/ ChangeAuthenticate(r) \/ ResetVerify(r)
    PROVE  Entitled(r)'
  <1>0. req[r].pc = "idle" /\ Caller(r) = r.by
    <2>1. r.op # "run_external"
      BY DEF Authenticate, Refresh, ChangeAuthenticate, ResetVerify, JwtOps, RoleOps, AdminOps,
         UserAdminOps, OtherAdminOps
    <2>2. req[r].pc = "idle"
      BY DEF Authenticate, Refresh, ChangeAuthenticate, ResetVerify, At
    <2> QED
      BY <2>1, <2>2, CallerIs
  <1>1. CASE Authenticate(r)
    <2>0. r.op \in JwtOps \cup RoleOps \cup AdminOps
      BY <1>1 DEF Authenticate
    <2>1. CASE MayCall(r.by)
      <3>1. Goto(r, "auth")
        BY <1>1, <2>1 DEF Authenticate
      <3>2. req'[r].pc = "auth" /\ req'[r].role = req[r].role
        BY <3>1, GotoIs
      <3>3. {"active", "settled"} \subseteq had'[r]
        BY <1>0, <2>1, RightsAre DEF MayCall
      <3>4. req'[r].role = "admin" => "admin" \in had'[r]
        BY <3>2 DEF Entitled
      <3> QED
        BY <2>0, <3>2, <3>3, <3>4 DEF Entitled, Late, Turns, JwtOps, RoleOps, AdminOps, UserAdminOps, OtherAdminOps
    <2>2. CASE ~MayCall(r.by)
      <3>1. Goto(r, "refused")
        BY <1>1, <2>2 DEF Authenticate
      <3>2. req'[r].pc = "refused" /\ req'[r].role = req[r].role
        BY <3>1, GotoIs
      <3> QED
        BY <3>2 DEF Entitled, Early, Late, Turns
    <2> QED
      BY <2>1, <2>2
  <1>2. CASE Refresh(r)
    <2>0. r.op = "refresh"
      BY <1>2 DEF Refresh
    <2>1. CASE MayCall(r.by)
      <3>1. GotoSeeing(r, "ok", r.by)
        BY <1>2, <2>1 DEF Refresh
      <3>2. req'[r].pc = "ok" /\ req'[r].role = req[r].role
        BY <3>1, GotoSeeingIs
      <3>3. {"active", "settled"} \subseteq had'[r]
        BY <1>0, <2>1, RightsAre DEF MayCall
      <3>4. req'[r].role = "admin" => "admin" \in had'[r]
        BY <3>2 DEF Entitled
      <3> QED
        BY <2>0, <3>2, <3>3, <3>4 DEF Entitled, Signed, JwtOps, RoleOps, AdminOps, UserAdminOps, OtherAdminOps
    <2>2. CASE ~MayCall(r.by)
      <3>1. Goto(r, "refused")
        BY <1>2, <2>2 DEF Refresh
      <3>2. req'[r].pc = "refused" /\ req'[r].role = req[r].role
        BY <3>1, GotoIs
      <3> QED
        BY <3>2 DEF Entitled, Early, Late, Turns
    <2> QED
      BY <2>1, <2>2
  <1>3. CASE ChangeAuthenticate(r) \/ ResetVerify(r)
    <2>0. r.op \in {"change_password", "reset_password"}
      BY <1>3 DEF ChangeAuthenticate, ResetVerify
    <2>1. CASE MayCallThoughPending(r.by)
      <3>1. PICK pc \in {"auth", "found"} : Goto(r, pc)
        BY <1>3, <2>1 DEF ChangeAuthenticate, ResetVerify
      <3>2. req'[r].pc = pc /\ req'[r].role = req[r].role
        BY <3>1, GotoIs
      <3>3. "active" \in had'[r]
        BY <1>0, <2>1, RightsAre DEF MayCallThoughPending
      <3>4. req'[r].role = "admin" => "admin" \in had'[r]
        BY <3>2 DEF Entitled
      <3> QED
        BY <2>0, <3>1, <3>2, <3>3, <3>4 DEF Entitled, Late, Turns, Signed, JwtOps, RoleOps, AdminOps, UserAdminOps,
           OtherAdminOps
    <2>2. CASE ~MayCallThoughPending(r.by)
      <3>1. Goto(r, "refused")
        BY <1>3, <2>2 DEF ChangeAuthenticate, ResetVerify
      <3>2. req'[r].pc = "refused" /\ req'[r].role = req[r].role
        BY <3>1, GotoIs
      <3> QED
        BY <3>2 DEF Entitled, Early, Late, Turns
    <2> QED
      BY <2>1, <2>2
  <1> QED
    BY <1>1, <1>2, <1>3

LEMMA RoleReadEntitles ==
    ASSUME Shape, cast' = cast, NEW r \in cast, Entitled(r), had'[r] = had[r] \cup Rights(r), ReadRole(r)
    PROVE  Entitled(r)'
  <1>0. r.op \in RoleOps \cup AdminOps /\ req[r].pc = "auth"
    BY DEF ReadRole, At
  <1>1. PICK role : role = IF Present(r.by) THEN users[r.by].role ELSE "member"
    OBVIOUS
  <1>2. PICK pc : pc = IF r.op \in AdminOps /\ role # "admin" THEN "refused" ELSE "role"
    OBVIOUS
  <1>3. req' = [req EXCEPT ![r].role = role, ![r].pc = pc]
    BY <1>1, <1>2, Zenon DEF ReadRole
  <1>4. req'[r].pc = pc /\ req'[r].role = role
    <2>1. Only(r) /\ req'[r].pc = pc /\ req'[r].role = role /\ req'[r].saw = req[r].saw
      BY <1>3, RoleReadIs
    <2> QED
      BY <2>1
  <1>5. Caller(r) = r.by
    BY <1>0, CallerIs DEF RoleOps, AdminOps, UserAdminOps, OtherAdminOps
  <1>6. role = "admin" => "admin" \in had'[r]
    BY <1>1, <1>5, RightsAre
  <1>7. {"active", "settled"} \subseteq had'[r]
    BY <1>0 DEF Entitled, Signed, Early
  <1>8. pc \in {"refused", "role"} /\ (pc = "role" /\ r.op \in AdminOps => role = "admin")
    BY <1>2
  <1> QED
    BY <1>0, <1>4, <1>6, <1>7, <1>8 DEF Entitled, Early, Late, Turns, RoleOps, AdminOps, UserAdminOps, OtherAdminOps

LEMMA KeyEntitles ==
    ASSUME Shape, cast' = cast, NEW r \in cast, Routed(r), Knows(r), Entitled(r),
           had'[r] = had[r] \cup Rights(r), FindKey(r) \/ FindKeyOwner(r)
    PROVE  Entitled(r)'
  <1>1. r.op = "run_external"
    BY DEF FindKey, FindKeyOwner, At, Routed
  <1>2. "run_external" \notin Signed \cup AdminOps
    BY DEF Signed, JwtOps, RoleOps, AdminOps, UserAdminOps, OtherAdminOps
  <1>3. CASE FindKey(r)
    <2>1. CASE Goto(r, "refused")
      <3>1. Goto(r, "refused")
        BY <2>1
      <3>2. req'[r].pc = "refused" /\ req'[r].role = req[r].role
        BY <3>1, GotoIs
      <3> QED
        BY <3>2 DEF Entitled, Early, Late, Turns
    <2>2. CASE ~Goto(r, "refused")
      <3>0. ~keys[r.key].revoked
        BY <1>3, <2>2 DEF FindKey
      <3>1. Goto(r, "key") /\ r.key \in DOMAIN keys
        BY <1>3, <2>2 DEF FindKey
      <3>2. req'[r].pc = "key" /\ req'[r].role = req[r].role
        BY <3>1, GotoIs
      <3>3. "live key" \in had'[r]
        BY <3>0, <3>1, RightsAre
      <3> QED
        BY <1>1, <1>2, <3>2, <3>3 DEF Entitled, Late, Turns
    <2> QED
      BY <2>1, <2>2
  <1>4. CASE FindKeyOwner(r)
    <2>0. req[r].pc = "key" /\ r.key \in DOMAIN keys
      BY <1>1, <1>4 DEF FindKeyOwner, At, Knows, Early
    <2>1. PICK u : u = keys[r.key].user
      OBVIOUS
    <2>2. Caller(r) = u
      BY <1>1, <2>0, <2>1, CallerIs
    <2>3. PICK role : role = IF Present(u) THEN users[u].role ELSE "member"
      OBVIOUS
    <2>4. PICK pc : pc = IF OwnerMayCall(u) THEN "role" ELSE "refused"
      OBVIOUS
    <2>5. req' = [req EXCEPT ![r].pc = pc, ![r].role = role]
      BY <1>4, <2>1, <2>3, <2>4, Zenon DEF FindKeyOwner
    <2>6. req'[r].pc = pc /\ req'[r].role = role
      <3>1. Only(r) /\ req'[r].pc = pc /\ req'[r].role = role /\ req'[r].saw = req[r].saw
        BY <2>5, OwnerReadIs
      <3> QED
        BY <3>1
    <2>7. role = "admin" => "admin" \in had'[r]
      BY <2>2, <2>3, RightsAre
    <2>8. pc = "role" => "active" \in had'[r]
      BY <2>2, <2>4, RightsAre DEF OwnerMayCall
    <2>9. "live key" \in had'[r]
      BY <1>1, <2>0 DEF Entitled, Early
    <2>10. pc \in {"role", "refused"}
      BY <2>4
    <2> QED
      BY <1>1, <1>2, <2>6, <2>7, <2>8, <2>9, <2>10 DEF Entitled, Early, Late, Turns
  <1> QED
    BY <1>3, <1>4

\* What a request is entitled to while it stays under way with its role.
LEMMA StillEntitled ==
    ASSUME NEW r \in cast, Entitled(r), req[r].pc \notin Early \cup {"auth", "key"},
           had[r] \subseteq had'[r], req'[r].role = req[r].role
    PROVE  /\ req'[r].role = "admin" => "admin" \in had'[r]
           /\ r.op \in Signed \cup {"refresh"} => {"active", "settled"} \subseteq had'[r]
           /\ r.op \in {"change_password", "reset_password"} => "active" \in had'[r]
           /\ r.op = "run_external" => {"active", "live key"} \subseteq had'[r]
           /\ r.op \in AdminOps => req'[r].role = "admin"
  BY DEF Entitled

LEMMA WorkflowEntitles ==
    ASSUME Shape, cast' = cast, ForeignKeys, NEW r \in cast, Routed(r), Knows(r), Entitled(r),
           had'[r] = had[r] \cup Rights(r), ReadWorkflow(r) \/ ReadAssignment(r) \/ FindSlug(r)
    PROVE  Entitled(r)'
  <1>1. req[r].pc \notin Early \cup {"auth", "key"}
    BY DEF ReadWorkflow, ReadAssignment, FindSlug, At, Early
  <1>2. \A pc : Goto(r, pc) => req'[r].pc = pc /\ req'[r].role = req[r].role
    BY GotoIs
  <1>3. \A pc, row : GotoSeeing(r, pc, row) => req'[r].pc = pc /\ req'[r].role = req[r].role
    BY GotoSeeingIs
  <1>4. CASE req'[r].role = req[r].role /\ req'[r].pc \notin Late
    BY <1>1, <1>4, StillEntitled DEF Entitled
  <1>5. Admin(r) => "admin" \in had'[r]
    BY DEF Admin, Entitled
  <1>6. CASE ReadWorkflow(r)
    <2>0. r.op # "run_external"
      BY <1>6 DEF ReadWorkflow, RoleOps
    <2>1. CASE ~Stored(r.wf)
      <3>1. Goto(r, "refused")
        BY <1>6, <2>1 DEF ReadWorkflow
      <3> QED
        BY <1>2, <1>4, <3>1 DEF Late, Turns
    <2>2. CASE Stored(r.wf) /\ RowAdmits(r, wfs[r.wf])
      <3>1. Caller(r) = r.by /\ r.wf \in Reached(r)
        BY <2>0, <2>2, CallerIs
      <3>2. \/ "admin" \in had'[r] \/ "owner" \in had'[r]
            \/ r.op \in {"get", "run"} /\ "public" \in had'[r]
        BY <1>5, <2>2, <3>1, RightsAre DEF RowAdmits
      <3>3. Answer(r, wfs[r.wf]) \/ \E pc : GotoSeeing(r, pc, wfs[r.wf])
        BY <1>6, <2>2 DEF ReadWorkflow
      <3>4. req'[r].role = req[r].role
        BY <1>3, <3>3 DEF Answer
      <3>5. /\ r.op \in {"delete", "grant", "revoke"} => had'[r] \cap Owns # {}
            /\ r.op \in {"update", "build"} => had'[r] \cap (Owns \cup {"assignee"}) # {}
            /\ r.op = "get" => had'[r] \cap (Owns \cup {"assignee", "public"}) # {}
            /\ r.op \in {"run", "run_external"} => had'[r] \cap (Owns \cup {"public"}) # {}
        BY <2>0, <3>2 DEF Owns
      <3> QED
        BY <1>1, <3>4, <3>5, StillEntitled DEF Entitled
    <2>3. CASE Stored(r.wf) /\ ~RowAdmits(r, wfs[r.wf])
      <3>1. PICK pc : pc = CASE RowAdmits(r, wfs[r.wf]) -> "may"
                             [] r.op \in {"get", "update", "build"} /\ ~RowAdmits(r, wfs[r.wf]) -> "assignee"
                             [] OTHER -> "refused"
        OBVIOUS
      <3>2. GotoSeeing(r, pc, wfs[r.wf])
        BY <1>6, <2>3, <3>1, Zenon DEF ReadWorkflow
      <3>3. pc \in {"assignee", "refused"}
        BY <2>3, <3>1
      <3> QED
        BY <1>3, <1>4, <3>2, <3>3 DEF Late, Turns
    <2> QED
      BY <2>1, <2>2, <2>3
  <1>7. CASE ReadAssignment(r)
    <2>0. r.op \in {"get", "update", "build"}
      BY <1>7 DEF ReadAssignment, At, Routed
    <2>1. CASE ~HasAssignment(r.wf, r.by)
      <3>1. Goto(r, "refused")
        BY <1>7, <2>1 DEF ReadAssignment
      <3> QED
        BY <1>2, <1>4, <3>1 DEF Late, Turns
    <2>2. CASE HasAssignment(r.wf, r.by)
      <3>1. Stored(r.wf)
        BY <2>2 DEF HasAssignment, ForeignKeys
      <3>2. Caller(r) = r.by /\ r.wf \in Reached(r)
        BY <2>0, <3>1, CallerIs
      <3>3. "assignee" \in had'[r]
        BY <2>2, <3>2, RightsAre
      <3>4. Answer(r, req[r].saw) \/ Goto(r, "may")
        BY <1>7, <2>2 DEF ReadAssignment
      <3>5. req'[r].role = req[r].role
        BY <1>2, <1>3, <3>4 DEF Answer
      <3>6. /\ r.op \notin {"delete", "grant", "revoke", "run", "run_external"}
            /\ had'[r] \cap (Owns \cup {"assignee"}) # {}
            /\ had'[r] \cap (Owns \cup {"assignee", "public"}) # {}
        BY <2>0, <3>3
      <3> QED
        BY <1>1, <3>5, <3>6, StillEntitled DEF Entitled
    <2> QED
      BY <2>1, <2>2
  <1>8. CASE FindSlug(r)
    <2>0. r.op = "run_external"
      BY <1>8 DEF FindSlug
    <2>1. CASE Goto(r, "refused")
      BY <1>2, <1>4, <2>1 DEF Late, Turns
    <2>2. CASE ~Goto(r, "refused")
      <3>1. PICK w \in DOMAIN wfs :
              /\ Stored(w) /\ wfs[w].slug = r.slug /\ wfs[w].production
              /\ wfs[w].public \/ Admin(r) \/ wfs[w].owner = keys[r.key].user
              /\ GotoSeeing(r, "may", w)
        BY <1>8, <2>2 DEF FindSlug
      <3>2. w \in Reached(r)
        BY <2>0, <3>1 DEF Reached
      <3>3. Caller(r) = keys[r.key].user
        BY <1>1, <2>0, CallerIs DEF Knows
      <3>4. "public" \in had'[r] \/ "admin" \in had'[r] \/ "owner" \in had'[r]
        BY <1>5, <3>1, <3>2, <3>3, RightsAre
      <3>5. req'[r].role = req[r].role
        BY <1>3, <3>1
      <3>6. had'[r] \cap (Owns \cup {"public"}) # {}
        BY <3>4 DEF Owns
      <3> QED
        BY <1>1, <2>0, <3>5, <3>6, StillEntitled DEF Entitled
    <2> QED
      BY <2>1, <2>2
  <1> QED
    BY <1>6, <1>7, <1>8

LEMMA RequestEntitled ==
    ASSUME Known, HadOK, ForeignKeys, EntitledInv, NEW r, RequestStep(r)
    PROVE  HadOK' /\ EntitledInv'
  <1>1. r \in cast /\ Goes(r) /\ RequestOK(r) /\ Shape /\ Record(r) /\ r.op \in Ops
    BY Stepping DEF Known, RequestStep, WellFormed, Request
  <1>2. Only(r) /\ Routed(r)' /\ cast' = cast /\ Routed(r) /\ Knows(r) /\ Entitled(r)
    BY <1>1 DEF Goes, Only, RequestOK, EntitledInv
  <1>3. /\ HadOK' /\ had'[r] = had[r] \cup Rights(r)
        /\ \A q \in cast : q # r => had'[q] = had[q]
    BY <1>1, <1>2, Recorded
  <1>4. Entitled(r)'
    <2>1. CASE GoesOn(r)
      BY <1>1, <1>2, <1>3, <2>1, GoingOnKeepsEntitled
    <2>2. CASE Authenticate(r) \/ Refresh(r) \/ ChangeAuthenticate(r) \/ ResetVerify(r)
      BY <1>1, <1>2, <1>3, <2>2, SigningInEntitles
    <2>3. CASE ReadRole(r)
      BY <1>1, <1>2, <1>3, <2>3, RoleReadEntitles
    <2>4. CASE FindKey(r) \/ FindKeyOwner(r)
      BY <1>1, <1>2, <1>3, <2>4, KeyEntitles
    <2>5. CASE ReadWorkflow(r) \/ ReadAssignment(r) \/ FindSlug(r)
      BY <1>1, <1>2, <1>3, <2>5, WorkflowEntitles
    <2> QED
      BY <1>1, <2>1, <2>2, <2>3, <2>4, <2>5 DEF Goes, Admits
  <1>5. ASSUME NEW q \in cast, q # r PROVE Entitled(q)'
    BY <1>2, <1>3, <1>5 DEF EntitledInv, Entitled, Only
  <1> QED
    BY <1>2, <1>3, <1>4, <1>5 DEF EntitledInv

LEMMA RequestForeignKeys ==
    ASSUME Known, ForeignKeys, NEW r, RequestStep(r)
    PROVE  ForeignKeys'
  <1>1. r \in cast /\ RequestOK(r) /\ WellFormed(r) /\ WfsOK /\ UsersOK
    BY Stepping DEF Known, TablesWell
  <1>2. CASE Delete(r)
    <2>1. assigned' = {a \in assigned : a.wf # r.wf} /\ \E row : wfs' = [wfs EXCEPT ![r.wf] = row]
      BY <1>2 DEF Delete, Changed
    <2> QED
      BY <2>1 DEF ForeignKeys, Stored
  <1>3. CASE DeleteAccountWorkflows(r)
    <2>1. assigned' = {a \in assigned : wfs[a.wf].owner # r.by}
      BY <1>3 DEF DeleteAccountWorkflows
    <2>2. ASSUME NEW a \in assigned' PROVE Stored(a.wf)'
      <3>1. Stored(a.wf) /\ wfs[a.wf].owner # r.by
        BY <2>1, <2>2 DEF ForeignKeys
      <3>2. a.wf \in DOMAIN wfs' /\ wfs'[a.wf] = wfs[a.wf]
        BY <1>3, <3>1 DEF DeleteAccountWorkflows, Stored
      <3> QED
        BY <3>1, <3>2 DEF Stored
    <2> QED
      BY <2>2 DEF ForeignKeys
  <1>4. CASE Grant(r)
    <2>1. UNCHANGED wfs
      BY <1>4 DEF Grant
    <2>2. UNCHANGED assigned
          \/ (Stored(r.wf) /\ assigned' = assigned \cup {[wf |-> r.wf, user |-> r.on, by |-> r.by]})
      BY <1>4 DEF Grant
    <2> QED
      BY <2>1, <2>2 DEF ForeignKeys, Stored
  <1>5. CASE ~Delete(r) /\ ~DeleteAccountWorkflows(r) /\ ~Grant(r)
    <2>1. assigned' \subseteq assigned
      <3>1. CASE StoreStep(r)
        BY <1>5, <3>1 DEF StoreStep, FindReceiver, ReadWorkflow, ReadAssignment, FindSlug, CreateWorkflow, Update,
           UpdateFlags, AssignOwner, Revoke, Start, DeleteAccountRead, DeleteAccountAssignments,
           DeleteAccountUser, storeVars
      <3>2. CASE BuilderStep(r)
        BY <3>2 DEF BuilderStep, FindSession, OpenSession, ModelRefused, TurnStart, Diagnosed, Planned, Built,
           ModelRaises, TooLarge, Persist, storeVars
      <3> QED
        BY <3>1, <3>2 DEF RequestStep, storeVars
    <2>2. ASSUME NEW w, Stored(w) PROVE Stored(w)'
      <3>1. CASE UNCHANGED wfs
        BY <2>2, <3>1 DEF Stored
      <3>2. CASE Creates(r)
        BY <1>1, <2>2, <3>2 DEF Creates, Stored, WfsOK
      <3>3. ASSUME NEW row, Rewrites(r, row), KeepsSlug(r, row) PROVE Stored(w)'
        <4>0. ~row.gone
          BY <1>5, <3>3 DEF KeepsSlug
        <4>1. w \in DOMAIN wfs' /\ (w = r.wf => wfs'[w] = row) /\ (w # r.wf => wfs'[w] = wfs[w])
          BY <1>1, <2>2, <3>3 DEF Rewrites, Stored, WfsOK
        <4> QED
          BY <2>2, <4>0, <4>1 DEF Stored
      <3>4. ~Empties(r)
        BY <1>5 DEF Empties
      <3> QED
        BY <1>1, <3>1, <3>2, <3>3, <3>4, RequestWrites DEF RewritesWell, RequestOK
    <2> QED
      BY <2>1, <2>2 DEF ForeignKeys
  <1> QED
    BY <1>2, <1>3, <1>4, <1>5

EntitledI == HadOK /\ ForeignKeys /\ EntitledInv

LEMMA InitEntitled == Init => EntitledI
  <1> SUFFICES ASSUME Init PROVE EntitledI
    OBVIOUS
  <1>1. HadOK
    BY DEF Init, HadOK
  <1>2. ForeignKeys
    BY SeedAssumption DEF Init, ForeignKeys, Stored
  <1>3. \A r \in cast : req[r].pc = "idle" /\ req[r].role = None
    BY DEF Init
  <1>4. EntitledInv
    BY <1>3 DEF EntitledInv, Entitled, Early, Late, Turns, None
  <1> QED
    BY <1>1, <1>2, <1>4 DEF EntitledI

LEMMA StepEntitled == Known /\ EntitledI /\ [Next]_vars => EntitledI'
  <1> SUFFICES ASSUME Known, EntitledI, [Next]_vars PROVE EntitledI'
    OBVIOUS
  <1>1. ASSUME UNCHANGED <<cast, req, wfs, assigned, had>> PROVE EntitledI'
    BY <1>1 DEF EntitledI, HadOK, ForeignKeys, Stored, EntitledInv, Entitled
  <1>2. ASSUME NEW r, RequestStep(r) PROVE EntitledI'
    BY <1>2, RequestEntitled, RequestForeignKeys DEF EntitledI
  <1>3. ASSUME NEW i, Restart(i) PROVE EntitledI'
    <2>1. cast' = cast /\ UNCHANGED <<wfs, assigned, had>>
      BY <1>3 DEF Restart, Boot, storeVars
    <2>2. HadOK' /\ ForeignKeys'
      BY <2>1 DEF EntitledI, HadOK, ForeignKeys, Stored
    <2>3. ASSUME NEW q \in cast PROVE Entitled(q)'
      <3>1. Entitled(q) /\ had'[q] = had[q]
        BY <2>1 DEF EntitledI, EntitledInv
      <3>2. CASE req'[q] = req[q]
        BY <3>1, <3>2 DEF Entitled
      <3>3. CASE req'[q].pc = "dead" /\ req'[q].role = req[q].role
        BY <3>1, <3>3 DEF Entitled, Early, Late, Turns
      <3> QED
        BY <1>3, <3>2, <3>3, BootIs DEF Restart, Known
    <2> QED
      BY <2>1, <2>2, <2>3 DEF EntitledI, EntitledInv
  <1>4. ASSUME NEW s, Expire(s), UNCHANGED histVars PROVE EntitledI'
    BY <1>1, <1>4 DEF Expire, storeVars, histVars
  <1>5. ASSUME UNCHANGED vars PROVE EntitledI'
    BY <1>1, <1>5 DEF vars, accountVars, storeVars, histVars
  <1> QED
    BY <1>2, <1>3, <1>4, <1>5 DEF Next

\* A request is served only if its caller had, at steps of that request, every
\* right it needs: an account that is deactivated, demoted, told to change its
\* password, or no longer shares or owns the workflow cuts off all the requests
\* that start afterwards (security/auth.py, api_key_auth.py, workflows.py).
THEOREM ServedOnlyWhenEntitled == Spec => []ServedWhenEntitled
  <1>1. EntitledI => ServedWhenEntitled
    BY EntitledIsServed DEF EntitledI
  <1> QED
    BY <1>1, InitEntitled, AlwaysKnown, StepEntitled, PTL DEF Spec

-----------------------------------------------------------------------------
(* Slugs.                                                                  *)

LEMMA RewriteKeepsSlugs ==
    ASSUME WfsOK, ProductionHasItsSlug, NEW r, NEW row, Rewrites(r, row), KeepsSlug(r, row)
    PROVE  ProductionHasItsSlug'
  <1>1. PICK w : w = r.wf
    OBVIOUS
  <1>2. w \in DOMAIN wfs /\ wfs' = [wfs EXCEPT ![w] = row]
    BY <1>1 DEF Rewrites
  <1>3. /\ DOMAIN wfs' = DOMAIN wfs /\ wfs'[w] = row
        /\ \A v \in DOMAIN wfs : v # w => wfs'[v] = wfs[v]
    BY <1>2 DEF WfsOK
  <1>4. CASE row.gone
    <2>1. \A v \in DOMAIN wfs' : Stored(v)' => Stored(v) /\ wfs'[v] = wfs[v]
      BY <1>3, <1>4 DEF Stored
    <2> QED
      BY <1>3, <2>1 DEF ProductionHasItsSlug
  <1>5. CASE ~row.gone
    <2>1. /\ Stored(w)
          /\ row.slug = wfs[w].slug \/ ~SlugTaken(row.slug, w)
          /\ row.production => row.slug # None \/ (wfs[w].production /\ row.slug = wfs[w].slug)
      BY <1>1, <1>2, <1>5 DEF KeepsSlug, Stored
    <2>2. row.production => row.slug # None
      BY <1>2, <2>1 DEF ProductionHasItsSlug
    <2>3. \A v \in DOMAIN wfs : v # w /\ Stored(v) /\ wfs[v].slug = row.slug => row.slug = None
      <3>1. CASE row.slug = wfs[w].slug
        BY <1>2, <2>1, <3>1 DEF ProductionHasItsSlug
      <3>2. CASE ~SlugTaken(row.slug, w)
        BY <3>2 DEF SlugTaken
      <3> QED
        BY <2>1, <3>1, <3>2
    <2>4. \A v \in DOMAIN wfs' : v # w => (Stored(v)' <=> Stored(v)) /\ wfs'[v] = wfs[v]
      BY <1>3 DEF Stored
    <2>5. ASSUME NEW v \in DOMAIN wfs', Stored(v)'
          PROVE  wfs'[v].production => wfs'[v].slug # None
      BY <1>3, <2>2, <2>4, <2>5 DEF ProductionHasItsSlug
    <2>6. ASSUME NEW v \in DOMAIN wfs', Stored(v)', NEW x \in DOMAIN wfs', Stored(x)', x # v,
                 wfs'[x].slug = wfs'[v].slug
          PROVE  wfs'[v].slug = None
      <3>1. CASE v # w /\ x # w
        BY <1>3, <2>4, <2>6, <3>1 DEF ProductionHasItsSlug
      <3>2. CASE v = w \/ x = w
        BY <1>3, <2>3, <2>4, <2>6, <3>2
      <3> QED
        BY <3>1, <3>2
    <2> QED
      BY <2>5, <2>6 DEF ProductionHasItsSlug
  <1> QED
    BY <1>4, <1>5

LEMMA CreateKeepsSlugs ==
    ASSUME WfsOK, ProductionHasItsSlug, NEW r, Creates(r)
    PROVE  ProductionHasItsSlug'
  <1>1. PICK row \in WorkflowRow : wfs' = Append(wfs, row) /\ Unpublished(row)
    BY DEF Creates
  <1>2. ~row.production /\ row.slug = None
    BY <1>1 DEF Unpublished
  <1>3. \A v \in DOMAIN wfs' : (v \in DOMAIN wfs /\ wfs'[v] = wfs[v]) \/ wfs'[v] = row
    BY <1>1 DEF WfsOK
  <1>4. \A v \in DOMAIN wfs' : Stored(v)' => (Stored(v) /\ wfs'[v] = wfs[v]) \/ wfs'[v] = row
    BY <1>3 DEF Stored
  <1> QED
    BY <1>2, <1>4 DEF ProductionHasItsSlug, Stored

LEMMA EmptyKeepsSlugs ==
    ASSUME WfsOK, ProductionHasItsSlug, NEW r, Empties(r)
    PROVE  ProductionHasItsSlug'
  <1>1. DOMAIN wfs' = DOMAIN wfs /\ \A w \in DOMAIN wfs : wfs'[w] = wfs[w] \/ wfs'[w].gone
    BY EmptiedRows DEF Empties
  <1>2. \A v \in DOMAIN wfs' : Stored(v)' => Stored(v) /\ wfs'[v] = wfs[v]
    BY <1>1 DEF Stored
  <1> QED
    BY <1>1, <1>2 DEF ProductionHasItsSlug

LEMMA StepSlugs == Known /\ ProductionHasItsSlug /\ [Next]_vars => ProductionHasItsSlug'
  <1> SUFFICES ASSUME Known, ProductionHasItsSlug, [Next]_vars PROVE ProductionHasItsSlug'
    OBVIOUS
  <1>1. ASSUME UNCHANGED wfs PROVE ProductionHasItsSlug'
    BY <1>1 DEF ProductionHasItsSlug, Stored
  <1>2. ASSUME NEW r, RequestStep(r) PROVE ProductionHasItsSlug'
    <2>1. /\ r \in cast /\ WfsOK /\ UsersOK /\ Routed(r) /\ Knows(r) /\ TurnOK(r) /\ WellFormed(r)
      BY <1>2, Stepping DEF Known, TablesWell, RequestOK
    <2>2. Creates(r) \/ Empties(r) \/ RewritesWell(r)
      BY <1>2, <2>1, RequestWrites
    <2> QED
      BY <1>1, <2>1, <2>2, CreateKeepsSlugs, EmptyKeepsSlugs, RewriteKeepsSlugs DEF RewritesWell
  <1>3. UNCHANGED wfs \/ \E r \in cast : RequestStep(r)
    BY DEF Next, Restart, Expire, vars, storeVars
  <1> QED
    BY <1>1, <1>2, <1>3

\* No two stored workflows share a slug, and what is in production has one:
\* external runs by slug resolve to exactly one workflow, however publishing,
\* unpublishing, the admin flags, transfers and deletions interleave
\* (update_workflow, admin_update_workflow_flags).
THEOREM SlugsResolve == Spec => []ProductionHasItsSlug
  <1>1. Init => ProductionHasItsSlug
    <2> SUFFICES ASSUME Init PROVE ProductionHasItsSlug
      OBVIOUS
    <2>1. wfs = SeedWorkflows
      BY DEF Init
    <2> QED
      BY <2>1, SeedAssumption DEF ProductionHasItsSlug, Stored
  <1> QED
    BY <1>1, AlwaysKnown, StepSlugs, PTL DEF Spec

-----------------------------------------------------------------------------
(* Proposals.                                                              *)

LEMMA AtPersist ==
    ASSUME NEW r \in cast, Routed(r), RequestStep(r), req[r].pc = "persist"
    PROVE  TooLarge(r) \/ Persist(r)
  <1>1. ~AccountStep(r)
    BY DEF At, AccountStep, Authenticate, ReadRole, FindKey, FindKeyOwner, FindAccount, CreateAccount,
       Login, Refresh, ChangeAuthenticate, ChangeVerify, ForgotPassword, ResetVerify, ChangePassword,
       ResetPassword, StorePassword, CreateKey, RevokeOwnKey, RevokeUsersKey, RevokeWrite, FindTarget,
       DeactivateKeys, ChangeRole, Deactivate, Reactivate, AdminResetPassword, AdminUpdate
  <1>2. ~StoreStep(r)
    BY DEF At, StoreStep, FindReceiver, ReadWorkflow, ReadAssignment, FindSlug, CreateWorkflow, Update,
       UpdateFlags, AssignOwner, Delete, Grant, Revoke, Start, DeleteAccountRead, DeleteAccountWorkflows,
       DeleteAccountAssignments, DeleteAccountUser
  <1>3. ~KeyStep(r)
    BY DEF At, KeyStep, FindLlmKey, StoreLlmKey, DeleteLlmKey, ApplySetting
  <1>4. BuilderStep(r) => TooLarge(r) \/ Persist(r)
    BY DEF At, BuilderStep, FindSession, OpenSession, ModelRefused, TurnStart, Diagnosed, Planned, Built,
       ModelRaises
  <1> QED
    BY <1>1, <1>2, <1>3, <1>4 DEF RequestStep

\* What is stored is never in clear, and a stored secret that comes back through
\* its own canvas is the same secret.
LEMMA StoredForms ==
    ASSUME NEW s \in StoredSecret
    PROVE  s.form # "plain" /\ (s.form = "none" => s = NoSecret) /\ (s.form = "marker" => s = Marker)
  BY DEF StoredSecret, NoSecret, Marker, Enc

LEMMA CanvasComesBack ==
    ASSUME NEW row \in WorkflowRow
    PROVE  Encrypt(CanvasOf(row), TRUE, row) = row.secret
  <1>1. PICK canvas : canvas = CanvasOf(row)
    OBVIOUS
  <1>2. canvas.secret = row.secret /\ canvas.node = row.node
    BY <1>1 DEF CanvasOf
  <1>3. row.secret.form # "plain" /\ (row.secret.form = "marker" => row.secret # NoSecret)
    BY StoredForms DEF WorkflowRow, NoSecret
  <1>4. Encrypt(canvas, TRUE, row) = row.secret
    BY <1>2, <1>3 DEF Encrypt
  <1> QED
    BY <1>1, <1>4

LEMMA RowComesBack ==
    ASSUME NEW row \in WorkflowRow
    PROVE  [row EXCEPT !.node = row.node, !.resolves = row.resolves, !.secret = row.secret] = row
  BY DEF WorkflowRow

LEMMA ProposalStored ==
    ASSUME WfsOK, NEW r \in cast, TurnOK(r), Persist(r), req[r].saw.proposal, req[r].saw.row = wfs[r.wf]
    PROVE  wfs' = wfs
  <1>1. req[r].pc = "persist" /\ req[r].pc \in Turns
    BY DEF Persist, At, Turns
  <1>2. PICK row : row = wfs[r.wf]
    OBVIOUS
  <1>3. req[r].saw.row = row /\ req[r].saw.result = CanvasOf(row) /\ row \in WorkflowRow
    BY <1>1, <1>2 DEF TurnOK, Turn
  <1>4. PICK canvas : canvas = CanvasOf(row)
    OBVIOUS
  <1>5. canvas.node = row.node /\ canvas.resolves = row.resolves
    BY <1>4 DEF CanvasOf
  <1>6. PICK secret : secret = Encrypt(canvas, TRUE, row)
    OBVIOUS
  <1>7. secret = row.secret
    BY <1>3, <1>4, <1>6, CanvasComesBack
  <1>8. PICK new : new = [row EXCEPT !.node = canvas.node, !.resolves = canvas.resolves, !.secret = secret]
    OBVIOUS
  <1>9. new = row
    <2>1. new = [row EXCEPT !.node = row.node, !.resolves = row.resolves, !.secret = row.secret]
      BY <1>5, <1>7, <1>8
    <2>2. row \in WorkflowRow
      BY <1>3
    <2> QED
      BY <2>1, <2>2, RowComesBack
  <1>10. UNCHANGED wfs \/ (Stored(r.wf) /\ wfs' = [wfs EXCEPT ![r.wf] = new])
    BY <1>2, <1>3, <1>4, <1>6, <1>8, Zenon DEF Persist, Changed
  <1>11. ASSUME Stored(r.wf) PROVE [wfs EXCEPT ![r.wf] = row] = wfs
    BY <1>2, <1>11 DEF Stored, WfsOK
  <1> QED
    BY <1>9, <1>10, <1>11

LEMMA StepProposals ==
    ASSUME Known, [Next]_vars, NEW r \in cast, At(r, "persist"), req[r].saw.proposal,
           req[r].saw.row = wfs[r.wf]
    PROVE  wfs' = wfs \/ UNCHANGED req[r]
  <1>1. ASSUME NEW q, RequestStep(q) PROVE wfs' = wfs \/ UNCHANGED req[r]
    <2>1. q \in cast /\ Only(q) /\ WfsOK
      BY <1>1, Stepping DEF Goes, Known, TablesWell
    <2>2. CASE q # r
      BY <2>1, <2>2 DEF Only
    <2>3. CASE q = r
      <3>1. Routed(r) /\ TurnOK(r)
        BY DEF Known, RequestOK
      <3>2. TooLarge(r) \/ Persist(r)
        BY <1>1, <2>3, <3>1, AtPersist DEF At
      <3>3. TooLarge(r) => wfs' = wfs
        BY DEF TooLarge, storeVars
      <3> QED
        BY <2>1, <3>1, <3>2, <3>3, ProposalStored
    <2> QED
      BY <2>2, <2>3
  <1>2. UNCHANGED wfs \/ \E q \in cast : RequestStep(q)
    BY DEF Next, Restart, Expire, vars, storeVars
  <1> QED
    BY <1>1, <1>2

\* A turn that only plans, diagnoses or discards writes back what is there,
\* secrets included, unless something was saved while the model was thinking
\* (run_builder_turn, _persist).
THEOREM ProposingStoresNothing == Spec => ProposalsChangeNothing
  <1>1. Known /\ [Next]_vars
        => [\A r \in cast : At(r, "persist") /\ req[r].saw.proposal /\ req[r].saw.row = wfs[r.wf]
              => wfs' = wfs \/ UNCHANGED req[r]]_vars
    BY StepProposals
  <1> QED
    BY <1>1, AlwaysKnown, PTL DEF Spec, ProposalsChangeNothing

-----------------------------------------------------------------------------
(* Secrets.                                                                *)

GivenOK == given = [w \in 1..MaxWorkflows |-> given[w]]

\* What is stored is what was last given, or a mask has cost it.
Kept(w, secret, last, masked) == secret = last \/ (w \in masked /\ secret.form # "enc")

\* What a client's payload gives, and what is stored for it.
LEMMA PayloadSecret ==
    ASSUME NEW put, put.secret \in SentSecret, NEW prior, NEW hasPrior \in BOOLEAN
    PROVE  /\ put.secret.form \in {"plain", "none", "marker"}
           /\ put.secret.form = "plain" => Encrypt(put, hasPrior, prior) = Enc(put.secret.of)
           /\ put.secret.form = "none" => Encrypt(put, hasPrior, prior) = NoSecret
           /\ put.secret.form = "marker" =>
                /\ put.secret = Marker
                /\ Encrypt(put, hasPrior, prior) = IF Matches(put, hasPrior, prior) THEN prior.secret
                                                   ELSE IF put.header THEN Marker ELSE NoSecret
  <1>1. /\ put.secret.form \in {"plain", "none", "marker"}
        /\ put.secret.form = "none" => put.secret = NoSecret
        /\ put.secret.form = "marker" => put.secret = Marker
    BY DEF SentSecret, NoSecret, Marker, Plain
  <1>2. put.secret.form = "plain" => Encrypt(put, hasPrior, prior) = Enc(put.secret.of)
    BY DEF Encrypt
  <1>3. put.secret.form = "none" => Encrypt(put, hasPrior, prior) = NoSecret
    BY <1>1 DEF Encrypt
  <1>4. put.secret.form = "marker" => Encrypt(put, hasPrior, prior) =
                 IF Matches(put, hasPrior, prior) THEN prior.secret
                 ELSE IF put.header THEN Marker ELSE NoSecret
    BY DEF Encrypt, Matches
  <1> QED
    BY <1>1, <1>2, <1>3, <1>4

LEMMA NothingKept == NoSecret.form # "enc" /\ Marker.form # "enc"
  BY DEF NoSecret, Marker

\* The records of what was given and masked move for the workflow that is
\* written only.
LEMMA GivenMoves ==
    ASSUME GivenOK, NEW r, Record(r), NEW w, w = Saved(r) \/ ~Saves(r)
    PROVE  /\ GivenOK'
           /\ \A v \in 1..MaxWorkflows : v # w =>
                given'[v] = given[v] /\ (v \in unmatched => v \in unmatched')
  <1>1. given' = given \/ \E secret : given' = [given EXCEPT ![w] = secret]
    BY Zenon DEF Record
  <1>2. \A v : v # w /\ v \in unmatched => v \in unmatched'
    BY DEF Record
  <1>3. CASE given' = given
    BY <1>2, <1>3 DEF GivenOK
  <1>4. ASSUME NEW secret, given' = [given EXCEPT ![w] = secret]
        PROVE  GivenOK' /\ \A v \in 1..MaxWorkflows : v # w => given'[v] = given[v]
    BY <1>4 DEF GivenOK
  <1> QED
    BY <1>1, <1>2, <1>3, <1>4

\* The secrets of the rows, row by row.
SecretKept(w) == Stored(w) /\ w \notin stale => Kept(w, wfs[w].secret, given[w], unmatched)

LEMMA SecretsAreRows == SecretsSurviveSaves <=> \A w \in DOMAIN wfs : SecretKept(w)
  BY DEF SecretsSurviveSaves, SecretKept, Kept

\* A row that is not the one written keeps its secret and its record.
LEMMA OtherRowsKeep ==
    ASSUME NEW w \in DOMAIN wfs, SecretKept(w), wfs'[w] = wfs[w], given'[w] = given[w],
           w \in unmatched => w \in unmatched', stale \subseteq stale'
    PROVE  SecretKept(w)'
  BY DEF SecretKept, Stored, Kept

\* What is recorded of a save.
LEMMA SaveRecords ==
    ASSUME GivenOK, NEW r, Record(r), Saves(r), Saved(r) \in 1..MaxWorkflows
    PROVE  /\ Sent(r).form = "plain" => given'[Saved(r)] = Enc(Sent(r).of)
           /\ Sent(r).form = "none" => given'[Saved(r)] = NoSecret
           /\ Sent(r).form \notin {"plain", "none"} =>
                /\ given' = given
                /\ MasksNothing(r) => Saved(r) \in unmatched'
                /\ unmatched \subseteq unmatched'
  <1>1. PICK w : w = Saved(r)
    OBVIOUS
  <1>2. PICK sent : sent = Sent(r)
    OBVIOUS
  <1>3. ASSUME sent.form = "plain" PROVE given'[w] = Enc(sent.of)
    <2>1. given' = [given EXCEPT ![w] = Enc(sent.of)]
      BY <1>1, <1>2, <1>3, Zenon DEF Record
    <2> QED
      BY <1>1, <2>1 DEF GivenOK
  <1>4. ASSUME sent.form = "none" PROVE given'[w] = NoSecret
    <2>1. given' = [given EXCEPT ![w] = NoSecret]
      BY <1>1, <1>2, <1>4 DEF Record
    <2> QED
      BY <1>1, <2>1 DEF GivenOK
  <1>5. ASSUME sent.form \notin {"plain", "none"}
        PROVE  /\ given' = given /\ unmatched \subseteq unmatched'
               /\ MasksNothing(r) => w \in unmatched'
    BY <1>1, <1>2, <1>5 DEF Record
  <1> QED
    BY <1>1, <1>2, <1>3, <1>4, <1>5

\* A save that is not out of date: what the editor sends, on the row it read.
LEMMA UpdateKeepsSecret ==
    ASSUME GivenOK, WfsOK, NEW r, WellFormed(r), Record(r), wfs' # wfs, r.op = "update",
           r.wf \in DOMAIN wfs, NEW row, row.secret = Encrypt(r.put, TRUE, req[r].saw),
           req[r].saw = wfs[r.wf], Kept(r.wf, wfs[r.wf].secret, given[r.wf], unmatched)
    PROVE  Kept(r.wf, row.secret, given'[r.wf], unmatched')
  <1>1. PICK put : put = r.put
    OBVIOUS
  <1>2. PICK old : old = wfs[r.wf]
    OBVIOUS
  <1>3. put.secret \in SentSecret
    BY <1>1 DEF WellFormed, Request, Payload
  <1>4. row.secret = Encrypt(put, TRUE, old)
    BY <1>1, <1>2
  <1>5. r.wf \in 1..MaxWorkflows
    BY Bounds DEF WfsOK
  <1>6. Saves(r) /\ Saved(r) = r.wf /\ Sent(r) = put.secret
    BY <1>1 DEF Saves, Saved, Sent
  <1>7. CASE put.secret.form \in {"plain", "none"}
    BY <1>3, <1>4, <1>5, <1>6, <1>7, PayloadSecret, SaveRecords DEF Kept
  <1>8. CASE put.secret.form = "marker"
    <2>1. /\ given' = given /\ unmatched \subseteq unmatched'
          /\ MasksNothing(r) => r.wf \in unmatched'
      BY <1>5, <1>6, <1>8, SaveRecords
    <2>2. /\ put.secret = Marker
          /\ row.secret = IF Matches(put, TRUE, old) THEN old.secret
                          ELSE IF put.header THEN Marker ELSE NoSecret
      BY <1>3, <1>4, <1>8, PayloadSecret
    <2>3. CASE Matches(put, TRUE, old)
      BY <1>2, <2>1, <2>2, <2>3 DEF Kept
    <2>4. CASE ~Matches(put, TRUE, old)
      <3>1. MasksNothing(r)
        BY <1>1, <1>2, <2>2, <2>4 DEF MasksNothing, Matches
      <3> QED
        BY <2>1, <2>2, <2>4, <3>1, NothingKept DEF Kept
    <2> QED
      BY <2>3, <2>4
  <1> QED
    BY <1>3, <1>7, <1>8, PayloadSecret

\* The secret in an edit of the row's canvas: the row's own, a new one, or none.
LEMMA EditedSecret ==
    ASSUME NEW row \in WorkflowRow, NEW canvas \in Edits(CanvasOf(row))
    PROVE  \/ canvas.secret = row.secret /\ canvas.node = row.node
           \/ canvas.secret = Plain("s2") \/ canvas.secret = NoSecret
  <1>1. PICK c : c = CanvasOf(row)
    OBVIOUS
  <1>2. c \in Canvas /\ c.secret = row.secret /\ c.node = row.node
    BY <1>1, CanvasOfRow DEF CanvasOf
  <1>3. LET d == [c EXCEPT !.resolves = ~@] IN d.secret = c.secret /\ d.node = c.node
    BY <1>2 DEF Canvas
  <1>4. [c EXCEPT !.secret = Plain("s2"), !.header = FALSE].secret = Plain("s2")
    BY <1>2 DEF Canvas
  <1>5. [c EXCEPT !.node = "n2", !.secret = NoSecret, !.header = FALSE].secret = NoSecret
    BY <1>2 DEF Canvas
  <1> QED
    BY <1>1, <1>2, <1>3, <1>4, <1>5 DEF Edits

\* A turn that is not out of date.
LEMMA TurnKeepsSecret ==
    ASSUME GivenOK, WfsOK, NEW r, Record(r), wfs' # wfs, r.op = "build", r.wf \in DOMAIN wfs,
           NEW row, row.secret = Encrypt(req[r].saw.result, TRUE, req[r].saw.row),
           req[r].saw.row = wfs[r.wf], req[r].saw.result \in Edits(CanvasOf(wfs[r.wf])),
           Kept(r.wf, wfs[r.wf].secret, given[r.wf], unmatched)
    PROVE  Kept(r.wf, row.secret, given'[r.wf], unmatched')
  <1>1. PICK canvas : canvas = req[r].saw.result
    OBVIOUS
  <1>2. PICK old : old = wfs[r.wf]
    OBVIOUS
  <1>3. old \in WorkflowRow /\ r.wf \in 1..MaxWorkflows
    BY <1>2, Bounds DEF WfsOK
  <1>4. row.secret = Encrypt(canvas, TRUE, old)
    BY <1>1, <1>2
  <1>5. \/ canvas.secret = old.secret /\ canvas.node = old.node
        \/ canvas.secret = Plain("s2")
        \/ canvas.secret = NoSecret
    BY <1>1, <1>2, <1>3, EditedSecret
  <1>6. Saves(r) /\ Saved(r) = r.wf /\ Sent(r) = canvas.secret
    BY <1>1 DEF Saves, Saved, Sent
  <1>7. PICK sent : sent = canvas.secret
    OBVIOUS
  <1>8. CASE canvas.secret = Plain("s2")
    <2>1. sent.form = "plain" /\ sent.of = "s2"
      BY <1>7, <1>8 DEF Plain
    <2>2. row.secret = Enc("s2")
      BY <1>4, <1>7, <2>1 DEF Encrypt
    <2>3. given'[r.wf] = Enc("s2")
      BY <1>3, <1>6, <1>7, <2>1, SaveRecords
    <2> QED
      BY <2>2, <2>3 DEF Kept
  <1>9. CASE canvas.secret = NoSecret
    <2>1. sent.form = "none"
      BY <1>7, <1>9 DEF NoSecret
    <2>2. row.secret = NoSecret
      BY <1>4, <1>7, <1>9, <2>1 DEF Encrypt
    <2>3. given'[r.wf] = NoSecret
      BY <1>3, <1>6, <1>7, <2>1, SaveRecords
    <2> QED
      BY <2>2, <2>3 DEF Kept
  <1>10. CASE canvas.secret = old.secret /\ canvas.node = old.node /\ old.secret # NoSecret
    <2>1. sent \in StoredSecret /\ sent = old.secret
      BY <1>3, <1>7, <1>10 DEF WorkflowRow
    <2>2. sent.form \notin {"plain", "none"}
      BY <1>10, <2>1, StoredForms
    <2>3. row.secret = old.secret
      BY <1>4, <1>7, <1>10, <2>1, <2>2 DEF Encrypt
    <2>4. given' = given /\ unmatched \subseteq unmatched'
      BY <1>3, <1>6, <1>7, <2>2, SaveRecords
    <2> QED
      BY <1>2, <2>3, <2>4 DEF Kept
  <1> QED
    BY <1>5, <1>8, <1>9, <1>10

\* A row that is written anew.
LEMMA RewriteKeepsSecrets ==
    ASSUME WfsOK, GivenOK, NEW r, WellFormed(r), TurnOK(r), Record(r), wfs' # wfs,
           \A v \in DOMAIN wfs : SecretKept(v),
           NEW row, Rewrites(r, row), KeepsSlug(r, row), SecretIs(r, row)
    PROVE  GivenOK' /\ \A v \in DOMAIN wfs' : SecretKept(v)'
  <1>1. PICK w : w = r.wf
    OBVIOUS
  <1>2. w \in DOMAIN wfs /\ wfs' = [wfs EXCEPT ![w] = row]
    BY <1>1 DEF Rewrites
  <1>3. /\ DOMAIN wfs' = DOMAIN wfs /\ wfs'[w] = row /\ DOMAIN wfs \subseteq 1..MaxWorkflows
        /\ \A v \in DOMAIN wfs : v # w => wfs'[v] = wfs[v]
    BY <1>2, Bounds DEF WfsOK
  <1>4. stale \subseteq stale' /\ (Outdated(r) => w \in stale')
    BY <1>1 DEF Record
  <1>5. r.op # "create_workflow"
    BY DEF SecretIs
  <1>7. /\ GivenOK'
        /\ \A v \in 1..MaxWorkflows : v # w =>
                given'[v] = given[v] /\ (v \in unmatched => v \in unmatched')
    <2>1. w = Saved(r)
      BY <1>1, <1>5 DEF Saved
    <2> QED
      BY <2>1, GivenMoves
  <1>8. ASSUME NEW v \in DOMAIN wfs, v # w PROVE SecretKept(v)'
    <2>1. wfs'[v] = wfs[v] /\ SecretKept(v)
      BY <1>3, <1>8
    <2>2. v \in 1..MaxWorkflows /\ v # w
      BY <1>3, <1>8
    <2>3. given'[v] = given[v] /\ (v \in unmatched => v \in unmatched')
      BY <1>7, <2>2
    <2> QED
      BY <1>4, <1>8, <2>1, <2>3, OtherRowsKeep
  <1>9. SecretKept(w)'
    <2> SUFFICES ASSUME ~row.gone, w \notin stale'
                 PROVE  Kept(w, row.secret, given'[w], unmatched')
      BY <1>3 DEF SecretKept, Stored
    <2>1. w \notin stale /\ ~Outdated(r)
      BY <1>4
    <2>2. Kept(w, wfs[w].secret, given[w], unmatched)
      BY <1>1, <1>2, <2>1 DEF SecretKept, Stored, KeepsSlug
    <2>3. CASE r.op = "update"
      <3>1. At(r, "may") /\ row.secret = Encrypt(r.put, TRUE, req[r].saw)
        BY <2>3 DEF SecretIs
      <3>2. req[r].saw = wfs[r.wf]
        BY <2>1, <2>3, <3>1 DEF Outdated
      <3> QED
        BY <1>1, <1>2, <2>2, <2>3, <3>1, <3>2, UpdateKeepsSecret
    <2>4. CASE r.op = "build"
      <3>1. At(r, "persist") /\ row.secret = Encrypt(req[r].saw.result, TRUE, req[r].saw.row)
        BY <2>4 DEF SecretIs
      <3>2. req[r].saw.row = wfs[r.wf] /\ req[r].saw.base = req[r].saw.row
        BY <2>1, <3>1 DEF Outdated
      <3>3. req[r].saw.result \in Edits(CanvasOf(req[r].saw.base))
        BY <3>1 DEF TurnOK, At, Turns
      <3>4. req[r].saw.result \in Edits(CanvasOf(wfs[r.wf]))
        BY <3>2, <3>3
      <3> QED
        BY <1>1, <1>2, <2>2, <2>4, <3>1, <3>2, <3>4, TurnKeepsSecret
    <2>5. CASE r.op \notin {"update", "build"}
      <3>1. given' = given /\ unmatched' = unmatched
        BY <1>5, <2>5 DEF Record, Saves
      <3>2. row.secret = wfs[w].secret
        BY <1>1, <2>5 DEF SecretIs
      <3> QED
        BY <2>2, <3>1, <3>2
    <2> QED
      BY <2>3, <2>4, <2>5
  <1> QED
    BY <1>3, <1>7, <1>8, <1>9

\* A row that is new.
LEMMA CreateKeepsSecrets ==
    ASSUME WfsOK, GivenOK, NEW r, WellFormed(r), Record(r), wfs' # wfs,
           \A v \in DOMAIN wfs : SecretKept(v), Creates(r)
    PROVE  GivenOK' /\ \A v \in DOMAIN wfs' : SecretKept(v)'
  <1>1. PICK put : put = r.put
    OBVIOUS
  <1>2. PICK row \in WorkflowRow :
           /\ Len(wfs) < MaxWorkflows /\ wfs' = Append(wfs, row)
           /\ row.secret = Encrypt(put, FALSE, [node |-> None])
    BY <1>1 DEF Creates
  <1>3. r.op = "create_workflow"
    BY DEF Creates
  <1>4. PICK w : w = Len(wfs')
    OBVIOUS
  <1>5. /\ w \in 1..MaxWorkflows /\ w = Len(wfs) + 1 /\ wfs'[w] = row
        /\ DOMAIN wfs' = DOMAIN wfs \cup {w} /\ w \notin DOMAIN wfs /\ DOMAIN wfs \subseteq 1..MaxWorkflows
        /\ \A v \in DOMAIN wfs : wfs'[v] = wfs[v]
    BY <1>2, <1>4, Bounds DEF WfsOK
  <1>6. put.secret \in SentSecret
    BY <1>1 DEF WellFormed, Request, Payload
  <1>7. /\ GivenOK'
        /\ \A v \in 1..MaxWorkflows : v # w =>
                given'[v] = given[v] /\ (v \in unmatched => v \in unmatched')
    <2>1. w = Saved(r)
      BY <1>3, <1>4 DEF Saved
    <2> QED
      BY <2>1, GivenMoves
  <1>8. stale \subseteq stale'
    BY DEF Record
  <1>9. ASSUME NEW v \in DOMAIN wfs PROVE SecretKept(v)'
    <2>1. wfs'[v] = wfs[v] /\ SecretKept(v)
      BY <1>5, <1>9
    <2>2. v \in 1..MaxWorkflows /\ v # w
      BY <1>5, <1>9
    <2>3. given'[v] = given[v] /\ (v \in unmatched => v \in unmatched')
      BY <1>7, <2>2
    <2> QED
      BY <1>8, <1>9, <2>1, <2>3, OtherRowsKeep
  <1>10. Kept(w, row.secret, given'[w], unmatched')
    <2>1. Saves(r) /\ Saved(r) = w /\ Sent(r) = put.secret
      BY <1>1, <1>3, <1>4 DEF Saves, Saved, Sent
    <2>2. CASE put.secret.form \in {"plain", "none"}
      <3>1. /\ put.secret.form = "plain" => row.secret = Enc(put.secret.of)
            /\ put.secret.form = "none" => row.secret = NoSecret
        BY <1>2, <1>6, PayloadSecret
      <3> QED
        BY <1>5, <2>1, <2>2, <3>1, SaveRecords DEF Kept
    <2>3. CASE put.secret.form = "marker"
      <3>1. put.secret = Marker /\ row.secret \in {Marker, NoSecret}
        BY <1>2, <1>6, <2>3, PayloadSecret DEF Matches
      <3>2. MasksNothing(r)
        BY <1>1, <1>3, <3>1 DEF MasksNothing
      <3>3. w \in unmatched'
        BY <1>5, <2>1, <2>3, <3>2, SaveRecords
      <3> QED
        BY <3>1, <3>3, NothingKept DEF Kept
    <2> QED
      BY <1>6, <2>2, <2>3, PayloadSecret
  <1>11. SecretKept(w)'
    BY <1>5, <1>10 DEF SecretKept
  <1> QED
    BY <1>5, <1>7, <1>9, <1>11

LEMMA EmptyKeepsSecrets ==
    ASSUME WfsOK, GivenOK, NEW r, Record(r), \A v \in DOMAIN wfs : SecretKept(v), Empties(r)
    PROVE  GivenOK' /\ \A v \in DOMAIN wfs' : SecretKept(v)'
  <1>1. r.op = "delete_account"
    BY DEF Empties, DeleteAccountWorkflows
  <1>2. given' = given /\ unmatched' = unmatched /\ stale \subseteq stale'
    BY <1>1 DEF Record, Saves
  <1>3. DOMAIN wfs' = DOMAIN wfs /\ \A w \in DOMAIN wfs : wfs'[w] = wfs[w] \/ wfs'[w].gone
    BY EmptiedRows DEF Empties
  <1>4. GivenOK'
    BY <1>2 DEF GivenOK
  <1>5. ASSUME NEW v \in DOMAIN wfs' PROVE SecretKept(v)'
    BY <1>2, <1>3, <1>5 DEF SecretKept, Stored
  <1> QED
    BY <1>4, <1>5

SecretInv == GivenOK /\ SecretsSurviveSaves

LEMMA InitSecrets == Init => SecretInv
  <1> SUFFICES ASSUME Init PROVE SecretInv
    OBVIOUS
  <1>1. GivenOK
    BY DEF Init, GivenOK
  <1>2. SeedWorkflows \in Seq(WorkflowRow) /\ Len(SeedWorkflows) <= MaxWorkflows /\ MaxWorkflows \in Nat
    BY SeedAssumption, WorkspaceAssumption
  <1>3. ASSUME NEW w \in DOMAIN wfs PROVE wfs[w].secret = given[w]
    <2>1. wfs = SeedWorkflows
      BY DEF Init
    <2>2. w \in DOMAIN SeedWorkflows /\ w \in 1..MaxWorkflows
      BY <1>2, <1>3, <2>1
    <2>3. given[w] = SeedWorkflows[w].secret
      BY <2>2 DEF Init
    <2> QED
      BY <2>1, <2>3
  <1> QED
    BY <1>1, <1>3 DEF SecretInv, SecretsSurviveSaves

LEMMA StepSecrets == Known /\ SecretInv /\ [Next]_vars => SecretInv'
  <1> SUFFICES ASSUME Known, SecretInv, [Next]_vars PROVE SecretInv'
    OBVIOUS
  <1>1. ASSUME UNCHANGED <<wfs, given, unmatched>>, stale \subseteq stale' PROVE SecretInv'
    BY <1>1 DEF SecretInv, GivenOK, SecretsSurviveSaves, Stored
  <1>2. GivenOK /\ \A v \in DOMAIN wfs : SecretKept(v)
    BY SecretsAreRows DEF SecretInv
  <1>3. (GivenOK' /\ \A v \in DOMAIN wfs' : SecretKept(v)') => SecretInv'
    BY DEF SecretInv, SecretsSurviveSaves, SecretKept, Kept
  <1>4. ASSUME NEW r, RequestStep(r) PROVE SecretInv'
    <2>1. /\ r \in cast /\ WfsOK /\ UsersOK /\ Routed(r) /\ Knows(r) /\ TurnOK(r) /\ WellFormed(r)
      BY <1>4, Stepping DEF Known, TablesWell, RequestOK
    <2>2. Record(r)
      BY <1>4 DEF RequestStep
    <2>3. Creates(r) \/ Empties(r) \/ RewritesWell(r)
      BY <1>4, <2>1, RequestWrites
    <2>4. CASE wfs' = wfs
      <3>1. UNCHANGED <<given, unmatched>> /\ stale \subseteq stale'
        BY <2>2, <2>4 DEF Record, Saves
      <3> QED
        BY <1>1, <2>4, <3>1
    <2>5. CASE wfs' # wfs /\ Creates(r)
      BY <1>2, <1>3, <2>1, <2>2, <2>5, CreateKeepsSecrets
    <2>6. CASE Empties(r)
      BY <1>2, <1>3, <2>1, <2>2, <2>6, EmptyKeepsSecrets
    <2>7. CASE wfs' # wfs /\ RewritesWell(r)
      <3>1. PICK row : Rewrites(r, row) /\ KeepsSlug(r, row) /\ SecretIs(r, row)
        BY <2>7 DEF RewritesWell
      <3>2. GivenOK' /\ \A v \in DOMAIN wfs' : SecretKept(v)'
        BY <1>2, <2>1, <2>2, <2>7, <3>1, RewriteKeepsSecrets
      <3> QED
        BY <1>3, <3>2
    <2> QED
      BY <2>3, <2>4, <2>5, <2>6, <2>7
  <1>5. (UNCHANGED <<wfs, given, stale, unmatched>>) \/ \E r \in cast : RequestStep(r)
    BY DEF Next, Restart, Expire, vars, storeVars, histVars
  <1> QED
    BY <1>1, <1>4, <1>5

\* A client only ever sees masked secrets, and sends the mask back when it saves:
\* unless a save or a turn worked on a row that had changed since it was read,
\* every stored workflow holds the secret last given to it in clear, and one
\* saved with a mask for a secret it did not have, at the least no other secret
\* (_encrypt_jira_tokens and its siblings, update_workflow, _persist).
THEOREM SavesKeepSecrets == Spec => []SecretsSurviveSaves
  <1>1. SecretInv => SecretsSurviveSaves
    BY DEF SecretInv
  <1> QED
    BY <1>1, InitSecrets, AlwaysKnown, StepSecrets, PTL DEF Spec

-----------------------------------------------------------------------------
(* Answers.                                                                *)

\* A request that has made or answered no proposal yet.
Fresh(r) == req[r].pc \notin Final \cup {"persist"}
\* Proposals have numbers of their own, and what waits has no answer.
OwnNumbers ==
    \A s, t \in DOMAIN sessions : \A p \in sessions[s].patch : \A q \in sessions[t].patch :
        p.from = q.from => s = t
Unanswered == \A s \in DOMAIN sessions : \A p \in sessions[s].patch : \A a \in answers : a.to # p.from
Unused(n) ==
    /\ \A s \in DOMAIN sessions : \A p \in sessions[s].patch : p.from # n
    /\ \A a \in answers : a.to # n
AnswerInv == OwnNumbers /\ Unanswered /\ PatchIsAnsweredOnce /\ \A r \in cast : Fresh(r) => Unused(r.id)

\* What a step does to the proposals: nothing, an answer, or a new one.
PatchesStay ==
    \A t \in DOMAIN sessions' : \/ sessions'[t].patch = {}
                                \/ t \in DOMAIN sessions /\ sessions'[t].patch = sessions[t].patch
Quiet == answers' = answers /\ PatchesStay
OnlySession(s) ==
    DOMAIN sessions' = DOMAIN sessions /\ \A t \in DOMAIN sessions : t # s => sessions'[t] = sessions[t]
AnswersWith(s, p, a) ==
    a.to = p.from /\ answers' = answers \cup {a} /\ OnlySession(s) /\ sessions'[s].patch = {}
Answers == \E s \in DOMAIN sessions : \E p \in sessions[s].patch : \E a : AnswersWith(s, p, a)
ProposesIn(s, p, n) == p.from = n /\ answers' = answers /\ OnlySession(s) /\ sessions'[s].patch = {p}
Proposes(n) == \E s \in DOMAIN sessions : \E p : ProposesIn(s, p, n)

LEMMA QuietKeepsNumbers ==
    ASSUME OwnNumbers, Unanswered, PatchIsAnsweredOnce, Quiet
    PROVE  /\ OwnNumbers' /\ Unanswered' /\ PatchIsAnsweredOnce'
           /\ \A n : Unused(n) => Unused(n)'
  <1>1. \A t \in DOMAIN sessions' : \A p \in sessions'[t].patch :
            t \in DOMAIN sessions /\ p \in sessions[t].patch
    BY DEF Quiet, PatchesStay
  <1>2. OwnNumbers'
    BY <1>1 DEF OwnNumbers
  <1>3. Unanswered'
    BY <1>1 DEF Unanswered, Quiet
  <1>4. PatchIsAnsweredOnce'
    BY DEF PatchIsAnsweredOnce, Quiet
  <1>5. ASSUME NEW n, Unused(n) PROVE Unused(n)'
    BY <1>1, <1>5 DEF Unused, Quiet
  <1> QED
    BY <1>2, <1>3, <1>4, <1>5

LEMMA AnswerKeepsNumbers ==
    ASSUME OwnNumbers, Unanswered, PatchIsAnsweredOnce, Answers
    PROVE  /\ OwnNumbers' /\ Unanswered' /\ PatchIsAnsweredOnce'
           /\ \A n : Unused(n) => Unused(n)'
  <1>1. PICK s \in DOMAIN sessions : \E p \in sessions[s].patch : \E a : AnswersWith(s, p, a)
    BY DEF Answers
  <1>2. PICK p \in sessions[s].patch : \E a : AnswersWith(s, p, a)
    BY <1>1
  <1>3. PICK a : AnswersWith(s, p, a)
    BY <1>2
  <1>4. /\ a.to = p.from /\ answers' = answers \cup {a}
        /\ DOMAIN sessions' = DOMAIN sessions /\ sessions'[s].patch = {}
        /\ \A t \in DOMAIN sessions : t # s => sessions'[t] = sessions[t]
    BY <1>3 DEF AnswersWith, OnlySession
  <1>5. \A t \in DOMAIN sessions' : \A q \in sessions'[t].patch :
            t # s /\ t \in DOMAIN sessions /\ q \in sessions[t].patch
    BY <1>4
  <1>6. OwnNumbers'
    BY <1>5 DEF OwnNumbers
  <1>7. ASSUME NEW t \in DOMAIN sessions', NEW q \in sessions'[t].patch, NEW b \in answers'
        PROVE  b.to # q.from
    <2>1. t # s /\ t \in DOMAIN sessions /\ q \in sessions[t].patch
      BY <1>5
    <2>2. CASE b \in answers
      BY <2>1, <2>2 DEF Unanswered
    <2>3. CASE b = a
      BY <1>4, <2>1, <2>3 DEF OwnNumbers
    <2> QED
      BY <1>4, <2>2, <2>3
  <1>8. Unanswered'
    BY <1>7 DEF Unanswered
  <1>9. \A b \in answers : b.to # a.to
    BY <1>4 DEF Unanswered
  <1>10. PatchIsAnsweredOnce'
    BY <1>4, <1>9 DEF PatchIsAnsweredOnce
  <1>11. ASSUME NEW n, Unused(n) PROVE Unused(n)'
    <2>1. a.to # n
      BY <1>4, <1>11 DEF Unused
    <2> QED
      BY <1>4, <1>5, <1>11, <2>1 DEF Unused
  <1> QED
    BY <1>6, <1>8, <1>10, <1>11

LEMMA ProposalKeepsNumbers ==
    ASSUME OwnNumbers, Unanswered, PatchIsAnsweredOnce, NEW n, Unused(n), Proposes(n)
    PROVE  /\ OwnNumbers' /\ Unanswered' /\ PatchIsAnsweredOnce'
           /\ \A m : m # n /\ Unused(m) => Unused(m)'
  <1>1. PICK s \in DOMAIN sessions : \E p : ProposesIn(s, p, n)
    BY DEF Proposes
  <1>2. PICK p : ProposesIn(s, p, n)
    BY <1>1
  <1>3. /\ p.from = n /\ answers' = answers
        /\ DOMAIN sessions' = DOMAIN sessions /\ sessions'[s].patch = {p}
        /\ \A t \in DOMAIN sessions : t # s => sessions'[t] = sessions[t]
    BY <1>2 DEF ProposesIn, OnlySession
  <1>4. \A t \in DOMAIN sessions' : \A q \in sessions'[t].patch :
            \/ t = s /\ q = p
            \/ t # s /\ t \in DOMAIN sessions /\ q \in sessions[t].patch /\ q.from # n
    BY <1>3 DEF Unused
  <1>5. OwnNumbers'
    BY <1>3, <1>4 DEF OwnNumbers
  <1>6. Unanswered'
    BY <1>3, <1>4 DEF Unanswered, Unused
  <1>7. PatchIsAnsweredOnce'
    BY <1>3 DEF PatchIsAnsweredOnce
  <1>8. ASSUME NEW m, m # n, Unused(m) PROVE Unused(m)'
    BY <1>3, <1>4, <1>8 DEF Unused
  <1> QED
    BY <1>5, <1>6, <1>7, <1>8

\* A session is rewritten.
LEMMA SessionIs ==
    ASSUME SessionsWell, NEW s \in DOMAIN sessions, NEW new, sessions' = [sessions EXCEPT ![s] = new]
    PROVE  /\ DOMAIN sessions' = DOMAIN sessions /\ sessions'[s] = new
           /\ \A t \in DOMAIN sessions : t # s => sessions'[t] = sessions[t]
  BY DEF SessionsWell, SessionsOK

LEMMA TurnStartAnswers ==
    ASSUME SessionsWell, NEW r \in cast, TurnOK(r), TurnStart(r)
    PROVE  Quiet \/ Answers
  <1>1. req[r].pc \in Turns
    BY DEF TurnStart, At, Turns
  <1>2. PICK s : s = req[r].saw.session
    OBVIOUS
  <1>3. s \in DOMAIN sessions /\ sessions[s] \in Session
    BY <1>1, <1>2, InTurn
  <1>4. PICK patch : patch = sessions[s].patch
    OBVIOUS
  <1>5. CASE r.arg \in {"approve", "reject"} /\ patch # {}
    <2>1. PICK p \in patch :
            /\ answers' = answers \cup {[by |-> r.id, to |-> p.from, applied |-> r.arg = "approve"]}
            /\ sessions' = [sessions EXCEPT ![s].patch = {}]
      BY <1>2, <1>4, <1>5, Zenon DEF TurnStart
    <2>2. PICK a : a = [by |-> r.id, to |-> p.from, applied |-> r.arg = "approve"]
      OBVIOUS
    <2>3. a.to = p.from /\ answers' = answers \cup {a}
      BY <2>1, <2>2
    <2>4. PICK new : new = [sessions[s] EXCEPT !.patch = {}]
      OBVIOUS
    <2>5. sessions' = [sessions EXCEPT ![s] = new]
      BY <2>1, <2>4
    <2>6. new.patch = {}
      BY <1>3, <2>4 DEF Session
    <2>7. /\ DOMAIN sessions' = DOMAIN sessions /\ sessions'[s] = new
          /\ \A t \in DOMAIN sessions : t # s => sessions'[t] = sessions[t]
      BY <1>3, <2>5, SessionIs
    <2> QED
      BY <1>3, <1>4, <2>1, <2>3, <2>6, <2>7 DEF Answers, AnswersWith, OnlySession
  <1>6. CASE ~(r.arg \in {"approve", "reject"} /\ patch # {})
    <2>1. UNCHANGED builderVars
      BY <1>2, <1>4, <1>6, Zenon DEF TurnStart
    <2> QED
      BY <2>1 DEF Quiet, PatchesStay, builderVars
  <1> QED
    BY <1>5, <1>6

LEMMA DiagnosedProposes ==
    ASSUME SessionsWell, NEW r \in cast, TurnOK(r), Diagnosed(r)
    PROVE  Proposes(r.id)
  <1>1. req[r].pc \in Turns /\ answers' = answers
    BY DEF Diagnosed, At, Turns
  <1>2. PICK turn : turn = req[r].saw
    OBVIOUS
  <1>3. turn.session \in DOMAIN sessions /\ sessions[turn.session] \in Session
    BY <1>1, <1>2, InTurn
  <1>4. PICK canvas : Propose(r, canvas)
    BY DEF Diagnosed
  <1>5. PICK p : p = [canvas |-> canvas, from |-> r.id, base |-> turn.row]
    OBVIOUS
  <1>6. p.from = r.id
    BY <1>5
  <1>7. PICK new : new = [sessions[turn.session] EXCEPT !.patch = {p}]
    OBVIOUS
  <1>8. new.patch = {p}
    BY <1>3, <1>7 DEF Session
  <1>9. sessions' = [sessions EXCEPT ![turn.session] = new]
    BY <1>2, <1>4, <1>5, <1>7 DEF Propose
  <1>10. /\ DOMAIN sessions' = DOMAIN sessions /\ sessions'[turn.session] = new
         /\ \A t \in DOMAIN sessions : t # turn.session => sessions'[t] = sessions[t]
    BY <1>3, <1>9, SessionIs
  <1> QED
    BY <1>1, <1>3, <1>6, <1>8, <1>10 DEF Proposes, ProposesIn, OnlySession

LEMMA OpenSessionQuiet ==
    ASSUME SessionsWell, NEW r \in cast, OpenSession(r)
    PROVE  Quiet
  <1>1. answers' = answers
    BY DEF OpenSession
  <1>2. PICK new : new = [live |-> TRUE, plan |-> FALSE, patch |-> {}]
    OBVIOUS
  <1>3. new.patch = {}
    BY <1>2
  <1>4. sessions' = sessions \/ sessions' = Append(sessions, new)
    BY <1>2 DEF OpenSession
  <1>5. CASE sessions' = Append(sessions, new)
    <2>1. \A t \in DOMAIN sessions' : sessions'[t] = new \/ (t \in DOMAIN sessions /\ sessions'[t] = sessions[t])
      BY <1>5 DEF SessionsWell, SessionsOK
    <2> QED
      BY <1>1, <1>3, <2>1 DEF Quiet, PatchesStay
  <1> QED
    BY <1>1, <1>4, <1>5 DEF Quiet, PatchesStay

LEMMA PlannedQuiet ==
    ASSUME SessionsWell, NEW r \in cast, TurnOK(r), Planned(r)
    PROVE  Quiet
  <1>1. req[r].pc \in Turns /\ answers' = answers
    BY DEF Planned, At, Turns
  <1>2. PICK s : s = req[r].saw.session
    OBVIOUS
  <1>3. s \in DOMAIN sessions /\ sessions[s] \in Session
    BY <1>1, <1>2, InTurn
  <1>4. CASE UNCHANGED sessions
    BY <1>1, <1>4 DEF Quiet, PatchesStay
  <1>5. CASE sessions' = [sessions EXCEPT ![req[r].saw.session].plan = TRUE]
    <2>1. PICK new : new = [sessions[s] EXCEPT !.plan = TRUE]
      OBVIOUS
    <2>2. new.patch = sessions[s].patch
      BY <1>3, <2>1 DEF Session
    <2>3. sessions' = [sessions EXCEPT ![s] = new]
      BY <1>2, <1>5, <2>1
    <2>4. /\ DOMAIN sessions' = DOMAIN sessions /\ sessions'[s] = new
          /\ \A t \in DOMAIN sessions : t # s => sessions'[t] = sessions[t]
      BY <1>3, <2>3, SessionIs
    <2> QED
      BY <1>1, <2>2, <2>4 DEF Quiet, PatchesStay
  <1> QED
    BY <1>4, <1>5 DEF Planned

LEMMA RequestAnswers ==
    ASSUME SessionsWell, NEW r \in cast, TurnOK(r), RequestStep(r)
    PROVE  Quiet \/ Answers \/ (Proposes(r.id) /\ Diagnosed(r))
  <1>1. ASSUME UNCHANGED builderVars PROVE Quiet
    BY <1>1 DEF Quiet, PatchesStay, builderVars
  <1>2. CASE BuilderStep(r)
    <2>1. CASE FindSession(r) \/ ModelRefused(r) \/ Built(r) \/ ModelRaises(r) \/ TooLarge(r) \/ Persist(r)
      <3>1. UNCHANGED builderVars
        BY <2>1 DEF FindSession, ModelRefused, Built, ModelRaises, TooLarge, Persist
      <3> QED
        BY <1>1, <3>1
    <2> QED
      BY <1>2, <2>1, TurnStartAnswers, DiagnosedProposes, OpenSessionQuiet, PlannedQuiet DEF BuilderStep
  <1>3. CASE ~BuilderStep(r)
    <2>1. UNCHANGED builderVars
      BY <1>3 DEF RequestStep
    <2> QED
      BY <1>1, <2>1
  <1> QED
    BY <1>2, <1>3

\* A request that is over takes no step.
LEMMA FinalStays ==
    ASSUME NEW r, RequestStep(r)
    PROVE  req[r].pc \notin Final
  <1>1. AccountStep(r) => req[r].pc \notin Final
    BY DEF Final, At, AccountStep, Authenticate, ReadRole, FindKey, FindKeyOwner, FindAccount, CreateAccount,
       Login, Refresh, ChangeAuthenticate, ChangeVerify, ForgotPassword, ResetVerify, ChangePassword,
       ResetPassword, StorePassword, CreateKey, RevokeOwnKey, RevokeUsersKey, RevokeWrite, FindTarget,
       DeactivateKeys, ChangeRole, Deactivate, Reactivate, AdminResetPassword, AdminUpdate
  <1>2. StoreStep(r) => req[r].pc \notin Final
    BY DEF Final, At, StoreStep, FindReceiver, ReadWorkflow, ReadAssignment, FindSlug, CreateWorkflow, Update,
       UpdateFlags, AssignOwner, Delete, Grant, Revoke, Start, DeleteAccountRead, DeleteAccountWorkflows,
       DeleteAccountAssignments, DeleteAccountUser
  <1>3. KeyStep(r) => req[r].pc \notin Final
    BY DEF Final, At, KeyStep, FindLlmKey, StoreLlmKey, DeleteLlmKey, ApplySetting
  <1>4. BuilderStep(r) => req[r].pc \notin Final
    BY DEF Final, At, BuilderStep, FindSession, OpenSession, ModelRefused, TurnStart, Diagnosed, Planned,
       Built, ModelRaises, TooLarge, Persist
  <1> QED
    BY <1>1, <1>2, <1>3, <1>4 DEF RequestStep

LEMMA FreshWasFresh ==
    ASSUME Shape, NEW r \in cast, Routed(r), cast' = cast, RequestStep(r), Fresh(r)'
    PROVE  Fresh(r)
  <1>1. CASE req[r].pc = "persist"
    <2>1. TooLarge(r) \/ Persist(r)
      BY <1>1, AtPersist
    <2>2. PICK pc \in Final : Goto(r, pc)
      BY <2>1 DEF TooLarge, Persist, Changed, Final
    <2>3. req'[r].pc = pc
      BY <2>2, GotoIs
    <2> QED
      BY <2>2, <2>3 DEF Fresh
  <1> QED
    BY <1>1, FinalStays DEF Fresh

LEMMA InitAnswers == Init => AnswerInv
  <1> SUFFICES ASSUME Init PROVE AnswerInv
    OBVIOUS
  <1>1. cast \in Casts /\ sessions = SeedSessions /\ answers = {}
    BY DEF Init
  <1>2. OwnNumbers
    BY <1>1, SeedAssumption DEF OwnNumbers
  <1>3. Unanswered /\ PatchIsAnsweredOnce
    BY <1>1 DEF Unanswered, PatchIsAnsweredOnce
  <1>4. ASSUME NEW r \in cast PROVE Unused(r.id)
    BY <1>1, SeedAssumption DEF Unused
  <1> QED
    BY <1>2, <1>3, <1>4 DEF AnswerInv

LEMMA StepAnswers == Known /\ AnswerInv /\ [Next]_vars => AnswerInv'
  <1> SUFFICES ASSUME Known, AnswerInv, [Next]_vars PROVE AnswerInv'
    OBVIOUS
  <1>1. OwnNumbers /\ Unanswered /\ PatchIsAnsweredOnce /\ \A q \in cast : Fresh(q) => Unused(q.id)
    BY DEF AnswerInv
  <1>2. ASSUME Quiet, cast' = cast, \A q \in cast : Fresh(q)' => Fresh(q) PROVE AnswerInv'
    BY <1>1, <1>2, QuietKeepsNumbers DEF AnswerInv
  <1>3. ASSUME NEW r, RequestStep(r) PROVE AnswerInv'
    <2>1. /\ r \in cast /\ Shape /\ SessionsWell /\ Routed(r) /\ TurnOK(r) /\ Only(r)
      BY <1>3, Stepping DEF Known, TablesWell, RequestOK, Goes
    <2>2. ASSUME NEW q \in cast, Fresh(q)' PROVE Fresh(q)
      <3>1. CASE q = r
        BY <1>3, <2>1, <2>2, <3>1, FreshWasFresh DEF Only
      <3>2. CASE q # r
        BY <2>1, <2>2, <3>2 DEF Fresh, Only
      <3> QED
        BY <3>1, <3>2
    <2>3. cast' = cast
      BY <2>1 DEF Only
    <2>4. CASE Quiet
      BY <1>2, <2>2, <2>3, <2>4
    <2>5. CASE Answers
      BY <1>1, <2>2, <2>3, <2>5, AnswerKeepsNumbers DEF AnswerInv
    <2>6. CASE Proposes(r.id) /\ Diagnosed(r)
      <3>1. Fresh(r) /\ Unused(r.id)
        BY <1>1, <2>1, <2>6 DEF Fresh, Final, Diagnosed, At
      <3>2. ~Fresh(r)'
        <4>1. Goto(r, "persist")
          BY <2>6 DEF Diagnosed
        <4>2. req'[r].pc = "persist"
          BY <2>1, <2>3, <4>1, GotoIs
        <4> QED
          BY <4>2 DEF Fresh
      <3>3. ASSUME NEW q \in cast, Fresh(q)' PROVE Unused(q.id)'
        <4>1. q # r /\ q.id # r.id
          BY <2>1, <3>2, <3>3, WorkspaceAssumption DEF Known
        <4> QED
          BY <1>1, <2>2, <2>6, <3>1, <3>3, <4>1, ProposalKeepsNumbers
      <3> QED
        BY <1>1, <2>3, <2>6, <3>1, <3>3, ProposalKeepsNumbers DEF AnswerInv
    <2> QED
      BY <1>3, <2>1, <2>4, <2>5, <2>6, RequestAnswers
  <1>4. ASSUME NEW i, Restart(i) PROVE AnswerInv'
    <2>1. Boot(i) /\ UNCHANGED <<sessions, answers>>
      BY <1>4 DEF Restart, builderVars
    <2>2. Quiet
      BY <2>1 DEF Quiet, PatchesStay
    <2>3. cast' = cast /\ \A q \in cast : req'[q] = req[q] \/ req'[q].pc = "dead"
      BY <2>1, BootIs DEF Known
    <2>4. \A q \in cast : Fresh(q)' => Fresh(q)
      BY <2>3 DEF Fresh, Final
    <2> QED
      BY <1>2, <2>2, <2>3, <2>4
  <1>5. ASSUME NEW s \in DOMAIN sessions, Expire(s) PROVE AnswerInv'
    <2>1. UNCHANGED <<cast, req, answers>>
      BY <1>5 DEF Expire
    <2>2. SessionsWell /\ sessions[s] \in Session
      BY DEF Known, TablesWell, SessionsWell, SessionsOK
    <2>3. PICK new : new = [sessions[s] EXCEPT !.live = FALSE]
      OBVIOUS
    <2>4. new.patch = sessions[s].patch
      BY <2>2, <2>3 DEF Session
    <2>5. sessions' = [sessions EXCEPT ![s] = new]
      BY <1>5, <2>3 DEF Expire
    <2>6. /\ DOMAIN sessions' = DOMAIN sessions /\ sessions'[s] = new
          /\ \A t \in DOMAIN sessions : t # s => sessions'[t] = sessions[t]
      BY <2>2, <2>5, SessionIs
    <2>7. Quiet
      BY <2>1, <2>4, <2>6 DEF Quiet, PatchesStay
    <2>8. \A q \in cast : Fresh(q)' => Fresh(q)
      BY <2>1 DEF Fresh
    <2> QED
      BY <1>2, <2>1, <2>7, <2>8
  <1>6. CASE UNCHANGED vars
    <2>1. UNCHANGED <<cast, req, sessions, answers>>
      BY <1>6 DEF vars, accountVars, builderVars
    <2>2. Quiet /\ \A q \in cast : Fresh(q)' => Fresh(q)
      BY <2>1 DEF Quiet, PatchesStay, Fresh
    <2> QED
      BY <1>2, <2>1, <2>2
  <1> QED
    BY <1>3, <1>4, <1>5, <1>6 DEF Next

\* Of two messages that answer the same proposal only the first finds it: a patch
\* is applied or discarded once, though two approvals, or an approval and a
\* rejection, may be under way at the same time (run_builder_turn).
THEOREM PatchesAreAnsweredOnce == Spec => []PatchIsAnsweredOnce
  <1>1. AnswerInv => PatchIsAnsweredOnce
    BY DEF AnswerInv
  <1> QED
    BY <1>1, InitAnswers, AlwaysKnown, StepAnswers, PTL DEF Spec

-----------------------------------------------------------------------------
(* Provider keys.                                                          *)

\* What a request writes, the requests that have written the row and not yet
\* their instance, and an instance that agrees with the row.
Wrote(r) == IF r.op = "put_llm_key" THEN r.arg ELSE None
Owes(r, i) == r.op \in LlmOps /\ req[r].pc = "stored" /\ r.at = i
Follows(i) == setting[i] = llm \/ (env # None /\ setting[i] = env)
\* An instance in current follows the row, or will by the one request that wrote it.
Agrees(i) ==
    /\ (\A r \in cast : ~Owes(r, i)) => Follows(i)
    /\ \A r \in cast : Owes(r, i) => Wrote(r) = llm /\ \A q \in cast : Owes(q, i) => q = r
FoundRow(r) == r.op \in LlmOps /\ req[r].pc = "found" => req[r].saw \in {"create", "update"}
SettingInv ==
    /\ setting = [i \in Instances |-> setting[i]] /\ current \subseteq Instances
    /\ \A r \in cast : FoundRow(r)
    /\ \A i \in current : Agrees(i)

\* What is not touched goes on agreeing.
LEMMA StillAgrees ==
    ASSUME NEW i, Agrees(i), cast' = cast, UNCHANGED <<llm, env>>, setting'[i] = setting[i],
           \A r \in cast : Owes(r, i)' <=> Owes(r, i)
    PROVE  Agrees(i)'
  <1>1. Follows(i) => Follows(i)'
    BY DEF Follows
  <1>2. \A r \in cast : Wrote(r)' = Wrote(r)
    BY DEF Wrote
  <1> QED
    BY <1>1, <1>2 DEF Agrees

\* A request for a provider key, and any other.
LEMMA LlmSteps ==
    ASSUME NEW r \in cast, Routed(r), r.op \in LlmOps, RequestStep(r)
    PROVE  \/ (Authenticate(r) \/ ReadRole(r)) /\ UNCHANGED keyVars
           \/ KeyStep(r)
  <1>1. /\ r.op \in {"put_llm_key", "delete_llm_key"}
        /\ req[r].pc \notin Turns \cup {"key", "emptied", "unshared", "receiver", "may", "assignee"}
    BY DEF LlmOps, Routed, Turns, RoleOps
  <1>2. AccountStep(r) => Authenticate(r) \/ ReadRole(r)
    BY <1>1 DEF AccountStep, FindKey, FindKeyOwner, FindAccount, CreateAccount, At, UserAdminOps,
       Login, Refresh, ChangeAuthenticate, ChangeVerify, ForgotPassword, ResetVerify, ChangePassword,
       ResetPassword, StorePassword, CreateKey, RevokeOwnKey, RevokeUsersKey, RevokeWrite, FindTarget,
       DeactivateKeys, ChangeRole, Deactivate, Reactivate, AdminResetPassword, AdminUpdate
  <1>3. ~StoreStep(r)
    BY <1>1 DEF StoreStep, FindReceiver, ReadWorkflow, ReadAssignment, FindSlug, CreateWorkflow, Update,
       UpdateFlags, AssignOwner, Delete, Grant, Revoke, Start, DeleteAccountRead, DeleteAccountWorkflows,
       DeleteAccountAssignments, DeleteAccountUser, RoleOps, At
  <1>4. ~BuilderStep(r)
    BY <1>1 DEF BuilderStep, FindSession, OpenSession, ModelRefused, TurnStart, Diagnosed, Planned,
       Built, ModelRaises, TooLarge, Persist, At, Turns
  <1> QED
    BY <1>2, <1>3, <1>4 DEF RequestStep

\* The three steps on a provider key.
LEMMA FindLlmKeySets ==
    ASSUME SettingInv, Shape, NEW r \in cast, WellFormed(r), FindLlmKey(r), Record(r)
    PROVE  SettingInv'
  <1>1. /\ req[r].pc = "role" /\ r.op \in LlmOps /\ cast' = cast
        /\ llm' = llm /\ env' = env /\ setting' = setting
    BY DEF FindLlmKey, At, keyVars
  <1>2. current' = current
    BY <1>1 DEF Record, At
  <1>3. Only(r) /\ (req'[r].pc = "refused" \/ (req'[r].pc = "found" /\ req'[r].saw \in {"create", "update"}))
    <2>1. CASE r.op = "delete_llm_key" /\ llm = None
      <3>1. Goto(r, "refused")
        BY <2>1 DEF FindLlmKey
      <3> QED
        BY <1>1, <3>1, GotoIs
    <2>2. CASE ~(r.op = "delete_llm_key" /\ llm = None)
      <3>1. PICK saw : saw = IF llm = None THEN "create" ELSE "update"
        OBVIOUS
      <3>2. GotoSeeing(r, "found", saw)
        BY <2>2, <3>1, Zenon DEF FindLlmKey
      <3>3. Only(r) /\ req'[r].pc = "found" /\ req'[r].saw = saw
        BY <1>1, <3>2, GotoSeeingIs
      <3> QED
        BY <3>1, <3>3
    <2> QED
      BY <2>1, <2>2
  <1>4. \A q \in cast : FoundRow(q)'
    BY <1>3 DEF Only, FoundRow, SettingInv
  <1>5. \A q \in cast : \A i : Owes(q, i)' <=> Owes(q, i)
    BY <1>1, <1>3 DEF Only, Owes
  <1>6. ASSUME NEW i \in current' PROVE Agrees(i)'
    BY <1>1, <1>2, <1>5, <1>6, StillAgrees DEF SettingInv
  <1> QED
    BY <1>1, <1>2, <1>4, <1>6 DEF SettingInv

LEMMA StoreLlmKeySets ==
    ASSUME SettingInv, Shape, NEW r \in cast, WellFormed(r), StoreLlmKey(r) \/ DeleteLlmKey(r), Record(r)
    PROVE  SettingInv'
  <1>1. /\ req[r].pc = "found" /\ r.op \in LlmOps /\ cast' = cast
        /\ env' = env /\ setting' = setting /\ r.at \in Instances
    BY DEF StoreLlmKey, DeleteLlmKey, At, LlmOps, WellFormed
  <1>2. req[r].saw \in {"create", "update"}
    BY <1>1 DEF SettingInv, FoundRow
  <1>3. /\ Only(r)
        /\ \/ req'[r].pc = "error" /\ llm' = llm
           \/ req'[r].pc = "stored" /\ req'[r].saw = "no row" /\ llm' = llm
           \/ req'[r].pc = "stored" /\ req'[r].saw # "no row" /\ llm' = Wrote(r)
    <2>1. ASSUME Goto(r, "error"), llm' = llm PROVE Only(r) /\ req'[r].pc = "error" /\ llm' = llm
      BY <1>1, <2>1, GotoIs
    <2>2. ASSUME GotoSeeing(r, "stored", "no row"), llm' = llm
          PROVE  Only(r) /\ req'[r].pc = "stored" /\ req'[r].saw = "no row" /\ llm' = llm
      BY <1>1, <2>2, GotoSeeingIs
    <2>3. ASSUME Goto(r, "stored"), llm' = Wrote(r)
          PROVE  Only(r) /\ req'[r].pc = "stored" /\ req'[r].saw # "no row" /\ llm' = Wrote(r)
      <3>1. Only(r) /\ req'[r].pc = "stored" /\ req'[r].saw = req[r].saw
        BY <1>1, <2>3, GotoIs
      <3> QED
        BY <1>2, <2>3, <3>1
    <2>4. CASE StoreLlmKey(r)
      <3>1. r.op = "put_llm_key" /\ Wrote(r) = r.arg
        BY <2>4 DEF StoreLlmKey, Wrote
      <3>2. \/ Goto(r, "error") /\ llm' = llm
            \/ GotoSeeing(r, "stored", "no row") /\ llm' = llm
            \/ Goto(r, "stored") /\ llm' = r.arg
        BY <2>4 DEF StoreLlmKey
      <3> QED
        BY <2>1, <2>2, <2>3, <3>1, <3>2
    <2>5. CASE DeleteLlmKey(r)
      <3>1. Goto(r, "stored") /\ llm' = None /\ Wrote(r) = None
        BY <2>5 DEF DeleteLlmKey, Wrote
      <3> QED
        BY <2>3, <3>1
    <2> QED
      BY <2>4, <2>5
  <1>4. \A q \in cast : FoundRow(q)'
    BY <1>3 DEF Only, FoundRow, SettingInv
  <1>5. /\ \A q \in cast : q # r => \A i : Owes(q, i)' <=> Owes(q, i)
        /\ \A i : ~Owes(r, i)
    BY <1>1, <1>3 DEF Only, Owes
  <1>6. CASE req'[r].pc = "error"
    <2>1. llm' = llm /\ current' = current
      BY <1>3, <1>6 DEF Record
    <2>2. \A q \in cast : \A i : Owes(q, i)' <=> Owes(q, i)
      BY <1>5, <1>6 DEF Owes
    <2>3. ASSUME NEW i \in current' PROVE Agrees(i)'
      BY <1>1, <2>1, <2>2, <2>3, StillAgrees DEF SettingInv
    <2> QED
      BY <1>1, <1>4, <2>1, <2>3 DEF SettingInv
  <1>7. CASE req'[r].pc = "stored" /\ req'[r].saw = "no row"
    <2>1. llm' = llm /\ current' = current \ {r.at}
      BY <1>1, <1>3, <1>7 DEF Record, At
    <2>2. ASSUME NEW i \in current' PROVE Agrees(i)'
      <3>1. i \in current /\ i # r.at
        BY <2>1, <2>2
      <3>2. \A q \in cast : Owes(q, i)' <=> Owes(q, i)
        BY <1>5, <3>1 DEF Owes
      <3> QED
        BY <1>1, <2>1, <3>1, <3>2, StillAgrees DEF SettingInv
    <2> QED
      BY <1>1, <1>4, <2>1, <2>2 DEF SettingInv
  <1>8. CASE req'[r].pc = "stored" /\ req'[r].saw # "no row"
    <2>1. /\ llm' = Wrote(r)
          /\ current' = {r.at} \ {q.at : q \in {p \in cast \ {r} : p.op \in LlmOps /\ req[p].pc = "stored"}}
      BY <1>1, <1>3, <1>8 DEF Record, At
    <2>2. ASSUME NEW i \in current' PROVE Agrees(i)'
      <3>1. i = r.at /\ \A q \in cast : q # r => ~Owes(q, i)
        BY <2>1, <2>2 DEF Owes
      <3>2. Owes(r, i)' /\ \A q \in cast : q # r => ~Owes(q, i)'
        BY <1>1, <1>5, <1>8, <3>1 DEF Owes
      <3>3. Wrote(r)' = llm'
        BY <2>1 DEF Wrote
      <3> QED
        BY <1>1, <3>2, <3>3 DEF Agrees
    <2> QED
      BY <1>1, <1>4, <2>1, <2>2 DEF SettingInv
  <1> QED
    BY <1>3, <1>6, <1>7, <1>8

LEMMA ApplySettingSets ==
    ASSUME SettingInv, Shape, NEW r \in cast, Routed(r), WellFormed(r), ApplySetting(r), Record(r)
    PROVE  SettingInv'
  <1>1. /\ req[r].pc = "stored" /\ cast' = cast /\ llm' = llm /\ env' = env
        /\ setting' = [setting EXCEPT ![r.at] = Wrote(r)]
    BY DEF ApplySetting, At, Wrote
  <1>2. r.op \in LlmOps /\ r.at \in Instances
    BY <1>1 DEF Routed, WellFormed
  <1>3. current' = current
    BY <1>1 DEF Record, At
  <1>4. PICK pc \in {"error", "ok"} : Goto(r, pc)
    BY DEF ApplySetting
  <1>5. Only(r) /\ req'[r].pc = pc
    BY <1>1, <1>4, GotoIs
  <1>6. \A q \in cast : FoundRow(q)'
    BY <1>4, <1>5 DEF Only, FoundRow, SettingInv
  <1>7. /\ \A q \in cast : q # r => \A i : Owes(q, i)' <=> Owes(q, i)
        /\ \A i : ~Owes(r, i)' /\ (Owes(r, i) <=> i = r.at)
    BY <1>1, <1>2, <1>4, <1>5 DEF Only, Owes
  <1>8. /\ setting' = [i \in Instances |-> setting'[i]] /\ setting'[r.at] = Wrote(r)
        /\ \A i \in Instances : i # r.at => setting'[i] = setting[i]
    BY <1>1, <1>2 DEF SettingInv
  <1>9. ASSUME NEW i \in current' PROVE Agrees(i)'
    <2>1. i \in Instances /\ Agrees(i)
      BY <1>3, <1>9 DEF SettingInv
    <2>2. CASE i = r.at
      <3>1. Wrote(r) = llm /\ \A q \in cast : Owes(q, i) => q = r
        BY <1>7, <2>1, <2>2 DEF Agrees
      <3>2. Follows(i)'
        BY <1>1, <1>8, <2>2, <3>1 DEF Follows
      <3>3. \A q \in cast : ~Owes(q, i)'
        BY <1>7, <3>1
      <3> QED
        BY <1>1, <3>2, <3>3 DEF Agrees
    <2>3. CASE i # r.at
      <3>1. \A q \in cast : Owes(q, i)' <=> Owes(q, i)
        BY <1>7, <2>3
      <3> QED
        BY <1>1, <1>8, <2>1, <2>3, <3>1, StillAgrees
    <2> QED
      BY <2>2, <2>3
  <1> QED
    BY <1>1, <1>3, <1>6, <1>8, <1>9 DEF SettingInv

\* A request that has nothing to do with provider keys, or is not that far.
LEMMA OthersSet ==
    ASSUME SettingInv, NEW r \in cast, Only(r), Routed(r), Routed(r)', Record(r), UNCHANGED keyVars,
           r.op \in LlmOps => req[r].pc \in {"idle", "auth"} /\ req'[r].pc \in {"auth", "role", "refused"}
    PROVE  SettingInv'
  <1>1. cast' = cast /\ llm' = llm /\ env' = env /\ setting' = setting
    BY DEF Only, keyVars
  <1>2. current' = current
    BY DEF Record, At
  <1>3. \A q \in cast : \A i : Owes(q, i)' <=> Owes(q, i)
    BY DEF Only, Owes
  <1>4. \A q \in cast : FoundRow(q)'
    BY DEF Only, FoundRow, SettingInv
  <1>5. ASSUME NEW i \in current' PROVE Agrees(i)'
    BY <1>1, <1>2, <1>3, <1>5, StillAgrees DEF SettingInv
  <1> QED
    BY <1>1, <1>2, <1>4, <1>5 DEF SettingInv

LEMMA RequestSets ==
    ASSUME Known, SettingInv, NEW r, RequestStep(r)
    PROVE  SettingInv'
  <1>1. /\ r \in cast /\ Shape /\ Routed(r) /\ WellFormed(r) /\ Only(r) /\ Routed(r)'
    BY Stepping DEF Known, RequestOK, Goes
  <1>2. Record(r)
    BY DEF RequestStep
  <1>3. CASE KeyStep(r)
    BY <1>1, <1>2, <1>3, FindLlmKeySets, StoreLlmKeySets, ApplySettingSets DEF KeyStep
  <1>4. CASE ~KeyStep(r) /\ r.op \notin LlmOps
    <2>1. UNCHANGED keyVars
      BY <1>4 DEF RequestStep
    <2> QED
      BY <1>1, <1>2, <1>4, <2>1, OthersSet
  <1>5. CASE ~KeyStep(r) /\ r.op \in LlmOps
    <2>1. (Authenticate(r) \/ ReadRole(r)) /\ UNCHANGED keyVars
      BY <1>1, <1>5, LlmSteps
    <2>2. CASE Authenticate(r)
      <3>1. PICK pc \in {"auth", "refused"} : Goto(r, pc)
        BY <2>2 DEF Authenticate
      <3>2. req[r].pc = "idle" /\ req'[r].pc = pc
        BY <1>1, <2>2, <3>1, GotoIs DEF Authenticate, At, Only
      <3> QED
        BY <1>1, <1>2, <2>1, <3>2, OthersSet
    <2>3. CASE ReadRole(r)
      <3>1. PICK role : role = IF Present(r.by) THEN users[r.by].role ELSE "member"
        OBVIOUS
      <3>2. PICK pc : pc = IF r.op \in AdminOps /\ role # "admin" THEN "refused" ELSE "role"
        OBVIOUS
      <3>3. req' = [req EXCEPT ![r].role = role, ![r].pc = pc] /\ req[r].pc = "auth" /\ cast' = cast
        BY <2>3, <3>1, <3>2, Zenon DEF ReadRole, At
      <3>4. req'[r].pc = pc
        BY <1>1, <3>3, RoleReadIs
      <3> QED
        BY <1>1, <1>2, <2>1, <3>2, <3>3, <3>4, OthersSet
    <2> QED
      BY <2>1, <2>2, <2>3
  <1> QED
    BY <1>3, <1>4, <1>5

LEMMA RestartSets ==
    ASSUME Known, SettingInv, NEW i \in Instances, Restart(i)
    PROVE  SettingInv'
  <1>1. /\ Boot(i) /\ current' = current \cup {i} /\ llm' = llm /\ env' = env
        /\ setting' = [setting EXCEPT ![i] = Synced]
    BY DEF Restart, Boot
  <1>2. /\ setting' = [j \in Instances |-> setting'[j]] /\ setting'[i] = Synced
        /\ \A j \in Instances : j # i => setting'[j] = setting[j]
    BY <1>1 DEF SettingInv
  <1>3. /\ cast' = cast
        /\ \A q \in cast : req'[q] = req[q] \/ (req'[q].pc = "dead" /\ q.op \in LlmOps /\ q.at = i)
    BY <1>1, BootIs DEF Known
  <1>4. \A q \in cast : FoundRow(q)'
    BY <1>3 DEF FoundRow, SettingInv
  <1>5. \A q \in cast : ~Owes(q, i)'
    <2>1. TAKE q \in cast
    <2>2. CASE req'[q] = req[q] /\ Owes(q, i)
      <3>1. req[q].pc \notin Final \cup {"idle"} /\ q.op \in LlmOps /\ q.at = i
        BY <2>2 DEF Owes, Final
      <3>2. PICK dead : dead = [req[q] EXCEPT !.pc = "dead"]
        OBVIOUS
      <3>3. dead.pc = "dead"
        BY <3>2 DEF Known, Shape, Shaped, Fields
      <3>4. req'[q] = dead
        BY <1>1, <3>1, <3>2 DEF Boot
      <3> QED
        BY <3>3, <3>4 DEF Owes
    <2>3. CASE ~(req'[q] = req[q] /\ Owes(q, i))
      BY <1>3, <2>3 DEF Owes
    <2> QED
      BY <2>2, <2>3
  <1>6. \A q \in cast : \A j : j # i => (Owes(q, j)' <=> Owes(q, j))
    BY <1>3 DEF Owes
  <1>7. Follows(i)'
    BY <1>1, <1>2 DEF Synced, Follows
  <1>8. ASSUME NEW j \in current' PROVE Agrees(j)'
    <2>1. CASE j = i
      BY <1>3, <1>5, <1>7, <2>1 DEF Agrees
    <2>2. CASE j # i
      <3>1. j \in current /\ j \in Instances /\ Agrees(j)
        BY <1>1, <1>8, <2>2 DEF SettingInv
      <3>2. \A q \in cast : Owes(q, j)' <=> Owes(q, j)
        BY <1>6, <2>2
      <3> QED
        BY <1>1, <1>2, <1>3, <2>2, <3>1, <3>2, StillAgrees
    <2> QED
      BY <2>1, <2>2
  <1>9. current' \subseteq Instances
    BY <1>1 DEF SettingInv
  <1> QED
    BY <1>2, <1>3, <1>4, <1>8, <1>9 DEF SettingInv

LEMMA InitSettings == Init => SettingInv
  <1> SUFFICES ASSUME Init PROVE SettingInv
    OBVIOUS
  <1>1. setting = [i \in Instances |-> env] /\ current = Instances /\ llm = None
    BY DEF Init
  <1>2. \A r \in cast : req[r].pc = "idle"
    BY DEF Init
  <1>3. \A r \in cast : FoundRow(r) /\ \A i : ~Owes(r, i)
    BY <1>2 DEF FoundRow, Owes
  <1>4. \A i \in Instances : Follows(i)
    BY <1>1 DEF Follows
  <1> QED
    BY <1>1, <1>3, <1>4 DEF SettingInv, Agrees

LEMMA StepSettings == Known /\ SettingInv /\ [Next]_vars => SettingInv'
  <1> SUFFICES ASSUME Known, SettingInv, [Next]_vars PROVE SettingInv'
    OBVIOUS
  <1>1. ASSUME UNCHANGED <<cast, req, llm, env, setting, current>> PROVE SettingInv'
    <2>1. \A q \in cast : (FoundRow(q)' <=> FoundRow(q)) /\ \A i : Owes(q, i)' <=> Owes(q, i)
      BY <1>1 DEF FoundRow, Owes
    <2>2. \A i \in current' : Agrees(i)'
      BY <1>1, <2>1, StillAgrees DEF SettingInv
    <2> QED
      BY <1>1, <2>1, <2>2 DEF SettingInv
  <1>2. CASE \E s \in DOMAIN sessions : Expire(s) /\ UNCHANGED <<keyVars, histVars>>
    BY <1>1, <1>2 DEF Expire, keyVars, histVars
  <1>3. CASE UNCHANGED vars
    BY <1>1, <1>3 DEF vars, accountVars, keyVars, histVars
  <1> QED
    BY <1>2, <1>3, RequestSets, RestartSets DEF Next

\* Whenever no write of a provider key is half done, the instance that wrote last
\* and every instance that has restarted since use the key that is stored, or the
\* one their environment gives (admin_llm_keys.py, key_sync.py).
THEOREM SettingsAgreeWithTheStore == Spec => []SettingsFollowTheStore
  <1>1. ASSUME SettingInv, \A r \in cast : r.op \in LlmOps => req[r].pc # "stored", NEW i \in current
        PROVE  setting[i] = llm \/ (env # None /\ setting[i] = env)
    <2>1. \A r \in cast : ~Owes(r, i)
      BY <1>1 DEF Owes
    <2> QED
      BY <1>1, <2>1 DEF SettingInv, Agrees, Follows
  <1>2. SettingInv => SettingsFollowTheStore
    BY <1>1 DEF SettingsFollowTheStore
  <1> QED
    BY <1>2, InitSettings, AlwaysKnown, StepSettings, PTL DEF Spec

-----------------------------------------------------------------------------
(* Types.                                                                  *)

Typed ==
    /\ tokens \subseteq [type : TokenTypes, sub : 1..MaxUsers]
    /\ assigned \subseteq AssignmentRow
    /\ started \subseteq {r.id : r \in cast} \X (DOMAIN wfs)
    /\ answers \subseteq [by : {r.id : r \in cast}, to : Nat, applied : BOOLEAN]
    /\ KeyTypeOK

LEMMA KnownIsTyped == Known /\ Typed => TypeOK
  BY DEF Known, Shape, Typed, TypeOK, TablesWell, UsersOK, KeysOK, WfsOK, SessionsWell, SessionsOK,
     AccountTypeOK, StoreTypeOK, BuilderTypeOK

LEMMA PairsTyped ==
    ASSUME NEW u \in 1..MaxUsers
    PROVE  Pair(u) \subseteq [type : TokenTypes, sub : 1..MaxUsers]
  BY DEF Pair, TokenTypes

LEMMA RequestTokens ==
    ASSUME UsersOK, Typed, NEW r \in cast, RequestStep(r)
    PROVE  tokens' \subseteq [type : TokenTypes, sub : 1..MaxUsers]
  <1> DEFINE Tokens == [type : TokenTypes, sub : 1..MaxUsers]
  <1>1. tokens \subseteq Tokens /\ \A u : Present(u) => u \in 1..MaxUsers
    BY Bounds DEF Typed, UsersOK, Present
  <1>2. ASSUME NEW u \in 1..MaxUsers, tokens' = tokens \cup Pair(u) PROVE tokens' \subseteq Tokens
    BY <1>1, <1>2, PairsTyped
  <1>3. CASE UNCHANGED tokens
    BY <1>1, <1>3
  <1>4. CASE FindAccount(r)
    BY <1>1, <1>2, <1>4 DEF FindAccount, UsersWith
  <1>5. CASE CreateAccount(r)
    <2>1. Len(users) + 1 \in 1..MaxUsers
      BY <1>5, Bounds DEF CreateAccount, UsersOK
    <2>2. tokens' = tokens \/ tokens' = tokens \cup Pair(Len(users) + 1)
      BY <1>5 DEF CreateAccount
    <2> QED
      BY <1>1, <1>2, <2>1, <2>2
  <1>6. CASE Login(r)
    <2>1. UNCHANGED tokens \/ \E u \in UsersWith(r.email) :
             \/ tokens' = tokens \cup {[type |-> "password_change", sub |-> u]}
             \/ tokens' = tokens \cup Pair(u)
      BY <1>6 DEF Login
    <2>2. ASSUME NEW u \in UsersWith(r.email), tokens' = tokens \cup {[type |-> "password_change", sub |-> u]}
          PROVE  tokens' \subseteq Tokens
      BY <1>1, <2>2 DEF UsersWith, TokenTypes
    <2> QED
      BY <1>1, <1>2, <2>1, <2>2 DEF UsersWith
  <1>7. CASE Refresh(r)
    BY <1>1, <1>2, <1>7 DEF Refresh, MayCall
  <1>8. CASE ForgotPassword(r)
    <2>1. PICK mailed \in SUBSET {[type |-> "password_change", sub |-> u] :
                                    u \in {v \in UsersWith(r.email) : users[v].password # None}} :
            tokens' = tokens \cup mailed
      BY <1>8 DEF ForgotPassword
    <2>2. mailed \subseteq Tokens
      BY <1>1, <2>1 DEF UsersWith, TokenTypes
    <2> QED
      BY <1>1, <2>1, <2>2
  <1>9. ASSUME tokens' # tokens
        PROVE  FindAccount(r) \/ CreateAccount(r) \/ Login(r) \/ Refresh(r) \/ ForgotPassword(r)
    <2>1. AccountStep(r) => FindAccount(r) \/ CreateAccount(r) \/ Login(r) \/ Refresh(r) \/ ForgotPassword(r)
      BY <1>9 DEF AccountStep, Authenticate, ReadRole, FindKey, FindKeyOwner, ChangeAuthenticate, ChangeVerify,
         ResetVerify, ChangePassword, ResetPassword, StorePassword, CreateKey, RevokeOwnKey, RevokeUsersKey,
         RevokeRead, RevokeWrite, FindTarget, DeactivateKeys, ChangeRole, Deactivate, Reactivate,
         AdminResetPassword, AdminUpdate
    <2>2. ~StoreStep(r)
      BY <1>9 DEF StoreStep, FindReceiver, ReadWorkflow, ReadAssignment, FindSlug, CreateWorkflow, Update,
         UpdateFlags, AssignOwner, Delete, Grant, Revoke, Start, DeleteAccountRead, DeleteAccountWorkflows,
         DeleteAccountAssignments, DeleteAccountUser
    <2>3. ~BuilderStep(r)
      BY <1>9 DEF BuilderStep, FindSession, OpenSession, ModelRefused, TurnStart, Diagnosed, Planned,
         Built, ModelRaises, TooLarge, Persist
    <2>4. ~KeyStep(r)
      BY <1>9 DEF KeyStep, FindLlmKey, StoreLlmKey, DeleteLlmKey, ApplySetting
    <2> QED
      BY <2>1, <2>2, <2>3, <2>4 DEF RequestStep
  <1> QED
    BY <1>3, <1>4, <1>5, <1>6, <1>7, <1>8, <1>9

LEMMA RequestShares ==
    ASSUME UsersOK, WfsOK, Typed, NEW r \in cast, Knows(r), RequestStep(r)
    PROVE  assigned' \subseteq AssignmentRow
  <1>1. CASE assigned' \subseteq assigned
    BY <1>1 DEF Typed
  <1>2. CASE Grant(r)
    <2>1. req[r].pc = "receiver" /\ r.op = "grant"
      BY <1>2 DEF Grant, At
    <2>2. r.on \in 1..MaxUsers /\ r.by \in 1..MaxUsers
      BY <2>1, Bounds DEF Knows, UsersOK, Signed, RoleOps, Early
    <2>3. PICK new : new = [wf |-> r.wf, user |-> r.on, by |-> r.by]
      OBVIOUS
    <2>4. assigned' = assigned \/ (Stored(r.wf) /\ assigned' = assigned \cup {new})
      BY <1>2, <2>3 DEF Grant
    <2>5. Stored(r.wf) => new \in AssignmentRow
      BY <2>2, <2>3, Bounds DEF Stored, WfsOK, AssignmentRow
    <2> QED
      BY <2>4, <2>5 DEF Typed
  <1>3. ASSUME ~(assigned' \subseteq assigned) PROVE Grant(r)
    <2>1. ~UNCHANGED assigned
      BY <1>3
    <2>2. StoreStep(r) => Grant(r)
      BY <1>3, <2>1 DEF StoreStep, FindReceiver, ReadWorkflow, ReadAssignment, FindSlug, CreateWorkflow, Update,
         UpdateFlags, AssignOwner, Delete, Revoke, Start, DeleteAccountRead, DeleteAccountWorkflows,
         DeleteAccountAssignments, DeleteAccountUser, storeVars
    <2>3. ~BuilderStep(r)
      BY <2>1 DEF BuilderStep, FindSession, OpenSession, ModelRefused, TurnStart, Diagnosed, Planned,
         Built, ModelRaises, TooLarge, Persist, storeVars
    <2> QED
      BY <2>1, <2>2, <2>3 DEF RequestStep, storeVars
  <1> QED
    BY <1>1, <1>2, <1>3

LEMMA RequestStarts ==
    ASSUME WfsOK, WfsKept, Typed, NEW r \in cast, cast' = cast, RequestStep(r)
    PROVE  started' \subseteq {q.id : q \in cast'} \X (DOMAIN wfs')
  <1>1. started \subseteq {q.id : q \in cast'} \X (DOMAIN wfs')
    <2>1. DOMAIN wfs \subseteq DOMAIN wfs'
      BY DEF WfsOK, WfsKept
    <2> QED
      BY <2>1 DEF Typed
  <1>2. CASE Start(r)
    <2>1. PICK w : w = IF r.op = "run" THEN r.wf ELSE req[r].saw
      OBVIOUS
    <2>2. started' = started \/ (Stored(w) /\ started' = started \cup {<<r.id, w>>})
      BY <1>2, <2>1 DEF Start
    <2>3. Stored(w) => <<r.id, w>> \in {q.id : q \in cast'} \X (DOMAIN wfs')
      BY DEF Stored, WfsOK, WfsKept
    <2> QED
      BY <1>1, <2>2, <2>3
  <1>3. ASSUME started' # started PROVE Start(r)
    <2>1. StoreStep(r) => Start(r)
      BY <1>3 DEF StoreStep, FindReceiver, ReadWorkflow, ReadAssignment, FindSlug, CreateWorkflow, Update,
         UpdateFlags, AssignOwner, Delete, Grant, Revoke, DeleteAccountRead, DeleteAccountWorkflows,
         DeleteAccountAssignments, DeleteAccountUser, storeVars
    <2>2. ~BuilderStep(r)
      BY <1>3 DEF BuilderStep, FindSession, OpenSession, ModelRefused, TurnStart, Diagnosed, Planned,
         Built, ModelRaises, TooLarge, Persist, storeVars
    <2> QED
      BY <1>3, <2>1, <2>2 DEF RequestStep, storeVars
  <1> QED
    BY <1>1, <1>2, <1>3

LEMMA RequestReplies ==
    ASSUME SessionsWell, Typed, NEW r \in cast, cast' = cast, TurnOK(r), RequestStep(r)
    PROVE  answers' \subseteq [by : {q.id : q \in cast'}, to : Nat, applied : BOOLEAN]
  <1>1. answers \subseteq [by : {q.id : q \in cast'}, to : Nat, applied : BOOLEAN]
    BY DEF Typed
  <1>2. CASE TurnStart(r)
    <2>1. req[r].pc \in Turns
      BY <1>2 DEF TurnStart, At, Turns
    <2>2. PICK s : s = req[r].saw.session
      OBVIOUS
    <2>3. s \in DOMAIN sessions /\ sessions[s] \in Session
      BY <2>1, <2>2, InTurn
    <2>4. PICK applied : applied = (r.arg = "approve")
      OBVIOUS
    <2>5. applied \in BOOLEAN
      BY <2>4
    <2>6. UNCHANGED answers \/ \E p \in sessions[s].patch :
            answers' = answers \cup {[by |-> r.id, to |-> p.from, applied |-> r.arg = "approve"]}
      BY <1>2, <2>2 DEF TurnStart, builderVars
    <2>7. ASSUME NEW p \in sessions[s].patch
          PROVE  [by |-> r.id, to |-> p.from, applied |-> r.arg = "approve"]
                    \in [by : {q.id : q \in cast'}, to : Nat, applied : BOOLEAN]
      <3>1. p.from \in Nat
        BY <2>3, <2>7 DEF Session, Patch
      <3>2. [by |-> r.id, to |-> p.from, applied |-> applied]
                    \in [by : {q.id : q \in cast'}, to : Nat, applied : BOOLEAN]
        BY <2>5, <3>1
      <3> QED
        BY <2>4, <3>2
    <2> QED
      BY <1>1, <2>6, <2>7
  <1>3. ASSUME answers' # answers PROVE TurnStart(r)
    <2>1. BuilderStep(r) => TurnStart(r)
      BY <1>3 DEF BuilderStep, FindSession, OpenSession, ModelRefused, Diagnosed, Planned,
         Built, ModelRaises, TooLarge, Persist, builderVars
    <2> QED
      BY <1>3, <2>1 DEF RequestStep, builderVars
  <1> QED
    BY <1>1, <1>2, <1>3

LEMMA RequestKeyTypes ==
    ASSUME Typed, NEW r \in cast, WellFormed(r), RequestStep(r)
    PROVE  KeyTypeOK'
  <1>1. KeyTypeOK
    BY DEF Typed
  <1>2. CASE UNCHANGED keyVars
    BY <1>1, <1>2 DEF KeyTypeOK, keyVars
  <1>3. CASE FindLlmKey(r)
    BY <1>2, <1>3 DEF FindLlmKey
  <1>4. CASE StoreLlmKey(r)
    <2>1. r.arg \in KeyValues
      BY <1>4 DEF StoreLlmKey, WellFormed
    <2> QED
      BY <1>1, <1>4, <2>1 DEF StoreLlmKey, KeyTypeOK
  <1>5. CASE DeleteLlmKey(r)
    BY <1>1, <1>5 DEF DeleteLlmKey, KeyTypeOK, KeyValues
  <1>6. CASE ApplySetting(r)
    <2>1. PICK key : key = IF r.op = "put_llm_key" THEN r.arg ELSE None
      OBVIOUS
    <2>2. key \in KeyValues
      BY <2>1 DEF WellFormed, KeyValues
    <2>3. setting' = [setting EXCEPT ![r.at] = key] /\ UNCHANGED <<llm, env, boots>>
      BY <1>6, <2>1 DEF ApplySetting
    <2> QED
      BY <1>1, <2>2, <2>3 DEF KeyTypeOK
  <1> QED
    BY <1>2, <1>3, <1>4, <1>5, <1>6 DEF RequestStep, KeyStep

LEMMA InitTyped == Init => Typed
  <1> SUFFICES ASSUME Init PROVE Typed
    OBVIOUS
  <1>1. tokens \subseteq [type : TokenTypes, sub : 1..MaxUsers]
    <2>1. \A u \in DOMAIN SeedUsers : u \in 1..MaxUsers
      BY SeedAssumption, Bounds
    <2>2. \A u \in DOMAIN SeedUsers : Pair(u) \subseteq [type : TokenTypes, sub : 1..MaxUsers]
      BY <2>1, PairsTyped
    <2>3. tokens = UNION {Pair(u) : u \in DOMAIN SeedUsers}
      BY DEF Init
    <2> QED
      BY <2>2, <2>3
  <1>2. assigned \subseteq AssignmentRow /\ started = {} /\ answers = {}
    BY SeedAssumption DEF Init
  <1>3. KeyTypeOK
    <2>1. env \in {None, "k3"} /\ llm = None /\ boots = 0 /\ setting = [i \in Instances |-> env]
      BY DEF Init
    <2>2. None \in KeyValues /\ env \in KeyValues
      BY <2>1 DEF KeyValues
    <2> QED
      BY <2>1, <2>2, Bounds DEF KeyTypeOK
  <1> QED
    BY <1>1, <1>2, <1>3 DEF Typed

LEMMA StepTyped == Known /\ Typed /\ [Next]_vars => Typed'
  <1> SUFFICES ASSUME Known, Typed, [Next]_vars PROVE Typed'
    OBVIOUS
  <1>1. ASSUME UNCHANGED <<cast, tokens, assigned, started, wfs, answers>>, KeyTypeOK' PROVE Typed'
    BY <1>1 DEF Typed
  <1>2. ASSUME NEW r, RequestStep(r) PROVE Typed'
    <2>1. /\ r \in cast /\ WellFormed(r) /\ TablesWell /\ RequestOK(r) /\ TablesKept /\ cast' = cast
      BY <1>2, Stepping DEF Known, Goes, Only
    <2>2. UsersOK /\ WfsOK /\ WfsKept /\ SessionsWell /\ Knows(r) /\ TurnOK(r)
      BY <2>1 DEF TablesWell, TablesKept, RequestOK
    <2> QED
      BY <1>2, <2>1, <2>2, RequestTokens, RequestShares, RequestStarts, RequestReplies, RequestKeyTypes
         DEF Typed
  <1>3. ASSUME NEW i \in Instances, Restart(i) PROVE Typed'
    <2>1. UNCHANGED <<cast, tokens, assigned, started, wfs, answers>>
      BY <1>3 DEF Restart, Boot, storeVars, builderVars
    <2>2. boots < MaxBoots /\ boots' = boots + 1 /\ setting' = [setting EXCEPT ![i] = Synced] /\ UNCHANGED <<llm, env>>
      BY <1>3 DEF Restart, Boot
    <2>3. Synced \in KeyValues
      BY DEF Synced, Typed, KeyTypeOK, KeyValues
    <2>4. KeyTypeOK'
      BY <2>2, <2>3, Bounds DEF Typed, KeyTypeOK
    <2> QED
      BY <1>1, <2>1, <2>4
  <1>4. CASE \E s \in DOMAIN sessions : Expire(s) /\ UNCHANGED <<keyVars, histVars>>
    <2>1. UNCHANGED <<cast, tokens, assigned, started, wfs, answers, keyVars>>
      BY <1>4 DEF Expire, storeVars
    <2> QED
      BY <1>1, <2>1 DEF Typed, KeyTypeOK, keyVars
  <1>5. CASE UNCHANGED vars
    <2>1. UNCHANGED <<cast, tokens, assigned, started, wfs, answers, keyVars>>
      BY <1>5 DEF vars, accountVars, storeVars, builderVars
    <2> QED
      BY <1>1, <2>1 DEF Typed, KeyTypeOK, keyVars
  <1> QED
    BY <1>2, <1>3, <1>4, <1>5 DEF Next

\* Every table holds rows of its schema, tokens and assignments name rows that
\* were there, answers and runs belong to requests, and no secret at rest is in
\* clear.
THEOREM TablesStayTyped == Spec => []TypeOK
  BY KnownIsTyped, InitTyped, AlwaysKnown, StepTyped, PTL DEF Spec
=============================================================================
