--------------------------- MODULE WorkflowStore ---------------------------
(***************************************************************************)
(* The stored workflows: src/api/workflows.py (create, read, save,         *)
(* publish, delete, transfer, share), the authorisation part of            *)
(* create_execution and run_external, and the secret fields that           *)
(* src/security/encryption.py encrypts at rest and masks in responses.     *)
(*                                                                         *)
(* A workflow has one node that carries a secret (a Jira, Confluence or    *)
(* vector-db credential, or an HTTP header); whether its {{references}}    *)
(* all resolve is one Boolean.                                             *)
(***************************************************************************)
EXTENDS Accounts

CONSTANTS
    MaxWorkflows  \* bound on the workflow rows ever inserted

VARIABLES
    wfs,          \* the workflows table: row ids are positions
    assigned,     \* the workflow_assignments table
    started       \* executions started: {<<request, workflow>>}

storeVars == <<wfs, assigned, started>>

Secrets == {"s0", "s1", "s2"}
NoSecret == [form |-> "none", of |-> None]
Marker == [form |-> "marker", of |-> None]
Plain(s) == [form |-> "plain", of |-> s]
Enc(s) == [form |-> "enc", of |-> s]
\* A stored secret field, and one that a client sends.
StoredSecret == {NoSecret, Marker} \cup {Enc(s) : s \in Secrets}
SentSecret == {NoSecret, Marker} \cup {Plain(s) : s \in Secrets}

Slugs == {"alpha", "beta"}
\* schema.prisma, model Workflow.
WorkflowRow == [owner : 1..MaxUsers, public : BOOLEAN, production : BOOLEAN,
                slug : Slugs \cup {None}, node : {"n1", "n2"},
                secret : StoredSecret, resolves : BOOLEAN, gone : BOOLEAN]

\* schema.prisma, model WorkflowAssignment: unique per workflow and user.
AssignmentRow == [wf : 1..MaxWorkflows, user : 1..MaxUsers, by : 1..MaxUsers]
HasAssignment(w, u) == \E a \in assigned : a.wf = w /\ a.user = u

Stored(w) == w \in DOMAIN wfs /\ ~wfs[w].gone
\* externalSlug is unique: would giving it to w collide?
SlugTaken(slug, w) == slug # None /\ \E v \in DOMAIN wfs \ {w} : Stored(v) /\ wfs[v].slug = slug

-----------------------------------------------------------------------------
(* Secret fields.                                                          *)

\* _redact_jira_tokens and its three siblings: what a response shows.
Redact(secret) == IF secret.form = "none" THEN NoSecret ELSE Marker

EncryptMarker(put, hasPrior, prior) ==
    IF put.secret.form = "plain" THEN Enc(put.secret.of) ELSE put.secret

\* _encrypt_jira_tokens and its three siblings: the marker keeps what the
\* given row stores under the same node id.  Where it stores nothing there a token
\* field is emptied, while a header keeps the literal marker (prior.get(k, v)).
Encrypt(put, hasPrior, prior) ==
    CASE put.secret.form = "plain" -> Enc(put.secret.of)
      [] put.secret.form = "marker" ->
           IF hasPrior /\ prior.node = put.node /\ prior.secret # NoSecret THEN prior.secret
           ELSE IF put.header THEN Marker ELSE NoSecret
      [] OTHER -> put.secret

-----------------------------------------------------------------------------
(* Reads that authorise.                                                   *)

Admin(r) == req[r].role = "admin"

\* Who passes on the row alone; the rest must hold an assignment or leave.
RowAdmits(r, row) ==
    \/ Admin(r)
    \/ row.owner = r.by
    \/ r.op \in {"get", "run"} /\ row.public

\* grant, owner transfer: the user who is to receive it must exist.
FindReceiver(r) ==
    /\ \/ At(r, "role") /\ r.op = "owner"
       \/ At(r, "may") /\ r.op = "grant"
    /\ Goto(r, IF Present(r.on) THEN "receiver" ELSE "refused")
    /\ UNCHANGED <<cast, users, keys, tokens, storeVars>>

\* The response that the client gets, secrets masked.
Answer(r, row) == GotoSeeing(r, "ok", [row EXCEPT !.secret = Redact(@)])

\* find_unique on the workflow, and the checks on it that follow at once.
ReadWorkflow(r) ==
    /\ \/ At(r, "role") /\ r.op \in (RoleOps \cup {"flags"}) \ {"build"}
       \/ At(r, "session") /\ r.op = "build"
       \/ At(r, "receiver") /\ r.op = "owner"
    /\ IF ~Stored(r.wf) THEN Goto(r, "refused")
       ELSE LET row == wfs[r.wf] IN
            IF RowAdmits(r, row) /\ r.op = "get" THEN Answer(r, row)
            ELSE GotoSeeing(r, CASE RowAdmits(r, row) -> "may"
                                 [] r.op \in {"get", "update", "build"} /\ ~RowAdmits(r, row) -> "assignee"
                                 [] OTHER -> "refused", row)
    /\ UNCHANGED <<cast, users, keys, tokens, storeVars>>

\* _has_assignment
ReadAssignment(r) ==
    /\ At(r, "assignee")
    /\ IF ~HasAssignment(r.wf, r.by) THEN Goto(r, "refused")
       ELSE IF r.op = "get" THEN Answer(r, req[r].saw) ELSE Goto(r, "may")
    /\ UNCHANGED <<cast, users, keys, tokens, storeVars>>

\* run_external: the production workflow that owns the slug, and whose key.
FindSlug(r) ==
    /\ At(r, "role")
    /\ r.op = "run_external"
    /\ LET found == {w \in DOMAIN wfs : /\ Stored(w) /\ wfs[w].slug = r.slug
                                        /\ wfs[w].production
                                        /\ \/ wfs[w].public
                                           \/ Admin(r)
                                           \/ wfs[w].owner = keys[r.key].user} IN
       IF found = {} THEN Goto(r, "refused")
       ELSE \E w \in found : GotoSeeing(r, "may", w)
    /\ UNCHANGED <<cast, users, keys, tokens, storeVars>>

-----------------------------------------------------------------------------
(* Writes.                                                                 *)

Changed(r, w, row) ==
    /\ wfs' = [wfs EXCEPT ![w] = row]
    /\ Goto(r, "ok")

\* create_workflow
CreateWorkflow(r) ==
    /\ At(r, "auth")
    /\ r.op = "create_workflow"
    /\ Len(wfs) < MaxWorkflows
    /\ wfs' = Append(wfs, [owner |-> r.by, public |-> r.put.public = "yes", production |-> FALSE,
                           slug |-> None, node |-> r.put.node,
                           secret |-> Encrypt(r.put, FALSE, [node |-> None]),
                           resolves |-> r.put.resolves, gone |-> FALSE])
    /\ Goto(r, "ok")
    /\ UNCHANGED <<cast, users, keys, tokens, assigned, started>>

\* isPublic as an administrator's flags give it, who may leave it out.
WithVisibility(put, row) ==
    [row EXCEPT !.public = CASE put.public = "yes" -> TRUE
                             [] put.public = "no" -> FALSE
                             [] OTHER -> row.public]

\* The part of the payload that publishes, on top of the saved row.
WithPublication(put, row) ==
    CASE put.publish = "yes" -> [row EXCEPT !.production = TRUE, !.slug = put.slug]
      [] put.publish = "no"  -> [row EXCEPT !.production = FALSE, !.slug = None]
      [] OTHER               -> row

\* _validate_slug and _reject_unknown_variable_references: a workflow is
\* published under a slug and with references that all resolve.
PublishRefused(publish, slug, resolves) == publish = "yes" /\ (slug = None \/ ~resolves)

\* update_workflow: everything the payload holds is written by id, isPublic as
\* false when it is left out.  Secrets that came back masked are taken from the
\* row the request read.
Update(r) ==
    LET put == r.put
        row == WithPublication(put, [wfs[r.wf] EXCEPT
                   !.node = put.node, !.resolves = put.resolves, !.public = put.public = "yes",
                   !.secret = Encrypt(put, TRUE, req[r].saw)]) IN
    /\ At(r, "may")
    /\ r.op = "update"
    /\ IF \/ PublishRefused(put.publish, put.slug, put.resolves)
          \/ Stored(r.wf) /\ SlugTaken(row.slug, r.wf)
       THEN Goto(r, "refused") /\ UNCHANGED wfs
       ELSE IF Stored(r.wf) THEN Changed(r, r.wf, row)
       ELSE Goto(r, "error") /\ UNCHANGED wfs
    /\ UNCHANGED <<cast, users, keys, tokens, assigned, started>>

FlagsRowKeepsSlug(put, saw, row) ==
    CASE put.publish = "yes" /\ put.slug = None -> [row EXCEPT !.production = TRUE]
      [] put.publish = "yes" /\ put.slug # None -> [row EXCEPT !.production = TRUE,
                                                               !.slug = put.slug]
      [] put.publish = "no"  -> [row EXCEPT !.production = FALSE, !.slug = None]
      [] OTHER -> row

\* admin_update_workflow_flags: the references checked are those of the row
\* it read, and so is the slug it falls back to; both columns are written.
SlugGiven(put, saw) == IF put.slug # None THEN put.slug ELSE saw.slug

FlagsRow(put, saw, row) ==
    CASE put.publish = "yes" -> [row EXCEPT !.production = TRUE, !.slug = SlugGiven(put, saw)]
      [] put.publish = "no"  -> [row EXCEPT !.production = FALSE, !.slug = None]
      [] OTHER -> [row EXCEPT !.slug = IF put.slug # None THEN put.slug ELSE row.slug]

UpdateFlags(r) ==
    LET put == r.put
        saw == req[r].saw
        row == FlagsRow(put, saw, WithVisibility(put, wfs[r.wf])) IN
    /\ At(r, "may")
    /\ r.op = "flags"
    /\ IF \/ PublishRefused(put.publish, SlugGiven(put, saw), saw.resolves)
          \/ Stored(r.wf) /\ SlugTaken(row.slug, r.wf)
       THEN Goto(r, "refused") /\ UNCHANGED wfs
       ELSE IF Stored(r.wf) THEN Changed(r, r.wf, row)
       ELSE Goto(r, "error") /\ UNCHANGED wfs
    /\ UNCHANGED <<cast, users, keys, tokens, assigned, started>>

\* assign_workflow_owner
AssignOwner(r) ==
    /\ At(r, "may")
    /\ r.op = "owner"
    /\ IF Stored(r.wf) THEN Changed(r, r.wf, [wfs[r.wf] EXCEPT !.owner = r.on])
       ELSE Goto(r, "error") /\ UNCHANGED wfs
    /\ UNCHANGED <<cast, users, keys, tokens, assigned, started>>

\* delete_workflow: assignments go with the row (onDelete: Cascade).
Delete(r) ==
    /\ At(r, "may")
    /\ r.op = "delete"
    /\ Changed(r, r.wf, [wfs[r.wf] EXCEPT !.gone = TRUE])
    /\ assigned' = {a \in assigned : a.wf # r.wf}
    /\ UNCHANGED <<cast, users, keys, tokens, started>>

\* grant_workflow_assignment: unique per workflow and user; the workflow is a
\* foreign key, the user is not.
Grant(r) ==
    /\ At(r, "receiver")
    /\ r.op = "grant"
    /\ IF ~Stored(r.wf) THEN Goto(r, "error") /\ UNCHANGED assigned
       ELSE IF HasAssignment(r.wf, r.on) THEN Goto(r, "refused") /\ UNCHANGED assigned
       ELSE Goto(r, "ok") /\ assigned' = assigned \cup {[wf |-> r.wf, user |-> r.on, by |-> r.by]}
    /\ UNCHANGED <<cast, users, keys, tokens, wfs, started>>

\* revoke_workflow_assignment
Revoke(r) ==
    /\ At(r, "may")
    /\ r.op = "revoke"
    /\ Goto(r, IF HasAssignment(r.wf, r.on) THEN "ok" ELSE "refused")
    /\ assigned' = {a \in assigned : a.wf # r.wf \/ a.user # r.on}
    /\ UNCHANGED <<cast, users, keys, tokens, wfs, started>>

\* create_execution and run_external go on to insert the execution row.
Start(r) ==
    LET w == IF r.op = "run" THEN r.wf ELSE req[r].saw IN
    /\ At(r, "may")
    /\ r.op \in {"run", "run_external"}
    /\ IF Stored(w) THEN Goto(r, "ok") /\ started' = started \cup {<<r.id, w>>}
       ELSE Goto(r, "error") /\ UNCHANGED started
    /\ UNCHANGED <<cast, users, keys, tokens, wfs, assigned>>

-----------------------------------------------------------------------------
(* delete_own_test_account: four groups of statements, one after another.  *)

DeleteAccountRead(r) ==
    /\ At(r, "auth")
    /\ r.op = "delete_account"
    /\ Goto(r, IF Present(r.by) /\ users[r.by].email = "cat" THEN "found" ELSE "refused")
    /\ UNCHANGED <<cast, users, keys, tokens, storeVars>>

DeleteAccountWorkflows(r) ==
    /\ At(r, "found")
    /\ r.op = "delete_account"
    /\ wfs' = [w \in DOMAIN wfs |-> IF wfs[w].owner = r.by
                                    THEN [wfs[w] EXCEPT !.gone = TRUE] ELSE wfs[w]]
    /\ assigned' = {a \in assigned : wfs[a.wf].owner # r.by}
    /\ Goto(r, "emptied")
    /\ UNCHANGED <<cast, users, keys, tokens, started>>

DeleteAccountAssignments(r) ==
    /\ At(r, "emptied")
    /\ assigned' = {a \in assigned : a.user # r.by /\ a.by # r.by}
    /\ Goto(r, "unshared")
    /\ UNCHANGED <<cast, users, keys, tokens, wfs, started>>

\* The user row; its API keys cascade.
DeleteAccountUser(r) ==
    /\ At(r, "unshared")
    /\ SetUser(r.by, [users[r.by] EXCEPT !.gone = TRUE])
    /\ keys' = [k \in DOMAIN keys |-> IF keys[k].user = r.by
                                      THEN [keys[k] EXCEPT !.revoked = TRUE] ELSE keys[k]]
    /\ Goto(r, "ok")
    /\ UNCHANGED <<cast, tokens, storeVars>>

StoreStep(r) ==
    \/ FindReceiver(r) \/ ReadWorkflow(r) \/ ReadAssignment(r) \/ FindSlug(r)
    \/ CreateWorkflow(r) \/ Update(r) \/ UpdateFlags(r) \/ AssignOwner(r)
    \/ Delete(r) \/ Grant(r) \/ Revoke(r) \/ Start(r)
    \/ DeleteAccountRead(r) \/ DeleteAccountWorkflows(r)
    \/ DeleteAccountAssignments(r) \/ DeleteAccountUser(r)

StoreTypeOK ==
    /\ wfs \in Seq(WorkflowRow) /\ Len(wfs) <= MaxWorkflows
    /\ assigned \subseteq AssignmentRow
    /\ started \subseteq {r.id : r \in cast} \X (DOMAIN wfs)
=============================================================================
