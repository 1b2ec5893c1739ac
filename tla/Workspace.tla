----------------------------- MODULE Workspace -----------------------------
(***************************************************************************)
(* Accounts, stored workflows, builder sessions and provider keys          *)
(* together: the requests of a cast interleave, and a role, a password, a  *)
(* key or a row that one of them has read may change before it writes.     *)
(*                                                                         *)
(* had, given, stale, unmatched and current are history variables: they    *)
(* record what the properties speak about and no action reads them.        *)
(***************************************************************************)
EXTENDS BuilderSessions, ProviderKeys

CONSTANTS
    SeedUsers, SeedKeys, SeedWorkflows, SeedAssigned, SeedSessions  \* the tables at the start

\* The payload of a save, publication included; "keep" stands for a field that
\* is left out.
Payload == [secret : SentSecret, header : BOOLEAN, node : {"n1", "n2"}, resolves : BOOLEAN,
            publish : {"yes", "no", "keep"}, slug : Slugs \cup {None}, public : {"yes", "no", "keep"}]
\* A request: by whom, on which user, key, workflow or session (0 for none), and
\* what it carries.
Request == [id : Nat \ {0}, op : Ops, by : Nat, on : Nat, key : Nat, wf : Nat, session : Nat,
            email : Emails \cup {None}, arg : STRING, slug : Slugs \cup {None},
            at : Instances \cup {None}, put : Payload]

\* What the routes' models require of a request.
WellFormed(r) ==
    /\ r \in Request
    /\ r.op \in {"register", "sso"} => r.email \in Emails
    /\ r.op = "set_role" => r.arg \in {"member", "admin"}
    /\ r.op \in LlmOps => r.at \in Instances
    /\ r.op = "put_llm_key" => r.arg \in KeyValues

ASSUME WorkspaceAssumption ==
    /\ {MaxUsers, MaxKeys, MaxWorkflows, MaxSessions, MaxBoots} \subseteq Nat
    /\ \A c \in Casts : /\ \A r \in c : WellFormed(r)
                        /\ \A q, r \in c : q.id = r.id => q = r

\* The tables at the start hold rows of their schemas; a pending patch is an edit
\* of the row it was made for and has a number of its own.
ASSUME SeedAssumption ==
    /\ SeedUsers \in Seq(UserRow) /\ Len(SeedUsers) <= MaxUsers
    /\ SeedKeys \in Seq(KeyRow) /\ Len(SeedKeys) <= MaxKeys
    /\ SeedWorkflows \in Seq(WorkflowRow) /\ Len(SeedWorkflows) <= MaxWorkflows
    /\ \A w \in DOMAIN SeedWorkflows : ~SeedWorkflows[w].gone =>
          /\ SeedWorkflows[w].production => SeedWorkflows[w].slug # None
          /\ \A v \in DOMAIN SeedWorkflows \ {w} :
                ~SeedWorkflows[v].gone /\ SeedWorkflows[v].slug = SeedWorkflows[w].slug
                => SeedWorkflows[w].slug = None
    /\ SeedAssigned \subseteq AssignmentRow
    /\ \A a \in SeedAssigned : a.wf \in DOMAIN SeedWorkflows /\ ~SeedWorkflows[a.wf].gone
    /\ SeedSessions \in Seq(Session) /\ Len(SeedSessions) <= MaxSessions
    /\ \A s, t \in DOMAIN SeedSessions : \A p \in SeedSessions[s].patch :
          /\ p.canvas \in Edits(CanvasOf(p.base))
          /\ \A c \in Casts : \A r \in c : r.id # p.from
          /\ \A q \in SeedSessions[t].patch : q.from = p.from => s = t

VARIABLES
    had,      \* the rights each request's caller had at one of its steps
    given,    \* per workflow: the secret a client last gave it in clear
    stale,    \* workflows written by a save whose read was out of date
    unmatched, \* workflows saved with the mask of a secret they did not have
    current   \* instances whose setting should agree with the stored key

histVars == <<had, given, stale, unmatched, current>>
vars == <<accountVars, storeVars, builderVars, keyVars, histVars>>

Init ==
    /\ cast \in Casts
    /\ users = SeedUsers
    /\ keys = SeedKeys
    /\ tokens = UNION {Pair(u) : u \in DOMAIN SeedUsers}
    /\ req = [r \in cast |-> [pc |-> "idle", role |-> None, saw |-> None]]
    /\ wfs = SeedWorkflows
    /\ assigned = SeedAssigned
    /\ started = {}
    /\ sessions = SeedSessions
    /\ answers = {}
    /\ llm = None
    /\ env \in IF \E r \in cast : r.op \in LlmOps THEN {None, "k3"} ELSE {None}
    /\ setting = [i \in Instances |-> env]
    /\ boots = 0
    /\ had = [r \in cast |-> {}]
    /\ given = [w \in 1..MaxWorkflows |-> IF w \in DOMAIN SeedWorkflows
                                          THEN SeedWorkflows[w].secret ELSE NoSecret]
    /\ stale = {} /\ unmatched = {}
    /\ current = Instances

-----------------------------------------------------------------------------
(* What the caller of a request is entitled to in the present state.       *)

Caller(r) == IF r.op = "run_external" /\ r.key \in DOMAIN keys THEN keys[r.key].user ELSE r.by

Reached(r) == IF r.op = "run_external"
              THEN {w \in DOMAIN wfs : Stored(w) /\ wfs[w].production /\ wfs[w].slug = r.slug}
              ELSE {w \in {r.wf} : Stored(w)}

Rights(r) ==
    LET u == Caller(r) IN
    {x \in {"active", "settled", "admin", "owner", "assignee", "public", "live key"} :
       \/ x = "active" /\ Present(u) /\ users[u].active
       \/ x = "settled" /\ Present(u) /\ ~users[u].mustChange
       \/ x = "admin" /\ Present(u) /\ users[u].role = "admin"
       \/ x = "owner" /\ \E w \in Reached(r) : wfs[w].owner = u
       \/ x = "assignee" /\ \E w \in Reached(r) : HasAssignment(w, u)
       \/ x = "public" /\ \E w \in Reached(r) : wfs[w].public
       \/ x = "live key" /\ r.key \in DOMAIN keys /\ ~keys[r.key].revoked}

\* A write of r to its workflow is out of date when the row it read has changed,
\* and so is a patch that was made for another row than the turn read.
Outdated(r) ==
    \/ r.op = "update" /\ At(r, "may") /\ req[r].saw # wfs[r.wf]
    \/ At(r, "persist") /\ (req[r].saw.row # wfs[r.wf] \/ req[r].saw.base # req[r].saw.row)

\* A save, the workflow it writes and the secret that was sent for it.
Saves(r) == wfs' # wfs /\ r.op \in {"update", "create_workflow", "build"}
Saved(r) == IF r.op = "create_workflow" THEN Len(wfs') ELSE r.wf
Sent(r) == IF r.op = "build" THEN req[r].saw.result.secret ELSE r.put.secret

\* The client masks a secret of a node, or of a header, that the row its request
\* read does not have: the node was given another id, or the workflow is a copy.
MasksNothing(r) ==
    /\ r.op \in {"update", "create_workflow"} /\ r.put.secret = Marker
    /\ r.op = "update" => req[r].saw.node # r.put.node \/ req[r].saw.secret = NoSecret

Record(r) ==
    /\ had' = [had EXCEPT ![r] = @ \cup Rights(r)]
    /\ given' = CASE Saves(r) /\ Sent(r).form = "plain" -> [given EXCEPT ![Saved(r)] = Enc(Sent(r).of)]
                  [] Saves(r) /\ Sent(r).form = "none"  -> [given EXCEPT ![Saved(r)] = NoSecret]
                  [] OTHER -> given
    /\ unmatched' = CASE Saves(r) /\ Sent(r).form \in {"plain", "none"} -> unmatched \ {Saved(r)}
                      [] Saves(r) /\ MasksNothing(r) -> unmatched \cup {Saved(r)}
                      [] OTHER -> unmatched
    /\ stale' = IF Outdated(r) /\ wfs' # wfs THEN stale \cup {r.wf} ELSE stale
    /\ current' = IF r.op \notin LlmOps \/ ~At(r, "found") \/ req'[r].pc = "error" THEN current
                  ELSE IF req'[r].saw = "no row" THEN current \ {r.at}
                  ELSE {r.at} \ {q.at : q \in {p \in cast \ {r} : p.op \in LlmOps
                                                                  /\ req[p].pc = "stored"}}

RequestStep(r) ==
    /\ \/ AccountStep(r) /\ UNCHANGED <<storeVars, builderVars, keyVars>>
       \/ StoreStep(r) /\ UNCHANGED <<builderVars, keyVars>>
       \/ BuilderStep(r) /\ UNCHANGED keyVars
       \/ KeyStep(r) /\ UNCHANGED <<storeVars, builderVars>>
    /\ Record(r)

Restart(i) ==
    /\ \E r \in cast : r.op \in LlmOps
    /\ Boot(i)
    /\ current' = current \cup {i}
    /\ UNCHANGED <<storeVars, builderVars, had, given, stale, unmatched>>

Next ==
    \/ \E r \in cast : RequestStep(r)
    \/ \E i \in Instances : Restart(i)
    \/ \E s \in DOMAIN sessions : Expire(s) /\ UNCHANGED <<keyVars, histVars>>

Spec == Init /\ [][Next]_vars

-----------------------------------------------------------------------------
(* Properties.                                                             *)

\* Every table holds rows of its schema, and no secret at rest is in clear.
TypeOK ==
    /\ AccountTypeOK /\ StoreTypeOK /\ BuilderTypeOK /\ KeyTypeOK

\* A request is served only if its caller had each right it needs while the
\* request was under way: deactivation, a demotion, a transfer, a withdrawn share
\* or a revoked key cuts off every request that starts afterwards, and a forced
\* password change every one with a JWT, though neither a call with an API key
\* nor an exchange of an SSO code (security/auth.py, api_key_auth.py,
\* workflows.py).
ServedWhenEntitled ==
    \A r \in cast : req[r].pc = "ok" =>
        /\ r.op \in JwtOps \cup RoleOps \cup AdminOps \cup {"refresh"} =>
              {"active", "settled"} \subseteq had[r]
        /\ r.op \in {"change_password", "reset_password"} => "active" \in had[r]
        /\ r.op \in AdminOps => "admin" \in had[r]
        /\ r.op \in {"delete", "grant", "revoke"} => had[r] \cap {"admin", "owner"} # {}
        /\ r.op \in {"update", "build"} => had[r] \cap {"admin", "owner", "assignee"} # {}
        /\ r.op = "get" => had[r] \cap {"admin", "owner", "assignee", "public"} # {}
        /\ r.op = "run" => had[r] \cap {"admin", "owner", "public"} # {}
        /\ r.op = "run_external" => /\ {"active", "live key"} \subseteq had[r]
                                    /\ had[r] \cap {"admin", "owner", "public"} # {}

\* A key that existed when the deactivation of its owner looked the user up is
\* dead once the handler has revoked, and stays dead when the account is
\* reactivated (deactivate_user, reactivate_user).
RevokedForGood ==
    \A r \in cast : r.op = "deactivate" /\ req[r].pc \in {"revoked", "ok"} =>
        \A k \in 1..req[r].saw : keys[k].user = r.on => keys[k].revoked

\* A slug that is published resolves to exactly one workflow, and a workflow in
\* production can be reached by its slug, however publishing, unpublishing and
\* the admin flags interleave (update_workflow, admin_update_workflow_flags).
ProductionHasItsSlug ==
    \A w \in DOMAIN wfs : Stored(w) =>
        /\ wfs[w].production => wfs[w].slug # None
        /\ \A v \in DOMAIN wfs : Stored(v) /\ wfs[v].slug = wfs[w].slug /\ v # w
                                    => wfs[w].slug = None

\* Saving a workflow that the editor received with its secrets masked keeps the
\* secret: unless saves overlapped, the row stores the value last given in clear.
\* A mask that came with another node id, or in a copy, may cost the secret; it
\* never brings back an earlier one (_encrypt_jira_tokens and its siblings).
SecretsSurviveSaves ==
    \A w \in DOMAIN wfs : Stored(w) /\ w \notin stale =>
        \/ wfs[w].secret = given[w]
        \/ w \in unmatched /\ wfs[w].secret.form # "enc"

\* A pending patch is applied or discarded once, by one message: of two
\* approvals of the same proposal, or an approval and a rejection, the second
\* finds nothing to answer (run_builder_turn).
PatchIsAnsweredOnce == \A a, b \in answers : a.to = b.to => a = b

\* A turn that plans, diagnoses or discards stores the workflow too, and leaves
\* it as it was, secrets included, unless something else was saved while the
\* model was thinking (run_builder_turn, _persist).
ProposalsChangeNothing ==
    [][\A r \in cast : At(r, "persist") /\ req[r].saw.proposal /\ req[r].saw.row = wfs[r.wf]
          => wfs' = wfs \/ UNCHANGED req[r]]_vars

\* Absent overlapping writes, the instance that stored a provider key and every
\* instance that has restarted since use the stored key, or the key of the
\* environment (admin_llm_keys.py, key_sync.py).
SettingsFollowTheStore ==
    (\A r \in cast : r.op \in LlmOps => req[r].pc # "stored") =>
        \A i \in current : setting[i] = llm \/ (env # None /\ setting[i] = env)

-----------------------------------------------------------------------------
(* Statements of the repository that the code does not keep.               *)

\* "Soft-delete: mark inactive + revoke all API keys." (admin_users.py:87)
AllKeysRevoked ==
    \A r \in cast : r.op = "deactivate" /\ req[r].pc = "ok" =>
        \A k \in DOMAIN keys : keys[k].user = r.on => keys[k].revoked

\* "Assignment grants full read+write (open, edit, run)" (workflows.py:293)
AssigneesMayRun ==
    \A r \in cast : r.op = "run" /\ req[r].pc = "refused" => "assignee" \notin had[r]

\* "keep whatever was already stored for that node id instead of overwriting it"
\* (workflows.py:185)
EchoKeepsStored ==
    [][\A w \in DOMAIN wfs : w \notin stale /\ w \in stale' =>
          \A r \in cast : r.wf = w /\ req[r] # req'[r] /\ r.put.secret = Marker =>
              wfs'[w].secret = wfs[w].secret]_vars

\* "preserve whatever was previously stored under that header name instead of
\* persisting the literal marker string" (encryption.py:145)
MarkerIsNeverStored == \A w \in DOMAIN wfs : Stored(w) => wfs[w].secret # Marker

\* "unchanged - nothing applied yet" (builder_agent.py:229): a turn that only
\* proposes does not change the stored workflow.
NothingAppliedYet ==
    [][\A r \in cast : At(r, "persist") /\ req[r].saw.proposal => wfs' = wfs \/ UNCHANGED req[r]]_vars

\* "so the row exists" (admin_llm_keys.py:110): an update finds its row.
UpdateFindsItsRow == \A r \in cast : r.op = "put_llm_key" => req[r].saw # "no row"
=============================================================================
