-------------------------- MODULE BuilderSessions --------------------------
(***************************************************************************)
(* The natural-language builder: POST /builder/{workflowId}/message        *)
(* (src/api/builder.py) and one turn of its agent                          *)
(* (src/builder/builder_agent.py) on the stored workflow r.wf.             *)
(*                                                                         *)
(* A session lives in the memory of the process and is a plan and a patch  *)
(* that wait for the user, with the answers given so far.  Between its     *)
(* awaits a handler runs alone; the model is external, so a turn that asks *)
(* it may take minutes and may come back with any edit of the canvas.      *)
(* r.session is 0 for a first message; r.arg tells an approval, a          *)
(* rejection, a message that names a failed execution and any other apart. *)
(***************************************************************************)
EXTENDS WorkflowStore

CONSTANTS
    MaxSessions    \* bound on the sessions ever opened

VARIABLES
    sessions,      \* app.state.builder_sessions: ids are positions
    answers        \* "Patch applied." and "Patch discarded.", in session.messages

builderVars == <<sessions, answers>>

\* What a turn works on: the nodes of the canvas.
Canvas == [node : {"n1", "n2"}, secret : StoredSecret \cup SentSecret, resolves : BOOLEAN, header : BOOLEAN]
CanvasOf(row) == [node |-> row.node, secret |-> row.secret, resolves |-> row.resolves,
                  header |-> row.secret = Marker]
\* A proposal: the canvas it would leave, the request that made it and the row
\* it was made for.
Patch == [canvas : Canvas, from : Nat, base : WorkflowRow]
Session == [live : BOOLEAN, plan : BOOLEAN, patch : SUBSET Patch]

\* What the model's tools (create_node, update_node, remove_node) may leave.
Edits(canvas) ==
    {canvas, [canvas EXCEPT !.resolves = ~@],
     [canvas EXCEPT !.secret = Plain("s2"), !.header = FALSE],
     [canvas EXCEPT !.node = "n2", !.secret = NoSecret, !.header = FALSE]}

-----------------------------------------------------------------------------

\* _get_sessions and _prune_sessions: an unknown session has expired.
FindSession(r) ==
    /\ At(r, "role")
    /\ r.op = "build"
    /\ LET open == r.session \in DOMAIN sessions /\ sessions[r.session].live IN
       Goto(r, IF r.session = 0 \/ open THEN "session" ELSE "refused")
    /\ UNCHANGED <<cast, users, keys, tokens, storeVars, builderVars>>

\* Thirty idle minutes: the next message prunes the session.
Expire(s) ==
    /\ \E r \in cast : r.op = "build"
    /\ sessions[s].live
    /\ sessions' = [sessions EXCEPT ![s].live = FALSE]
    /\ UNCHANGED <<cast, users, keys, tokens, req, storeVars, answers>>

\* The request may use the workflow (ReadWorkflow, ReadAssignment): a first
\* message opens its session, whatever becomes of the turn.
OpenSession(r) ==
    LET s == IF r.session = 0 THEN Len(sessions) + 1 ELSE r.session IN
    /\ At(r, "may")
    /\ r.op = "build"
    /\ s <= MaxSessions
    /\ sessions' = IF r.session # 0 THEN sessions
                   ELSE Append(sessions, [live |-> TRUE, plan |-> FALSE, patch |-> {}])
    /\ GotoSeeing(r, "policy", [row |-> req[r].saw, session |-> s, base |-> req[r].saw,
                                result |-> CanvasOf(req[r].saw), proposal |-> TRUE])
    /\ UNCHANGED <<cast, users, keys, tokens, storeVars, answers>>

\* The model asked for is not in the policy, or cannot be built.
ModelRefused(r) ==
    /\ At(r, "policy")
    /\ Goto(r, "refused")
    /\ UNCHANGED <<cast, users, keys, tokens, storeVars, builderVars>>

\* The canvas that a turn leaves to be stored.
Leaves(r, canvas, base) ==
    req' = [req EXCEPT ![r].pc = "persist", ![r].saw.result = canvas, ![r].saw.base = base,
                       ![r].saw.proposal = FALSE]

TurnStartKeepsPatch(r) ==
    LET s == req[r].saw.session
        patch == sessions[s].patch IN
    /\ At(r, "policy")
    /\ IF r.arg = "approve" /\ patch # {}
       THEN \E p \in patch :
              /\ Leaves(r, p.canvas, p.base)
              /\ answers' = answers \cup {[by |-> r.id, to |-> p.from, applied |-> TRUE]}
              /\ UNCHANGED sessions
       ELSE /\ Goto(r, CASE r.arg = "diagnose" -> "diagnosing"
                         [] r.arg # "diagnose" /\ ~sessions[s].plan -> "planning"
                         [] OTHER -> "building")
            /\ UNCHANGED builderVars
    /\ UNCHANGED <<cast, users, keys, tokens, storeVars>>

\* run_builder_turn up to its first await.  A patch is taken out of the session
\* with the answer to it; without one, the same message goes to the model.
TurnStart(r) ==
    LET s == req[r].saw.session
        patch == sessions[s].patch IN
    /\ At(r, "policy")
    /\ IF r.arg \in {"approve", "reject"} /\ patch # {}
       THEN \E p \in patch :
              /\ IF r.arg = "approve" THEN Leaves(r, p.canvas, p.base) ELSE Goto(r, "persist")
              /\ answers' = answers \cup {[by |-> r.id, to |-> p.from, applied |-> r.arg = "approve"]}
              /\ sessions' = [sessions EXCEPT ![s].patch = {}]
       ELSE /\ Goto(r, CASE r.arg = "diagnose" -> "diagnosing"
                         [] r.arg # "diagnose" /\ ~sessions[s].plan -> "planning"
                         [] OTHER -> "building")
            /\ UNCHANGED builderVars
    /\ UNCHANGED <<cast, users, keys, tokens, storeVars>>

Propose(r, canvas) ==
    sessions' = [sessions EXCEPT ![req[r].saw.session].patch =
                    {[canvas |-> canvas, from |-> r.id, base |-> req[r].saw.row]}]

DiagnosedApplies(r) ==
    /\ At(r, "diagnosing")
    /\ \E canvas \in Edits(req[r].saw.result) :
          /\ Propose(r, canvas)
          /\ req' = [req EXCEPT ![r].pc = "persist", ![r].saw.result = canvas]
    /\ UNCHANGED <<cast, users, keys, tokens, storeVars, answers>>

\* The tool loop of a diagnosis ends: the draft becomes the pending patch, in
\* place of any other, and the workflow is handed back as it was read.
Diagnosed(r) ==
    /\ At(r, "diagnosing")
    /\ \E canvas \in Edits(req[r].saw.result) : Propose(r, canvas)
    /\ Goto(r, "persist")
    /\ UNCHANGED <<cast, users, keys, tokens, storeVars, answers>>

\* The answer parses as a plan, or the turn goes on to build.
Planned(r) ==
    /\ At(r, "planning")
    /\ \/ /\ Goto(r, "persist")
          /\ sessions' = [sessions EXCEPT ![req[r].saw.session].plan = TRUE]
       \/ Goto(r, "building") /\ UNCHANGED sessions
    /\ UNCHANGED <<cast, users, keys, tokens, storeVars, answers>>

\* The tool loop of a build ends, finished or out of iterations.
Built(r) ==
    /\ At(r, "building")
    /\ \E canvas \in Edits(req[r].saw.result) : Leaves(r, canvas, req[r].saw.row)
    /\ UNCHANGED <<cast, users, keys, tokens, storeVars, builderVars>>

ModelRaises(r) ==
    /\ \E pc \in {"diagnosing", "planning", "building"} : At(r, pc)
    /\ Goto(r, "error")
    /\ UNCHANGED <<cast, users, keys, tokens, storeVars, builderVars>>

\* _check_workflow_size_limits, after the session has moved on.
TooLarge(r) ==
    /\ At(r, "persist")
    /\ Goto(r, "refused")
    /\ UNCHANGED <<cast, users, keys, tokens, storeVars, builderVars>>

\* _persist, after every turn: the nodes by id and nothing else.
Persist(r) ==
    LET turn == req[r].saw IN
    /\ At(r, "persist")
    /\ IF Stored(r.wf)
       THEN Changed(r, r.wf, [wfs[r.wf] EXCEPT !.node = turn.result.node,
                                               !.resolves = turn.result.resolves,
                                               !.secret = Encrypt(turn.result, TRUE, turn.row)])
       ELSE Goto(r, "error") /\ UNCHANGED wfs
    /\ UNCHANGED <<cast, users, keys, tokens, assigned, started, builderVars>>

BuilderStep(r) ==
    \/ FindSession(r) \/ OpenSession(r) \/ ModelRefused(r) \/ TurnStart(r)
    \/ Diagnosed(r) \/ Planned(r) \/ Built(r) \/ ModelRaises(r)
    \/ TooLarge(r) \/ Persist(r)

BuilderTypeOK ==
    /\ sessions \in Seq(Session) /\ Len(sessions) <= MaxSessions
    /\ answers \subseteq [by : {r.id : r \in cast}, to : Nat, applied : BOOLEAN]
=============================================================================
