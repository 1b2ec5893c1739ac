---------------------------- MODULE MCWorkspace ----------------------------
EXTENDS Workspace

User(email, role) == [email |-> email, password |-> "old", role |-> role, active |-> TRUE,
                      mustChange |-> FALSE, gone |-> FALSE]
MCUsers == <<User("ann", "member"), User("bob", "member"), User("root", "admin"),
             User("cat", "member")>>
MCKeys == <<[user |-> 1, revoked |-> FALSE]>>
MCWorkflows ==
    <<[owner |-> 1, public |-> FALSE, production |-> TRUE, slug |-> "alpha", node |-> "n1",
       secret |-> Enc("s0"), resolves |-> TRUE, gone |-> FALSE],
      [owner |-> 4, public |-> TRUE, production |-> FALSE, slug |-> None, node |-> "n1",
       secret |-> NoSecret, resolves |-> FALSE, gone |-> FALSE]>>
MCAssigned == {[wf |-> 1, user |-> 2, by |-> 1], [wf |-> 1, user |-> 4, by |-> 1]}

\* Ann has a proposal for workflow 1 before her.
MCSessions ==
    <<[live |-> TRUE, plan |-> TRUE,
       patch |-> {[canvas |-> [CanvasOf(MCWorkflows[1]) EXCEPT !.resolves = FALSE], from |-> 0,
                   base |-> MCWorkflows[1]]}]>>

Keep == [secret |-> Marker, header |-> FALSE, node |-> "n1", publish |-> "keep", slug |-> None,
         public |-> "keep", resolves |-> TRUE]
Rq(id, op, by) == [id |-> id, op |-> op, by |-> by, on |-> 0, key |-> 0, wf |-> 0,
                   email |-> None, arg |-> None, slug |-> None, at |-> None, put |-> Keep, session |-> 0]
On(r, u) == [r EXCEPT !.on = u]
Of(r, w) == [r EXCEPT !.wf = w]
By(r, email, arg) == [r EXCEPT !.email = email, !.arg = arg]
Say(r, session, arg) == [r EXCEPT !.wf = 1, !.session = session, !.arg = arg]
Put(r, w, put) == [r EXCEPT !.wf = w, !.put = put]

\* One cast per family of requests that meet on the same rows.
MCCasts == {
  \* one address, provisioned twice, then used
  {By(Rq(1, "register", 0), "dan", None), By(Rq(2, "sso", 0), "dan", None),
   By(Rq(3, "login", 0), "dan", "old"), By(Rq(4, "register", 0), "ann", None)},
  \* a key is made while its owner is deactivated and reactivated
  {On(Rq(1, "deactivate", 3), 1), Rq(2, "create_key", 1), On(Rq(3, "reactivate", 3), 1),
   [Rq(4, "run_external", 0) EXCEPT !.key = 1, !.slug = "alpha"],
   [Rq(5, "run_external", 0) EXCEPT !.key = 2, !.slug = "alpha"],
   By(Rq(6, "sso", 0), "ann", None)},
  \* a forced reset meets the user's own change, a mailed link and sessions
  {On(Rq(1, "admin_reset", 3), 1), By(Rq(2, "change_password", 1), None, "old"),
   By(Rq(3, "forgot_password", 0), "ann", None), Rq(4, "reset_password", 1),
   By(Rq(5, "login", 0), "ann", "temp"), Rq(6, "refresh", 1)},
  \* publishing and unpublishing the same workflow, and its slug elsewhere
  {Put(Rq(1, "flags", 3), 1, [Keep EXCEPT !.publish = "yes"]),
   Put(Rq(2, "update", 1), 1, [Keep EXCEPT !.publish = "no", !.public = "no"]),
   Put(Rq(3, "flags", 3), 2, [Keep EXCEPT !.slug = "alpha", !.public = "no"]),
   Put(Rq(4, "update", 4), 2, [Keep EXCEPT !.publish = "yes", !.slug = "alpha", !.public = "yes"]),
   [Rq(5, "run_external", 0) EXCEPT !.key = 1, !.slug = "alpha"]},
  \* saves of one workflow, some with its secret masked
  {Put(Rq(1, "update", 1), 1, [Keep EXCEPT !.secret = Plain("s1"), !.public = "yes"]),
   Put(Rq(2, "update", 2), 1, [Keep EXCEPT !.resolves = FALSE]),
   Put(Rq(3, "update", 3), 1, [Keep EXCEPT !.node = "n2", !.header = TRUE, !.public = "no"]),
   Put(Rq(4, "create_workflow", 2), 0, [Keep EXCEPT !.secret = Plain("s2")]),
   Of(Rq(5, "get", 4), 1)},
  \* a share is withdrawn, the workflow changes hands and goes
  {[On(Rq(1, "revoke", 1), 2) EXCEPT !.wf = 1],
   Put(Rq(2, "update", 2), 1, [Keep EXCEPT !.public = "no"]),
   Of(Rq(3, "run", 2), 1), [On(Rq(4, "owner", 3), 2) EXCEPT !.wf = 1],
   [On(Rq(5, "grant", 1), 2) EXCEPT !.wf = 1]},
  {Put(Rq(1, "update", 2), 1, [Keep EXCEPT !.public = "no"]), Of(Rq(2, "delete", 1), 1),
   [On(Rq(3, "owner", 3), 2) EXCEPT !.wf = 1], [On(Rq(4, "grant", 1), 2) EXCEPT !.wf = 1]},
  \* an account is deleted while it is being used and given things
  {Rq(1, "delete_account", 4), Put(Rq(2, "create_workflow", 4), 0, Keep),
   [On(Rq(3, "grant", 1), 4) EXCEPT !.wf = 1], [On(Rq(4, "owner", 3), 4) EXCEPT !.wf = 1],
   Rq(5, "create_key", 4), [Rq(6, "revoke_key", 1) EXCEPT !.key = 1]},
  \* an administrator is made and unmade
  {[On(Rq(1, "set_role", 3), 2) EXCEPT !.arg = "admin"],
   [On(Rq(2, "set_role", 3), 2) EXCEPT !.arg = "member"],
   [On(Rq(3, "admin_revoke_key", 2), 1) EXCEPT !.key = 1], On(Rq(4, "deactivate", 2), 3),
   [Rq(5, "run_external", 0) EXCEPT !.key = 1, !.slug = "alpha"]},
  \* a proposal is answered twice and replaced; the workflow is saved meanwhile
  {Say(Rq(1, "build", 1), 1, "approve"), Say(Rq(2, "build", 1), 1, "approve"),
   Say(Rq(3, "build", 1), 1, "diagnose")},
  {Say(Rq(1, "build", 1), 1, "approve"), Say(Rq(2, "build", 1), 1, "diagnose"),
   Put(Rq(3, "update", 3), 1, [Keep EXCEPT !.secret = Plain("s1"), !.public = "no"])},
  {Say(Rq(1, "build", 1), 1, "approve"), Say(Rq(2, "build", 1), 1, "reject"),
   Put(Rq(3, "update", 3), 1, [Keep EXCEPT !.node = "n2"])},
  \* an assignee builds while the share is withdrawn and the workflow goes
  {Say(Rq(1, "build", 2), 0, "build"), [On(Rq(2, "revoke", 1), 2) EXCEPT !.wf = 1],
   Of(Rq(3, "delete", 1), 1)},
  \* a provider key is written on two instances
  {[Rq(1, "put_llm_key", 3) EXCEPT !.arg = "k1", !.at = "i1"],
   [Rq(2, "put_llm_key", 3) EXCEPT !.arg = "k2", !.at = "i2"],
   [Rq(3, "delete_llm_key", 3) EXCEPT !.at = "i1"]}}
=============================================================================
