----------------------------- MODULE NodeEffects -----------------------------
(***************************************************************************)
(* The nodes that act outside, together: each behaviour runs one cast of   *)
(* nodes concurrently, as parallel branches or as nodes of different       *)
(* executions, on the same services, with workers that die and people who  *)
(* use the services too.                                                   *)
(***************************************************************************)
EXTENDS JiraNode, VectorStore, OutboundNodes

CONSTANTS
    Casts,        \* sets of nodes that meet on the same services
    FirstPages    \* what the Confluence page may be at first

ASSUME NodeEffectsAssumption ==
    /\ \A c \in Casts : IsFiniteSet(c)
    /\ \A c \in Casts : \A n \in c : n.id \in Nat /\ (JiraConfig(n) \/ VectorConfig(n) \/ OutboundConfig(n))
    /\ FirstPages \subseteq {None} \cup Page
    /\ None \notin Page \cup Property

vars == <<hostVars, jira, index, outVars>>

Init ==
    /\ cast \in Casts
    /\ HostInit
    /\ jira = <<>>
    /\ index = <<>>
    /\ page \in IF \E n \in cast : Is(n, PageKinds) THEN FirstPages ELSE {None}
    /\ prop = None
    /\ edits = 0
    /\ gens = <<>>
    /\ grant = "pending"
    /\ ran = {}
    /\ mails = <<>>
    /\ drive = <<>>
    /\ disk = None

\* The worker takes its next step in node n.
Step(n) ==
    \/ JiraStep(n) /\ UNCHANGED <<index, outVars>>
    \/ VectorStep(n) /\ UNCHANGED <<jira, outVars>>
    \/ OutboundStep(n) /\ UNCHANGED <<jira, index>>
    \/ StoreResult(n) /\ UNCHANGED <<jira, index, outVars>>

Next ==
    \/ \E n \in cast : Step(n)
    \/ \E n \in cast : WorkerDies(n) /\ UNCHANGED <<jira, index, outVars>>
    \/ \E n \in cast : Resume(n) /\ UNCHANGED <<jira, index>>
    \/ World /\ UNCHANGED <<jira, index>>

\* Every request has a timeout, so a worker that lives goes on.  People, the
\* service behind a generation and a pending decision may take forever.
Spec == Init /\ [][Next]_vars /\ \A c \in Casts : \A n \in c : WF_vars(n \in cast /\ Step(n))

-----------------------------------------------------------------------------
\* The local variables and the services have their types.
TypeOK ==
    /\ cast \in Casts
    /\ DOMAIN node = cast
    /\ \A n \in cast : node[n].run \in Nat /\ node[n].tries \in 0..MaxAttempts - 1
                       /\ node[n].left \in Nat
    /\ deaths \in 0..MaxDeaths
    /\ jira \in Seq(Served)
    /\ page # None => page.version \in Nat \ {0}
    /\ edits \in 0..MaxEdits
    /\ \A n \in cast : Is(n, {"http"}) => node[n].left <= MaxBytes

Sole(n, kinds) == Cardinality({m \in cast : Is(m, kinds)}) = 1

\* When a node has written a page that nobody else touched, the page has the
\* configured text and exactly the configured labels, also when a worker died
\* between the page and its labels.
LabelsReconciled ==
    \A n \in cast : /\ Is(n, {"page"}) /\ At(n, "completed")
                    /\ Sole(n, {"page"}) /\ edits = 0
                    => page.body = n.body /\ page.labels = n.labels

\* Text that a blocking guardrails node would flag never gets past it, in
\* whatever order the checks answer and whichever of them fail.
GuardBlocks ==
    \A n \in cast : Is(n, {"guardrails"}) /\ At(n, "completed") /\ n.block => n.flagged \cap n.checks = {}

\* What a completed node reports is true of the service it acted on: Jira's
\* counts and keys and the policy on them, the version Confluence gave and the
\* labels, the state and the file of a Gamma generation, an Arcade tool that ran
\* in this attempt, a mail that was delivered, a file with the content, a text
\* that passed.  Answers may have been lost, requests repeated, and workers may
\* have died before.
ReportIsTrue ==
    /\ JiraReportIsTrue /\ PolicyIsKept /\ LabelsReconciled /\ GuardBlocks
    /\ \A n \in cast : At(n, "completed") =>
         /\ Is(n, {"page"}) => page # None /\ page.version >= node[n].out.version
         /\ Is(n, {"set_property"}) => prop # None /\ prop.version >= node[n].out.version
         /\ Is(n, {"gamma"}) => /\ node[n].out.state = "completed" => Generation(n).state = "completed"
                                /\ node[n].out.url => Generation(n).url
         /\ Is(n, {"arcade"}) => [by |-> n.id, run |-> node[n].run] \in ran
         /\ Is(n, {"email"}) => \E i \in DOMAIN mails : mails[i].key = n.key /\ (n.key # None \/ mails[i].by = n.id)
         /\ Is(n, {"file", "pdf"}) /\ Sole(n, {"file", "pdf"}) =>
               IF n.provider = "drive" THEN n.body \in ToSet(drive) ELSE disk = n.body

\* Running a node again does not repeat what it did where the code gives the
\* service a means to tell: one record per chunk, one mail per idempotency key,
\* and one Drive file per name when a single node writes it ("rather than
\* creating a duplicate").
RerunsDoNotDuplicate ==
    /\ RerunOverwrites
    /\ \A i, j \in DOMAIN mails : mails[i].key # None /\ mails[i].key = mails[j].key => i = j
    /\ (\E n \in cast : Sole(n, {"file", "pdf"})) => Len(drive) <= 1

\* A node replaces the text of a Confluence page, or the value of its
\* property, only if it has read the version that it replaces: what a person
\* or another node wrote in between is not overwritten unseen.
NoLostEdit ==
    [][\A n \in cast :
         /\ page # None /\ page' # page /\ At(n, "write") /\ ~At(n, "write")' => node[n].saw = page.version
         /\ prop # None /\ prop' # prop /\ At(n, "set") /\ ~At(n, "set")' => node[n].saw = prop.version]_vars

\* Every node completes, fails or pauses: retries, turns, polls and pages are
\* bounded, and no answer is waited for without end.
NodeEnds == []<>(\A n \in cast : node[n].pc \in Ended \cup {"paused"})

-----------------------------------------------------------------------------
(* What comments and documents say, and the code does not do.              *)

\* executors/arcade.py: "Raised when the user rejects the auth prompt on
\* /resume."  A rejected node does not run its tool.
RejectionCancels ==
    \A n \in cast : Is(n, {"arcade"}) /\ node[n].resumed = "rejected" =>
       [by |-> n.id, run |-> node[n].run] \notin ran

\* executors/gamma_ai.py: GammaNodeError is "raised when the Gamma API call
\* fails or returns failed state".
FailedGenerationFails ==
    \A n \in cast : Is(n, {"gamma"}) /\ At(n, "completed") => node[n].out.state # "failed"
=============================================================================
