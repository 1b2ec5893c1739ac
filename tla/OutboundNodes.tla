---------------------------- MODULE OutboundNodes ----------------------------
(***************************************************************************)
(* The deterministic nodes that act on other services: confluence,         *)
(* gamma-ai, arcade, email, http, file-write, download-pdf and guardrails  *)
(* (src/executors/).                                                       *)
(***************************************************************************)
EXTENDS NodeHost, FiniteSetsExt, SequencesExt

CONSTANTS
    MaxPolls,      \* polls of a Gamma generation before the node gives up
    MaxEdits,      \* bound: edits of the Confluence page by people
    MaxBytes       \* http_node_max_response_bytes

ASSUME OutboundAssumption == MaxPolls \in Nat /\ MaxEdits \in Nat /\ MaxBytes \in Nat

VARIABLES
    page,          \* the Confluence page of that title, or None
    prop,          \* its property, or None
    edits,         \* edits by people
    gens,          \* Gamma generations
    grant,         \* the Arcade authorization: "pending", "completed" or "failed"
    ran,           \* Arcade tool executions: [by, run]
    mails,         \* delivered mails: [by, key]
    drive,         \* files of that name in the Drive folder: their contents
    disk           \* the local file: its content or None

outVars == <<page, prop, edits, gens, grant, ran, mails, drive, disk>>

PageKinds == {"page", "get_page", "get_property", "set_property"}
OutboundKinds == PageKinds \cup {"gamma", "arcade", "email", "http", "file", "pdf", "guardrails"}

\* What nodes are configured with, and what people write.
Texts == STRING \cup {"person", "old"}
Page == [version : Nat \ {0}, body : Texts, labels : SUBSET Texts, by : Nat]
Property == [version : Nat \ {0}, value : Texts]

\* The configuration of these nodes.
OutboundConfig(n) == Is(n, OutboundKinds) /\ n.body \in Texts /\ n.labels \subseteq Texts

-----------------------------------------------------------------------------
(* Confluence.  The service accepts an update that carries the next        *)
(* version, and a creation when there is no page of that title.            *)

UnchangedButPage == UNCHANGED <<cast, deaths, prop, edits, gens, grant, ran, mails, drive, disk>>
UnchangedButProp == UNCHANGED <<cast, deaths, page, edits, gens, grant, ran, mails, drive, disk>>

\* arun: domain, email and token, then the fields of the operation.
StartConfluence(n) ==
    /\ At(n, "start")
    /\ Is(n, PageKinds)
    /\ IF ~n.configured THEN Raise(n)
       ELSE Goto(n, IF Is(n, {"page", "get_page"}) THEN "find" ELSE "property")
    /\ UNCHANGED <<cast, deaths, outVars>>

Version(x) == IF x = None THEN 0 ELSE x.version

\* _find_page, and _get_page, which ends with what it found.
FindPage(n) ==
    /\ At(n, "find")
    /\ \/ Raise(n)
       \/ /\ Is(n, {"get_page"})
          /\ Return(n, [found |-> page # None, version |-> Version(page)])
       \/ /\ Is(n, {"page"})
          /\ Become(n, [node[n] EXCEPT !.pc = "write", !.saw = Version(page)])
    /\ UNCHANGED <<cast, deaths, outVars>>

\* The node goes on with the page it wrote, at that version; labels are read
\* only if the page was there before.
Wrote(n, version, created) ==
    Become(n, [node[n] EXCEPT !.pc = IF created THEN "label" ELSE "labels", !.acc = <<>>,
                              !.saw = {}, !.left = version])

\* The request is carried out; its answer may be lost.
CreatePage(n) ==
    /\ At(n, "write")
    /\ node[n].saw = 0
    /\ \/ /\ page = None
          /\ page' = [version |-> 1, body |-> n.body, labels |-> {}, by |-> n.id]
          /\ Wrote(n, 1, TRUE) \/ Raise(n)
       \/ Raise(n) /\ UNCHANGED page
    /\ UnchangedButPage

UpdatePageBlindly(n) ==
    /\ At(n, "write")
    /\ node[n].saw > 0
    /\ page' = [page EXCEPT !.version = @ + 1, !.body = n.body, !.by = n.id]
    /\ Wrote(n, page.version + 1, FALSE)
    /\ UnchangedButPage

\* version.number is the one that was read, plus one.
UpdatePage(n) ==
    /\ At(n, "write")
    /\ node[n].saw > 0
    /\ \/ /\ page.version + 1 = node[n].saw + 1
          /\ page' = [page EXCEPT !.version = @ + 1, !.body = n.body, !.by = n.id]
          /\ Wrote(n, node[n].saw + 1, FALSE) \/ Raise(n)
       \/ Raise(n) /\ UNCHANGED page
    /\ UnchangedButPage

\* _reconcile_labels: what is on the page, unless it was created just now.
ReadLabels(n) ==
    /\ At(n, "labels")
    /\ \/ Become(n, [node[n] EXCEPT !.pc = "label", !.saw = page.labels])
       \/ Raise(n)
    /\ UNCHANGED <<cast, deaths, outVars>>

\* One request for every label too many ...
DeleteLabel(n) ==
    /\ At(n, "label")
    /\ \E name \in node[n].saw \ n.labels :
          \/ /\ page' = [page EXCEPT !.labels = @ \ {name}]
             /\ Become(n, [node[n] EXCEPT !.saw = @ \ {name}]) \/ Raise(n)
          \/ Raise(n) /\ UNCHANGED page
    /\ UnchangedButPage

\* ... and one for all that are missing from what was read.
AddLabels(n) ==
    /\ At(n, "label")
    /\ node[n].saw \subseteq n.labels
    /\ LET out == [version |-> node[n].left] IN
       \/ node[n].saw = n.labels /\ Return(n, out) /\ UNCHANGED page
       \/ /\ node[n].saw # n.labels
          /\ page' = [page EXCEPT !.labels = @ \cup (n.labels \ node[n].saw)]
          /\ Return(n, out) \/ Raise(n)
       \/ node[n].saw # n.labels /\ Raise(n) /\ UNCHANGED page
    /\ UnchangedButPage

\* Someone edits the page and its labels in the browser.
PersonEdits ==
    /\ edits < MaxEdits
    /\ page # None
    /\ page' = [page EXCEPT !.version = @ + 1, !.body = "person", !.labels = {"old"}, !.by = 0]
    /\ edits' = edits + 1
    /\ UNCHANGED <<hostVars, prop, gens, grant, ran, mails, drive, disk>>

\* _get_property, and the read of _set_property: 404 is not an error.
ReadProperty(n) ==
    /\ At(n, "property")
    /\ \/ Raise(n)
       \/ Is(n, {"get_property"}) /\ Return(n, [found |-> prop # None, version |-> Version(prop)])
       \/ Is(n, {"set_property"}) /\ Become(n, [node[n] EXCEPT !.pc = "set", !.saw = Version(prop)])
    /\ UNCHANGED <<cast, deaths, outVars>>

\* _set_property: POST without one, PUT with the next version otherwise.
SetProperty(n) ==
    /\ At(n, "set")
    /\ \/ /\ Version(prop) = node[n].saw
          /\ prop' = [version |-> node[n].saw + 1, value |-> n.body]
          /\ Return(n, [version |-> node[n].saw + 1]) \/ Raise(n)
       \/ Raise(n) /\ UNCHANGED prop
    /\ UnchangedButProp

-----------------------------------------------------------------------------
(* Gamma.                                                                  *)

UnchangedButGens == UNCHANGED <<page, prop, edits, grant, ran, mails, drive, disk>>

\* _create_generation; a lost answer leaves a generation behind.
CreateGeneration(n) ==
    /\ At(n, "start")
    /\ Is(n, {"gamma"})
    /\ \/ /\ n.configured
          /\ gens' = Append(gens, [state |-> "processing", url |-> FALSE])
          /\ \/ Become(n, [node[n] EXCEPT !.pc = "poll", !.saw = Len(gens) + 1, !.left = MaxPolls])
             \/ Raise(n)
       \/ Raise(n) /\ UNCHANGED gens
    /\ UNCHANGED <<cast, deaths>> /\ UnchangedButGens

\* The service works on it; the file to download comes later.
GammaProceeds(g) ==
    /\ \E now \in (IF gens[g].state = "processing"
                   THEN {[state |-> "completed", url |-> FALSE], [state |-> "failed", url |-> FALSE]}
                   ELSE IF gens[g].state = "completed" THEN {[state |-> "completed", url |-> TRUE]}
                   ELSE {}) :
          now # gens[g] /\ gens' = [gens EXCEPT ![g] = now]
    /\ UNCHANGED hostVars /\ UnchangedButGens

Generation(n) == gens[node[n].saw]
Report(status) == [state |-> status.state, url |-> status.url]

\* After a status that ends the polling: wait for the export if there is none.
Polled(n, status) ==
    IF n.export /\ ~status.url
    THEN Become(n, [node[n] EXCEPT !.pc = "export", !.left = MaxPolls, !.out = Report(status)])
    ELSE Return(n, Report(status))

\* _poll_until_complete: errors are ignored, a failed generation raises, and so
\* does an answer without error that is not JSON, here as below.
PollGeneration(n) ==
    /\ At(n, "poll")
    /\ node[n].left > 0
    /\ \/ Generation(n).state = "completed" /\ Polled(n, Generation(n))
       \/ Raise(n)
       \/ Become(n, [node[n] EXCEPT !.left = @ - 1])
    /\ UNCHANGED <<cast, deaths, outVars>>

PollOnAndOn(n) ==
    /\ At(n, "poll")
    /\ node[n].left = 0
    /\ Become(n, [node[n] EXCEPT !.left = MaxPolls])
    /\ UNCHANGED <<cast, deaths, outVars>>

\* The deadline: whatever the last read says, or "processing" without one.
LastRead(n) ==
    /\ At(n, "poll")
    /\ node[n].left = 0
    /\ Polled(n, Generation(n)) \/ Polled(n, [state |-> "processing", url |-> FALSE]) \/ Raise(n)
    /\ UNCHANGED <<cast, deaths, outVars>>

\* _wait_for_export_url: the new status with the file, the old one without.
WaitForExport(n) ==
    /\ At(n, "export")
    /\ \/ node[n].left > 0 /\ Generation(n).url /\ Return(n, Report(Generation(n)))
       \/ node[n].left > 0 /\ Raise(n)
       \/ node[n].left > 0 /\ Become(n, [node[n] EXCEPT !.left = @ - 1])
       \/ node[n].left = 0 /\ Goto(n, "returned")
    /\ UNCHANGED <<cast, deaths, outVars>>

-----------------------------------------------------------------------------
(* Arcade.                                                                 *)

\* arun and _authorize.  The retry counter is written to a state that the
\* interrupt discards, and nothing sets _approval_<node id>: neither check at
\* the head of arun ever fires.  In a node that was resumed, interrupt()
\* returns the answer, and the line after it raises.
Authorize(n) ==
    /\ At(n, "start")
    /\ Is(n, {"arcade"})
    /\ \/ ~n.configured /\ Raise(n)
       \/ n.configured /\ Raise(n)          \* transport error, or a failed authorization
       \/ n.configured /\ grant = "completed" /\ Goto(n, "execute")
       \/ n.configured /\ grant = "pending" /\ IF node[n].resumed = None THEN Goto(n, "paused") ELSE Raise(n)
    /\ UNCHANGED <<cast, deaths, outVars>>

\* The user follows the link, or declines there.
UserAuthorizes ==
    /\ grant = "pending"
    /\ \E n \in cast : At(n, "paused")
    /\ grant' \in {"completed", "failed"}
    /\ UNCHANGED <<hostVars, page, prop, edits, gens, ran, mails, drive, disk>>

\* POST /executions/{id}/resume: the node runs again from its first line.
Resume(n) ==
    /\ At(n, "paused")
    /\ \E decision \in {"approved", "rejected"} :
          Become(n, [Fresh(node[n].run + 1) EXCEPT !.resumed = decision])
    /\ UNCHANGED <<cast, deaths, outVars>>

\* _execute
Execute(n) ==
    /\ At(n, "execute")
    /\ \/ /\ ran' = ran \cup {[by |-> n.id, run |-> node[n].run]}
          /\ Return(n, [ran |-> TRUE]) \/ Raise(n)
       \/ Raise(n) /\ UNCHANGED ran
    /\ UNCHANGED <<cast, deaths, page, prop, edits, gens, grant, mails, drive, disk>>

-----------------------------------------------------------------------------
(* Email, HTTP, files.                                                     *)

\* EmailExecutor.arun: addresses, subject and body are checked first.
StartEmail(n) ==
    /\ At(n, "start")
    /\ Is(n, {"email"})
    /\ IF n.configured /\ n.to \in 1..50 THEN Goto(n, "send") ELSE Raise(n)
    /\ UNCHANGED <<cast, deaths, outVars>>

Delivered(n) == mails' = Append(mails, [by |-> n.id, key |-> n.key])

\* ResendEmailProvider.send_email: under a key it has seen the service delivers
\* nothing and answers as it did before.
SendEmail(n) ==
    /\ At(n, "send")
    /\ \/ /\ IF n.key # None /\ \E i \in DOMAIN mails : mails[i].key = n.key
             THEN UNCHANGED mails ELSE Delivered(n)
          /\ Return(n, [sent |-> TRUE]) \/ Raise(n)
       \/ Raise(n) /\ UNCHANGED mails
    /\ UNCHANGED <<cast, deaths, page, prop, edits, gens, grant, ran, drive, disk>>

\* HttpExecutor.arun: a forbidden address is not called, and a body is read
\* until it exceeds the limit.
HttpRequest(n) ==
    /\ At(n, "start")
    /\ Is(n, {"http"})
    /\ \/ Raise(n)
       \/ n.configured /\ Become(n, [node[n] EXCEPT !.pc = "body"])
    /\ UNCHANGED <<cast, deaths, outVars>>

\* Blocks come in until the response ends, and then its status counts.
HttpBody(n) ==
    /\ At(n, "body")
    /\ \/ \E size \in 1..MaxBytes :
             IF node[n].left + size > MaxBytes THEN Raise(n)
             ELSE Become(n, [node[n] EXCEPT !.left = @ + size])
       \/ Return(n, [bytes |-> node[n].left])
       \/ Raise(n)
    /\ UNCHANGED <<cast, deaths, outVars>>

\* FileWriteExecutor.arun and DownloadPdfExecutor.arun: provider, destination
\* and file name are checked, the content is converted.
StartFile(n) ==
    /\ At(n, "start")
    /\ Is(n, {"file", "pdf"})
    /\ IF ~n.configured THEN Raise(n)
       ELSE Goto(n, IF n.provider = "drive" THEN "search" ELSE "open")
    /\ UNCHANGED <<cast, deaths, outVars>>

UnchangedButDrive == UNCHANGED <<cast, deaths, page, prop, edits, gens, grant, ran, mails, disk>>

\* GoogleDriveProvider.write_file: find a file of that name, create it without
\* one, and upload the content.
SearchDrive(n) ==
    /\ At(n, "search")
    /\ \/ Raise(n)
       \/ IF drive = <<>> THEN Goto(n, "create")
          ELSE Become(n, [node[n] EXCEPT !.pc = "upload", !.saw = 1])
    /\ UNCHANGED <<cast, deaths, outVars>>

CreateInDrive(n) ==
    /\ At(n, "create")
    /\ \/ /\ drive' = Append(drive, None)
          /\ Become(n, [node[n] EXCEPT !.pc = "upload", !.saw = Len(drive) + 1]) \/ Raise(n)
       \/ Raise(n) /\ UNCHANGED drive
    /\ UnchangedButDrive

UploadToDrive(n) ==
    /\ At(n, "upload")
    /\ \/ /\ drive' = [drive EXCEPT ![node[n].saw] = n.body]
          /\ Return(n, [file |-> node[n].saw]) \/ Raise(n)
       \/ Raise(n) /\ UNCHANGED drive
    /\ UnchangedButDrive

\* LocalFilesystemProvider.write_file: the file is truncated, then written.
OpenFile(n) ==
    /\ At(n, "open")
    /\ \/ disk' = "partial" /\ Goto(n, "write_bytes")
       \/ Raise(n) /\ UNCHANGED disk
    /\ UNCHANGED <<cast, deaths, page, prop, edits, gens, grant, ran, mails, drive>>

WriteBytes(n) ==
    /\ At(n, "write_bytes")
    /\ \/ disk' = n.body /\ Return(n, [file |-> 0])
       \/ Raise(n) /\ UNCHANGED disk
    /\ UNCHANGED <<cast, deaths, page, prop, edits, gens, grant, ran, mails, drive>>

-----------------------------------------------------------------------------
(* Guardrails.                                                             *)

\* All enabled checks are asked at once (asyncio.gather).
StartGuardrails(n) ==
    /\ At(n, "start")
    /\ Is(n, {"guardrails"})
    /\ IF n.checks = {} THEN Return(n, [violations |-> {}])
       ELSE Become(n, [node[n] EXCEPT !.pc = "checks", !.saw = n.checks, !.out = [violations |-> {}]])
    /\ UNCHANGED <<cast, deaths, outVars>>

\* _run_check: answers arrive in any order; one that fails, fails the node.
CheckAnswers(n) ==
    /\ At(n, "checks")
    /\ node[n].saw # {}
    /\ \/ \E check \in node[n].saw :
             Become(n, [node[n] EXCEPT !.saw = @ \ {check}, !.out.violations = @ \cup ({check} \cap n.flagged)])
       \/ Raise(n)
    /\ UNCHANGED <<cast, deaths, outVars>>

\* Every answer is in: violations block or are reported.
Judge(n) ==
    /\ At(n, "checks")
    /\ node[n].saw = {}
    /\ IF node[n].out.violations # {} /\ n.block THEN Raise(n) ELSE Goto(n, "returned")
    /\ UNCHANGED <<cast, deaths, outVars>>

-----------------------------------------------------------------------------
OutboundStep(n) ==
    \/ StartConfluence(n) \/ FindPage(n) \/ CreatePage(n) \/ UpdatePage(n)
    \/ ReadLabels(n) \/ DeleteLabel(n) \/ AddLabels(n) \/ ReadProperty(n) \/ SetProperty(n)
    \/ CreateGeneration(n) \/ PollGeneration(n) \/ LastRead(n) \/ WaitForExport(n)
    \/ Authorize(n) \/ Execute(n)
    \/ StartEmail(n) \/ SendEmail(n) \/ HttpRequest(n) \/ HttpBody(n)
    \/ StartFile(n) \/ SearchDrive(n) \/ CreateInDrive(n) \/ UploadToDrive(n)
    \/ OpenFile(n) \/ WriteBytes(n)
    \/ StartGuardrails(n) \/ CheckAnswers(n) \/ Judge(n)

World == PersonEdits \/ UserAuthorizes \/ (\E g \in DOMAIN gens : GammaProceeds(g))
=============================================================================
