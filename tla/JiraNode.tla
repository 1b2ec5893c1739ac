------------------------------ MODULE JiraNode ------------------------------
(***************************************************************************)
(* The jira node (src/executors/jira.py): the agent that calls the tools   *)
(* of src/tools/providers/jira.py until the model answers in text, and the *)
(* extract operation that pages through a search.                          *)
(***************************************************************************)
EXTENDS NodeHost, FiniteSetsExt

CONSTANTS
    MaxIterations,   \* the node's max_iterations
    PageSize,        \* _EXTRACT_PAGE_SIZE
    MaxAttempts,     \* _EXTRACT_MAX_RETRY_ATTEMPTS
    EmptyPages       \* may Jira answer with an empty page and a token?

ASSUME JiraAssumption ==
    /\ MaxIterations \in Nat
    /\ PageSize \in Nat \ {0}
    /\ MaxAttempts \in Nat \ {0}
    /\ EmptyPages \in BOOLEAN

VARIABLE jira        \* the requests Jira has carried out, in order

\* jira_create_issue, jira_get_issue, ... by their last words.
Tools == {"create", "get", "search", "update", "transition", "comment"}
Served == [by : Nat, run : Nat, tool : Tools, key : Nat]

\* What the model may ask for, and the configuration of the two operations.
ToolCall == [tool : STRING, key : Nat, arg : {None, "id", "name", "json", "not json"}]
Policies == {"best_effort", "require_tool_call", "require_successful_tool_call"}
JiraConfig(n) ==
    \/ Is(n, {"jira"}) /\ n.policy \in Policies /\ n.minimum \in Int /\ n.replies \subseteq Seq(ToolCall)
    \/ Is(n, {"jira_extract"}) /\ n.max \in Nat \ {0} /\ n.total \in Nat

Keys == {jira[i].key : i \in {j \in DOMAIN jira : jira[j].tool = "create"}}

-----------------------------------------------------------------------------
(* Credentials.                                                            *)

\* Each of domain, email and token: the node's own value first, then the
\* workflow's variables, then the deployment's settings.
Resolve(places) ==
    CASE "node" \in places -> "node"
      [] "node" \notin places /\ "variables" \in places -> "variables"
      [] OTHER -> IF "settings" \in places THEN "settings" ELSE None
HasCredentials(n) == Resolve(n.creds) # None

-----------------------------------------------------------------------------
(* One tool call of the agent.                                             *)

Call(n) == Head(node[n].saw)

\* What a tool returns to the model.
Error == [form |-> "error", key |-> 0]
Text(key) == [form |-> "text", key |-> key]
Created(key) == [form |-> "created", key |-> key]

RecordOfAnything(text) == [ok |-> TRUE, key |-> IF text.form = "created" THEN text.key ELSE 0]

\* _run_tool: a text that begins with "Error:" is a failure; the key is read
\* off the text of a successful creation.
RecordOf(text) == [ok |-> text.form # "error",
                   key |-> IF text.form = "created" THEN text.key ELSE 0]

\* The call is recorded, and the next one of the same turn follows.
Record(n, text) ==
    LET rest == Tail(node[n].saw) IN
    Become(n, [node[n] EXCEPT !.acc = Append(@, RecordOf(text)), !.saw = rest,
                              !.pc = IF rest = <<>> THEN "turn" ELSE "tools"])

\* A request: refused or not delivered, carried out but not answered, or
\* carried out and answered with the text.
Request(n, tool, key, text) ==
    \/ Record(n, Error) /\ UNCHANGED jira
    \/ /\ jira' = Append(jira, [by |-> n.id, run |-> node[n].run, tool |-> tool, key |-> key])
       /\ Record(n, Error) \/ Record(n, text)

Calls(n, tool) == At(n, "tools") /\ Call(n).tool = tool

\* _JiraCreateIssueTool
CreateIssue(n) ==
    LET key == Cardinality(Keys) + 1 IN
    /\ Calls(n, "create")
    /\ IF HasCredentials(n) THEN Request(n, "create", key, Created(key))
       ELSE Record(n, Error) /\ UNCHANGED jira
    /\ UNCHANGED <<cast, deaths>>

\* A request about an issue that does not exist is refused.
OnIssue(n, tool) ==
    \E key \in {Call(n).key} :
       IF HasCredentials(n) /\ key \in Keys THEN Request(n, tool, key, Text(key))
       ELSE Record(n, Error) /\ UNCHANGED jira

\* _JiraGetIssueTool
GetIssue(n) ==
    /\ Calls(n, "get")
    /\ OnIssue(n, "get")
    /\ UNCHANGED <<cast, deaths>>

\* _JiraSearchIssuesTool: one page; finding nothing is a success.
SearchIssues(n) ==
    /\ Calls(n, "search")
    /\ IF HasCredentials(n) THEN Request(n, "search", 0, Text(0))
       ELSE Record(n, Error) /\ UNCHANGED jira
    /\ UNCHANGED <<cast, deaths>>

\* _JiraAddCommentTool
AddComment(n) ==
    /\ Calls(n, "comment")
    /\ OnIssue(n, "comment")
    /\ UNCHANGED <<cast, deaths>>

\* _JiraUpdateIssueTool: fields that are not JSON are not sent.
UpdateIssue(n) ==
    /\ Calls(n, "update")
    /\ IF Call(n).arg = "not json" THEN Record(n, Error) /\ UNCHANGED jira
       ELSE OnIssue(n, "update")
    /\ UNCHANGED <<cast, deaths>>

\* _JiraTransitionIssueTool: by id, or by a name that is looked up first.
TransitionIssue(n) ==
    /\ Calls(n, "transition")
    /\ \/ Call(n).arg = None /\ Record(n, Error) /\ UNCHANGED jira
       \/ Call(n).arg = "id" /\ OnIssue(n, "transition")
       \/ /\ Call(n).arg = "name"
          /\ \/ HasCredentials(n) /\ Goto(n, "transition")
             \/ Record(n, Error)
          /\ UNCHANGED jira
    /\ UNCHANGED <<cast, deaths>>

\* The name was found; the transition it stands for is requested.
TransitionByName(n) ==
    /\ At(n, "transition")
    /\ OnIssue(n, "transition")
    /\ UNCHANGED <<cast, deaths>>

\* A tool the node does not have, or one that raises.
UnknownTool(n) ==
    /\ At(n, "tools")
    /\ Call(n).tool \notin Tools
    /\ Record(n, Error)
    /\ UNCHANGED <<cast, deaths, jira>>

-----------------------------------------------------------------------------
(* The agent.                                                              *)

\* _run_agent up to the loop: max_iterations + 1 turns.
StartAgent(n) ==
    /\ At(n, "start")
    /\ Is(n, {"jira"})
    /\ Become(n, [node[n] EXCEPT !.pc = "turn", !.left = MaxIterations + 1])
    /\ UNCHANGED <<cast, deaths, jira>>

\* The model answers with tool calls, and they run one after the other.
ModelCallsTools(n) ==
    /\ At(n, "turn")
    /\ node[n].left > 0
    /\ \E calls \in n.replies \ {<<>>} :
          Become(n, [node[n] EXCEPT !.pc = "tools", !.saw = calls, !.left = @ - 1])
    /\ UNCHANGED <<cast, deaths, jira>>

Successes(n) == Cardinality({i \in DOMAIN node[n].acc : node[n].acc[i].ok})

\* action_policy; minimum_successful_calls counts for at least one.
PolicyRefuses(n) ==
    \/ n.policy # "best_effort" /\ node[n].acc = <<>>
    \/ n.policy = "require_successful_tool_call" /\ Successes(n) < Max({1, n.minimum})

\* The model answers in text: counts, policy, output.
ModelAnswers(n) ==
    /\ At(n, "turn")
    /\ node[n].left > 0
    /\ <<>> \in n.replies
    /\ IF PolicyRefuses(n) THEN Raise(n)
       ELSE Return(n, [calls |-> Len(node[n].acc), ok |-> Successes(n),
                       keys |-> {node[n].acc[i].key : i \in DOMAIN node[n].acc} \ {0}])
    /\ UNCHANGED <<cast, deaths, jira>>

\* JiraMaxIterationsError; a failing model call ends the node as well.
AgentRaises(n) ==
    /\ At(n, "turn")
    /\ Raise(n)
    /\ UNCHANGED <<cast, deaths, jira>>

-----------------------------------------------------------------------------
(* extract.                                                                *)

\* _run_extract: all of domain, email, token and jql must be on the node.
StartExtract(n) ==
    /\ At(n, "start")
    /\ Is(n, {"jira_extract"})
    /\ IF "node" \in n.creds THEN Become(n, [node[n] EXCEPT !.pc = "page", !.saw = FALSE])
       ELSE Raise(n)
    /\ UNCHANGED <<cast, deaths, jira>>

\* left counts the issues collected, saw says whether a token came with the
\* last page.
Remaining(n) == n.max - node[n].left

PageUncapped(n) == PageSize

\* maxResults of the next request.
PageOf(n) == Min({PageSize, Remaining(n)})

\* The pages Jira may answer with: never more than asked for, and a token as
\* long as there is more.
Pages(n) ==
    LET more == n.total - node[n].left IN
    {p \in 0..Min({PageOf(n), more}) : p > 0 \/ more = 0 \/ EmptyPages}

FetchPage(n) ==
    /\ At(n, "page")
    /\ Remaining(n) > 0
    /\ \E p \in Pages(n) :
         LET got == node[n].left + p IN
         IF p = 0 \/ got = n.total
         THEN Return(n, [fetched |-> got, truncated |-> FALSE])
         ELSE Become(n, [node[n] EXCEPT !.left = got, !.saw = TRUE, !.tries = 0])
    /\ UNCHANGED <<cast, deaths, jira>>

\* max_issues is reached.
StopAtCap(n) ==
    /\ At(n, "page")
    /\ Remaining(n) <= 0
    /\ Return(n, [fetched |-> node[n].left, truncated |-> node[n].saw])
    /\ UNCHANGED <<cast, deaths, jira>>

\* _post_search_with_retry: transport errors, 429 and 5xx are tried again.
RetryPage(n) ==
    /\ At(n, "page")
    /\ Remaining(n) > 0
    /\ IF node[n].tries + 1 < MaxAttempts
       THEN Become(n, [node[n] EXCEPT !.tries = @ + 1])
       ELSE Raise(n)
    /\ UNCHANGED <<cast, deaths, jira>>

\* Any other 4xx ends it at once.
PageRefused(n) ==
    /\ At(n, "page")
    /\ Remaining(n) > 0
    /\ Raise(n)
    /\ UNCHANGED <<cast, deaths, jira>>

-----------------------------------------------------------------------------
JiraStep(n) ==
    \/ StartAgent(n) \/ ModelCallsTools(n) \/ ModelAnswers(n) \/ AgentRaises(n)
    \/ CreateIssue(n) \/ GetIssue(n) \/ SearchIssues(n) \/ UpdateIssue(n)
    \/ TransitionIssue(n) \/ TransitionByName(n) \/ AddComment(n) \/ UnknownTool(n)
    \/ StartExtract(n) \/ FetchPage(n) \/ StopAtCap(n) \/ RetryPage(n) \/ PageRefused(n)

\* What Jira carried out for this attempt of the node.
Done(n) == {i \in DOMAIN jira : jira[i].by = n.id /\ jira[i].run = node[n].run}

\* The counts and keys a jira node reports are true of Jira: every key is an
\* issue this attempt created, and there are no more successes than requests
\* that were carried out (ToolCallRecord, created_issue_keys), whatever was
\* refused, timed out or repeated on the way.
JiraReportIsTrue ==
    \A n \in cast : Is(n, {"jira"}) /\ At(n, "completed") =>
       /\ node[n].out.ok <= Cardinality(Done(n))
       /\ \A k \in node[n].out.keys : \E i \in Done(n) : jira[i].tool = "create" /\ jira[i].key = k

\* A node under require_successful_tool_call completes only when Jira really
\* carried out a request of this attempt, and at least as many as configured.
PolicyIsKept ==
    \A n \in cast : Is(n, {"jira"}) /\ At(n, "completed") /\ n.policy = "require_successful_tool_call" =>
       Cardinality(Done(n)) >= Max({1, n.minimum})

\* An extract returns the first max_issues of the matching issues, all of them
\* when there are fewer, and says truncated exactly when it left some out,
\* however Jira cuts its pages and however often a page is asked for again.
ExtractIsExact ==
    \A n \in cast : Is(n, {"jira_extract"}) /\ At(n, "completed") =>
       node[n].out = [fetched |-> Min({n.max, n.total}), truncated |-> n.max < n.total]
=============================================================================
