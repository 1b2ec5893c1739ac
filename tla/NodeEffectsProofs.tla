-------------------------- MODULE NodeEffectsProofs --------------------------
(***************************************************************************)
(* What holds of NodeEffects for every cast of nodes, every configuration  *)
(* of theirs and every bound: what a completed node reports is true of the *)
(* service, an extract is exact, a node that runs again repeats nothing    *)
(* where the service can tell, and no edit is overwritten unseen.          *)
(***************************************************************************)
EXTENDS NodeEffects, FiniteSetTheorems, WellFoundedInduction, TLAPS

-----------------------------------------------------------------------------
(* The workers.                                                            *)

\* The local variables are those that Fresh has.
IsLocal(l) ==
    l = [pc |-> l.pc, run |-> l.run, saw |-> l.saw, acc |-> l.acc, left |-> l.left,
         tries |-> l.tries, out |-> l.out, resumed |-> l.resumed]

\* Which node is where.
Routed(n) ==
    /\ node[n].pc \in {"turn", "tools", "transition"} => Is(n, {"jira"})
    /\ At(n, "page") => Is(n, {"jira_extract"})
    /\ node[n].pc \in {"embed", "store"} => Is(n, {"upsert"})
    /\ At(n, "query") => Is(n, {"query"})
    /\ At(n, "find") => Is(n, {"page", "get_page"})
    /\ node[n].pc \in {"write", "labels", "label"} => Is(n, {"page"})
    /\ At(n, "property") => Is(n, {"get_property", "set_property"})
    /\ At(n, "set") => Is(n, {"set_property"})
    /\ node[n].pc \in {"poll", "export"} => Is(n, {"gamma"})
    /\ node[n].pc \in {"execute", "paused"} => Is(n, {"arcade"})
    /\ At(n, "send") => Is(n, {"email"})
    /\ At(n, "body") => Is(n, {"http"})
    /\ node[n].pc \in {"search", "create", "upload"} => Is(n, {"file", "pdf"}) /\ n.provider = "drive"
    /\ node[n].pc \in {"open", "write_bytes"} => Is(n, {"file", "pdf"}) /\ n.provider # "drive"
    /\ At(n, "checks") => Is(n, {"guardrails"})

\* What the executors keep in common.
Sound(n) ==
    /\ IsLocal(node[n])
    /\ node[n].run \in Nat
    /\ node[n].tries \in 0..MaxAttempts - 1
    /\ node[n].left \in Nat
    /\ Is(n, {"http"}) => node[n].left <= MaxBytes
    /\ Routed(n)
    \* The version that was read, and the page it was read from.
    /\ At(n, "write") => node[n].saw \in 0..Version(page)
    /\ At(n, "set") => node[n].saw \in 0..Version(prop)
    /\ node[n].pc \in {"labels", "label"} => page # None /\ node[n].left \in 0..page.version

HostInv ==
    /\ cast \in Casts
    /\ DOMAIN node = cast
    /\ deaths \in 0..MaxDeaths
    /\ \A n \in cast : Sound(n)
    /\ page # None => page \in Page
    /\ prop # None => prop \in Property
    /\ edits \in 0..MaxEdits

\* A page or a property that is there stays, and its version never goes back.
PagesGrow ==
    /\ page # None => page' # None /\ page'.version >= page.version
    /\ prop # None => prop' # None /\ prop'.version >= prop.version
    /\ page' # None => page' \in Page
    /\ prop' # None => prop' \in Property

\* Node n alone has moved.
Moved(n) ==
    /\ cast' = cast
    /\ DOMAIN node' = DOMAIN node
    /\ \A m \in DOMAIN node \ {n} : node'[m] = node[m]

\* Node n goes to pc and keeps what it knows, but for its output.
Keeps(n, pc) ==
    /\ node'[n].pc = pc
    /\ node'[n].run = node[n].run
    /\ node'[n].saw = node[n].saw
    /\ node'[n].acc = node[n].acc
    /\ node'[n].left = node[n].left
    /\ node'[n].tries = node[n].tries
    /\ node'[n].resumed = node[n].resumed

LEMMA Becoming ==
    ASSUME HostInv, NEW n \in cast, NEW l, Become(n, l)
    PROVE  /\ node'[n] = l
           /\ DOMAIN node' = DOMAIN node
           /\ \A m \in DOMAIN node \ {n} : node'[m] = node[m]
           /\ Sound(n)
  BY DEF Become, HostInv

LEMMA Going ==
    ASSUME HostInv, NEW n \in cast, NEW pc, Goto(n, pc), cast' = cast
    PROVE  Moved(n) /\ IsLocal(node'[n]) /\ Keeps(n, pc) /\ node'[n].out = node[n].out
  <1>1. /\ node'[n] = [node[n] EXCEPT !.pc = pc]
        /\ Sound(n) /\ Moved(n)
    BY Becoming DEF Goto, Moved
  <1> QED
    BY <1>1 DEF Sound, IsLocal, Keeps

LEMMA Returning ==
    ASSUME HostInv, NEW n \in cast, NEW out, Return(n, out), cast' = cast
    PROVE  Moved(n) /\ IsLocal(node'[n]) /\ Keeps(n, "returned") /\ node'[n].out = out
  <1>1. /\ node'[n] = [node[n] EXCEPT !.pc = "returned", !.out = out]
        /\ Sound(n) /\ Moved(n)
    BY Becoming DEF Return, Moved
  <1> QED
    BY <1>1 DEF Sound, IsLocal, Keeps

LEMMA Raising ==
    ASSUME HostInv, NEW n \in cast, Raise(n), cast' = cast
    PROVE  Moved(n) /\ IsLocal(node'[n]) /\ Keeps(n, "raised") /\ node'[n].out = node[n].out /\ Sound(n)'
  <1>1. Moved(n) /\ IsLocal(node'[n]) /\ Keeps(n, "raised") /\ node'[n].out = node[n].out
    BY Going DEF Raise
  <1> QED
    BY <1>1 DEF HostInv, Sound, Keeps, Routed, At

LEMMA ReturnsSoundly ==
    ASSUME HostInv, NEW n \in cast, NEW out, Return(n, out), cast' = cast
    PROVE  Sound(n)'
  <1>1. IsLocal(node'[n]) /\ Keeps(n, "returned")
    BY Returning
  <1> QED
    BY <1>1 DEF HostInv, Sound, Keeps, Routed, At

LEMMA Configured ==
    ASSUME HostInv, NEW n \in cast
    PROVE  n.id \in Nat /\ (JiraConfig(n) \/ VectorConfig(n) \/ OutboundConfig(n))
  BY NodeEffectsAssumption DEF HostInv

\* A step of an agent with its tools.
AgentSteps(n) ==
    \/ StartAgent(n) \/ ModelCallsTools(n) \/ ModelAnswers(n) \/ AgentRaises(n)
    \/ CreateIssue(n) \/ GetIssue(n) \/ SearchIssues(n) \/ UpdateIssue(n)
    \/ TransitionIssue(n) \/ TransitionByName(n) \/ AddComment(n) \/ UnknownTool(n)

\* A call of the tool is recorded, or the node asks for the transitions first.
LEMMA Recording ==
    ASSUME HostInv, NEW n \in cast, NEW text, Record(n, text), cast' = cast,
           node[n].pc \in {"tools", "transition"}
    PROVE  /\ Moved(n) /\ Sound(n)'
           /\ node'[n].pc = IF Tail(node[n].saw) = <<>> THEN "turn" ELSE "tools"
           /\ node'[n].saw = Tail(node[n].saw)
           /\ node'[n].acc = Append(node[n].acc, RecordOf(text))
           /\ node'[n].run = node[n].run
  <1>1. /\ node'[n] = [node[n] EXCEPT !.acc = Append(@, RecordOf(text)), !.saw = Tail(node[n].saw),
                              !.pc = IF Tail(node[n].saw) = <<>> THEN "turn" ELSE "tools"]
        /\ Sound(n) /\ Moved(n)
    BY Becoming DEF Record, Moved
  <1>2. /\ node'[n].pc = IF Tail(node[n].saw) = <<>> THEN "turn" ELSE "tools"
        /\ node'[n].pc \in {"turn", "tools"}
        /\ IsLocal(node'[n])
        /\ node'[n].saw = Tail(node[n].saw)
        /\ node'[n].acc = Append(node[n].acc, RecordOf(text))
        /\ node'[n].run = node[n].run /\ node'[n].left = node[n].left /\ node'[n].tries = node[n].tries
    BY <1>1 DEF Sound, IsLocal
  <1>3. Sound(n)'
    BY <1>1, <1>2 DEF Sound, Routed, At, Is
  <1> QED
    BY <1>1, <1>2, <1>3

\* The jira node.
LEMMA AgentMoves ==
    ASSUME HostInv, NEW n \in cast, AgentSteps(n)
    PROVE  Moved(n) /\ deaths' = deaths /\ Is(n, {"jira"}) /\ Sound(n)'
  <1>0. Sound(n)
    BY DEF HostInv
  <1>1. CASE StartAgent(n)
    <2>1. /\ node'[n] = [node[n] EXCEPT !.pc = "turn", !.left = MaxIterations + 1]
          /\ Moved(n) /\ deaths' = deaths /\ Is(n, {"jira"})
      BY <1>1, Becoming DEF StartAgent, Moved
    <2>2. IsLocal(node'[n]) /\ node'[n].pc = "turn" /\ node'[n].left = MaxIterations + 1
          /\ node'[n].run = node[n].run /\ node'[n].tries = node[n].tries
      BY <1>0, <2>1 DEF IsLocal, Sound
    <2>3. Sound(n)'
      BY <1>0, <2>1, <2>2, JiraAssumption DEF Sound, Routed, At, Is
    <2> QED BY <2>1, <2>3
  <1>2. CASE ModelCallsTools(n)
    <2>1. PICK calls \in n.replies \ {<<>>} :
             Become(n, [node[n] EXCEPT !.pc = "tools", !.saw = calls, !.left = @ - 1])
      BY <1>2 DEF ModelCallsTools
    <2>2. /\ node'[n] = [node[n] EXCEPT !.pc = "tools", !.saw = calls, !.left = @ - 1]
          /\ Moved(n) /\ deaths' = deaths /\ At(n, "turn") /\ node[n].left > 0
      BY <1>2, <2>1, Becoming DEF ModelCallsTools, Moved
    <2>3. IsLocal(node'[n]) /\ node'[n].pc = "tools" /\ node'[n].left = node[n].left - 1
          /\ node'[n].run = node[n].run /\ node'[n].tries = node[n].tries
      BY <1>0, <2>2 DEF IsLocal, Sound
    <2>4. Sound(n)' /\ Is(n, {"jira"})
      BY <1>0, <2>2, <2>3 DEF Sound, Routed, At, Is
    <2> QED BY <2>2, <2>4
  <1>3. CASE ModelAnswers(n)
    BY <1>0, <1>3, Raising, Returning, ReturnsSoundly DEF ModelAnswers, Sound, Routed, At
  <1>4. CASE AgentRaises(n)
    BY <1>0, <1>4, Raising DEF AgentRaises, Sound, Routed, At
  <1>5. CASE CreateIssue(n)
    BY <1>0, <1>5, Recording DEF CreateIssue, Request, Calls, Sound, Routed, At
  <1>6. CASE GetIssue(n)
    BY <1>0, <1>6, Recording DEF GetIssue, OnIssue, Request, Calls, Sound, Routed, At
  <1>7. CASE SearchIssues(n)
    BY <1>0, <1>7, Recording DEF SearchIssues, Request, Calls, Sound, Routed, At
  <1>8. CASE UpdateIssue(n)
    BY <1>0, <1>8, Recording DEF UpdateIssue, OnIssue, Request, Calls, Sound, Routed, At
  <1>9. CASE TransitionIssue(n)
    <2>1. deaths' = deaths /\ cast' = cast /\ At(n, "tools") /\ Is(n, {"jira"})
      BY <1>0, <1>9 DEF TransitionIssue, Calls, Sound, Routed, At
    <2>2. CASE \E text : Record(n, text)
      BY <2>1, <2>2, Recording DEF At
    <2>3. CASE Goto(n, "transition")
      <3>1. Moved(n) /\ IsLocal(node'[n]) /\ Keeps(n, "transition")
        BY <2>1, <2>3, Going
      <3>2. Sound(n)'
        BY <1>0, <2>1, <3>1 DEF Sound, Keeps, Routed, At, Is
      <3> QED BY <2>1, <3>1, <3>2
    <2> QED
      BY <1>9, <2>2, <2>3 DEF TransitionIssue, OnIssue, Request
  <1>10. CASE TransitionByName(n)
    BY <1>0, <1>10, Recording DEF TransitionByName, OnIssue, Request, Sound, Routed, At
  <1>11. CASE AddComment(n)
    BY <1>0, <1>11, Recording DEF AddComment, OnIssue, Request, Calls, Sound, Routed, At
  <1>12. CASE UnknownTool(n)
    BY <1>0, <1>12, Recording DEF UnknownTool, Sound, Routed, At
  <1> QED
    BY <1>1, <1>2, <1>3, <1>4, <1>5, <1>6, <1>7, <1>8, <1>9, <1>10, <1>11, <1>12 DEF AgentSteps

\* A step of an extract.
ExtractSteps(n) ==
    StartExtract(n) \/ FetchPage(n) \/ StopAtCap(n) \/ RetryPage(n) \/ PageRefused(n)

LEMMA ExtractMoves ==
    ASSUME HostInv, NEW n \in cast, ExtractSteps(n)
    PROVE  Moved(n) /\ deaths' = deaths /\ Is(n, {"jira_extract"}) /\ Sound(n)' /\ jira' = jira
  <1>0. Sound(n)
    BY DEF HostInv
  <1>1. CASE StartExtract(n)
    <2>0. cast' = cast /\ deaths' = deaths /\ jira' = jira /\ Is(n, {"jira_extract"})
      BY <1>1 DEF StartExtract
    <2>1. CASE Become(n, [node[n] EXCEPT !.pc = "page", !.saw = FALSE])
      <3>1. node'[n] = [node[n] EXCEPT !.pc = "page", !.saw = FALSE] /\ Moved(n)
        BY <2>0, <2>1, Becoming DEF Moved
      <3>2. IsLocal(node'[n]) /\ node'[n].pc = "page" /\ node'[n].left = node[n].left
            /\ node'[n].run = node[n].run /\ node'[n].tries = node[n].tries
        BY <1>0, <3>1 DEF IsLocal, Sound
      <3>3. Sound(n)'
        BY <1>0, <2>0, <3>2 DEF Sound, Routed, At, Is
      <3> QED BY <2>0, <3>1, <3>3
    <2>2. CASE Raise(n)
      BY <2>0, <2>2, Raising
    <2> QED BY <1>1, <2>1, <2>2 DEF StartExtract
  <1>2. CASE FetchPage(n)
    <2>0. cast' = cast /\ deaths' = deaths /\ jira' = jira /\ Is(n, {"jira_extract"})
      BY <1>0, <1>2 DEF FetchPage, Sound, Routed, At
    <2>1. PICK p \in Nat :
             \/ Return(n, [fetched |-> node[n].left + p, truncated |-> FALSE])
             \/ Become(n, [node[n] EXCEPT !.left = node[n].left + p, !.saw = TRUE, !.tries = 0])
      <3>1. \A p \in Pages(n) : p \in Nat
        BY DEF Pages
      <3>2. \E p \in Pages(n) :
             \/ Return(n, [fetched |-> node[n].left + p, truncated |-> FALSE])
             \/ Become(n, [node[n] EXCEPT !.left = node[n].left + p, !.saw = TRUE, !.tries = 0])
        BY <1>2 DEF FetchPage
      <3> QED BY <3>1, <3>2
    <2>2. CASE Return(n, [fetched |-> node[n].left + p, truncated |-> FALSE])
      BY <2>0, <2>2, Returning, ReturnsSoundly
    <2>3. CASE Become(n, [node[n] EXCEPT !.left = node[n].left + p, !.saw = TRUE, !.tries = 0])
      <3>1. node'[n] = [node[n] EXCEPT !.left = node[n].left + p, !.saw = TRUE, !.tries = 0] /\ Moved(n)
        BY <2>0, <2>3, Becoming DEF Moved
      <3>2. IsLocal(node'[n]) /\ node'[n].pc = node[n].pc /\ node'[n].left = node[n].left + p
            /\ node'[n].run = node[n].run /\ node'[n].tries = 0
        BY <1>0, <3>1 DEF IsLocal, Sound
      <3>3. Sound(n)'
        BY <1>0, <1>2, <2>0, <3>2, JiraAssumption DEF FetchPage, Sound, Routed, At, Is
      <3> QED BY <2>0, <3>1, <3>3
    <2> QED BY <2>1, <2>2, <2>3
  <1>3. CASE StopAtCap(n)
    BY <1>0, <1>3, Returning, ReturnsSoundly DEF StopAtCap, Sound, Routed, At
  <1>4. CASE RetryPage(n)
    <2>0. cast' = cast /\ deaths' = deaths /\ jira' = jira /\ Is(n, {"jira_extract"}) /\ At(n, "page")
      BY <1>0, <1>4 DEF RetryPage, Sound, Routed, At
    <2>1. CASE node[n].tries + 1 < MaxAttempts /\ Become(n, [node[n] EXCEPT !.tries = @ + 1])
      <3>1. node'[n] = [node[n] EXCEPT !.tries = @ + 1] /\ Moved(n)
        BY <2>0, <2>1, Becoming DEF Moved
      <3>2. IsLocal(node'[n]) /\ node'[n].pc = node[n].pc /\ node'[n].left = node[n].left
            /\ node'[n].run = node[n].run /\ node'[n].tries = node[n].tries + 1
        BY <1>0, <3>1 DEF IsLocal, Sound
      <3>3. Sound(n)'
        BY <1>0, <2>0, <2>1, <3>2, JiraAssumption DEF Sound, Routed, At, Is
      <3> QED BY <2>0, <3>1, <3>3
    <2>2. CASE Raise(n)
      BY <2>0, <2>2, Raising
    <2> QED BY <1>4, <2>1, <2>2 DEF RetryPage
  <1>5. CASE PageRefused(n)
    BY <1>0, <1>5, Raising DEF PageRefused, Sound, Routed, At
  <1> QED
    BY <1>1, <1>2, <1>3, <1>4, <1>5 DEF ExtractSteps

\* The vector-db node.
LEMMA VectorMoves ==
    ASSUME HostInv, NEW n \in cast, VectorStep(n)
    PROVE  Moved(n) /\ deaths' = deaths /\ Is(n, {"upsert", "query"}) /\ Sound(n)'
  <1>0. Sound(n)
    BY DEF HostInv
  <1>1. CASE StartUpsert(n)
    <2>0. cast' = cast /\ deaths' = deaths /\ Is(n, {"upsert"})
      BY <1>1 DEF StartUpsert
    <2>1. CASE Become(n, [node[n] EXCEPT !.pc = "embed", !.saw = DOMAIN Chunks(n)])
      <3>1. node'[n] = [node[n] EXCEPT !.pc = "embed", !.saw = DOMAIN Chunks(n)] /\ Moved(n)
        BY <2>0, <2>1, Becoming DEF Moved
      <3>2. IsLocal(node'[n]) /\ node'[n].pc = "embed" /\ node'[n].left = node[n].left
            /\ node'[n].run = node[n].run /\ node'[n].tries = node[n].tries
        BY <1>0, <3>1 DEF IsLocal, Sound
      <3>3. Sound(n)'
        BY <1>0, <2>0, <3>2 DEF Sound, Routed, At, Is
      <3> QED BY <2>0, <3>1, <3>3 DEF Is
    <2>2. CASE Raise(n)
      BY <2>0, <2>2, Raising DEF Is
    <2> QED BY <1>1, <2>1, <2>2 DEF StartUpsert
  <1>2. CASE EmbedChunk(n)
    <2>0. cast' = cast /\ deaths' = deaths /\ Is(n, {"upsert"})
      BY <1>2 DEF EmbedChunk
    <2>1. CASE Raise(n)
      BY <2>0, <2>1, Raising DEF Is
    <2>2. CASE ~Raise(n)
      <3> DEFINE rest == node[n].saw \ {Min(node[n].saw)}
                 pc == IF rest = {} THEN "store" ELSE "embed"
      <3>1. node'[n] = [node[n] EXCEPT !.saw = rest, !.pc = pc] /\ Moved(n)
        BY <1>2, <2>0, <2>2, Becoming DEF EmbedChunk, Moved
      <3> HIDE DEF rest
      <3>2. IsLocal(node'[n]) /\ node'[n].pc \in {"store", "embed"} /\ node'[n].left = node[n].left
            /\ node'[n].run = node[n].run /\ node'[n].tries = node[n].tries
        BY <1>0, <3>1 DEF IsLocal, Sound
      <3>3. Sound(n)'
        BY <1>0, <2>0, <3>2 DEF Sound, Routed, At, Is
      <3> QED BY <2>0, <3>1, <3>3 DEF Is
    <2> QED BY <2>1, <2>2
  <1>3. CASE \E ids : At(n, "store") /\ cast' = cast /\ deaths' = deaths /\ Answered(n, ids)
    BY <1>0, <1>3, Raising, Returning, ReturnsSoundly DEF Answered, Upserted, Sound, Routed, At, Is
  <1>4. CASE At(n, "store") /\ cast' = cast /\ deaths' = deaths /\ Raise(n)
    BY <1>0, <1>4, Raising DEF Sound, Routed, At, Is
  <1>5. CASE StoreById(n)
    BY <1>5, <1>3, <1>4 DEF StoreById
  <1>6. CASE StoreInWeaviate(n)
    BY <1>6, <1>3, <1>4 DEF StoreInWeaviate
  <1>7. CASE InsertInMilvus(n)
    BY <1>7, <1>3, <1>4 DEF InsertInMilvus
  <1>8. CASE StartQuery(n)
    <2>0. cast' = cast /\ deaths' = deaths /\ Is(n, {"query"})
      BY <1>8 DEF StartQuery
    <2>1. CASE Goto(n, "query")
      <3>1. Moved(n) /\ IsLocal(node'[n]) /\ Keeps(n, "query")
        BY <2>0, <2>1, Going
      <3>2. Sound(n)'
        BY <1>0, <2>0, <3>1 DEF Sound, Keeps, Routed, At, Is
      <3> QED BY <2>0, <3>1, <3>2 DEF Is
    <2>2. CASE Raise(n)
      BY <2>0, <2>2, Raising DEF Is
    <2> QED BY <1>8, <2>1, <2>2 DEF StartQuery
  <1>9. CASE Query(n)
    <2>1. cast' = cast /\ deaths' = deaths /\ Is(n, {"upsert", "query"})
      BY <1>0, <1>9 DEF Query, Sound, Routed, At, Is
    <2>2. Raise(n) \/ \E out : Return(n, out)
      BY <1>9 DEF Query
    <2> QED
      BY <2>1, <2>2, Raising, Returning, ReturnsSoundly
  <1> QED
    BY <1>1, <1>2, <1>5, <1>6, <1>7, <1>8, <1>9 DEF VectorStep

LEMMA SamePages ==
    ASSUME HostInv, page' = page, prop' = prop
    PROVE  PagesGrow
  <1>1. \A p \in Page : p.version >= p.version
    BY DEF Page
  <1>2. \A p \in Property : p.version >= p.version
    BY DEF Property
  <1> QED
    BY <1>1, <1>2 DEF HostInv, PagesGrow

LEMMA PageGrows ==
    ASSUME HostInv, prop' = prop, page' \in Page, page # None => page'.version >= page.version
    PROVE  PagesGrow /\ page' # None
  <1>1. page' # None
    BY NodeEffectsAssumption
  <1>2. prop # None => prop.version >= prop.version
    BY DEF HostInv, Property
  <1> QED
    BY <1>1, <1>2 DEF HostInv, PagesGrow

LEMMA PropertyGrows ==
    ASSUME HostInv, page' = page, prop' \in Property, prop # None => prop'.version >= prop.version
    PROVE  PagesGrow /\ prop' # None
  <1>1. prop' # None
    BY NodeEffectsAssumption
  <1>2. page # None => page.version >= page.version
    BY DEF HostInv, Page
  <1> QED
    BY <1>1, <1>2 DEF HostInv, PagesGrow

\* A step of a confluence node.
PageSteps(n) ==
    \/ StartConfluence(n) \/ FindPage(n) \/ CreatePage(n) \/ UpdatePage(n)
    \/ ReadLabels(n) \/ DeleteLabel(n) \/ AddLabels(n) \/ ReadProperty(n) \/ SetProperty(n)

\* The node goes on with the page it has written.
LEMMA Writing ==
    ASSUME HostInv, NEW n \in cast, NEW version, NEW created \in BOOLEAN, Wrote(n, version, created),
           cast' = cast, Is(n, {"page"}), page' # None, page'.version \in Nat, version \in 0..page'.version
    PROVE  /\ Moved(n) /\ Sound(n)'
           /\ node'[n].pc = IF created THEN "label" ELSE "labels"
           /\ node'[n].saw = {} /\ node'[n].left = version /\ node'[n].run = node[n].run
  <1>1. /\ node'[n] = [node[n] EXCEPT !.pc = IF created THEN "label" ELSE "labels", !.acc = <<>>,
                                      !.saw = {}, !.left = version]
        /\ Moved(n) /\ Sound(n)
    BY Becoming DEF Wrote, Moved
  <1>2. /\ IsLocal(node'[n])
        /\ node'[n].pc = IF created THEN "label" ELSE "labels"
        /\ node'[n].pc \in {"label", "labels"}
        /\ node'[n].saw = {} /\ node'[n].left = version
        /\ node'[n].run = node[n].run /\ node'[n].tries = node[n].tries
    BY <1>1 DEF IsLocal, Sound
  <1>3. Sound(n)'
    BY <1>1, <1>2 DEF Sound, Routed, At, Is
  <1> QED
    BY <1>1, <1>2, <1>3

LEMMA PageMoves ==
    ASSUME HostInv, NEW n \in cast, PageSteps(n)
    PROVE  /\ Moved(n) /\ deaths' = deaths /\ Is(n, PageKinds) /\ Sound(n)'
           /\ PagesGrow /\ UNCHANGED <<edits, gens, grant, ran, mails, drive, disk>>
           /\ ~Is(n, {"page"}) => page' = page
           /\ ~Is(n, {"set_property"}) => prop' = prop
  <1> DEFINE Rest == UNCHANGED <<edits, gens, grant, ran, mails, drive, disk>>
  <1>0. Sound(n)
    BY DEF HostInv
  <1>1. CASE StartConfluence(n)
    <2>0. cast' = cast /\ deaths' = deaths /\ Is(n, PageKinds) /\ UNCHANGED outVars /\ page' = page /\ prop' = prop
      BY <1>1 DEF StartConfluence, outVars
    <2>1. PagesGrow /\ Rest
      BY <2>0, SamePages DEF outVars
    <2>2. CASE Raise(n)
      BY <2>0, <2>1, <2>2, Raising
    <2>3. CASE Goto(n, IF Is(n, {"page", "get_page"}) THEN "find" ELSE "property")
      <3>1. PICK pc \in {"find", "property"} : Goto(n, pc) /\ pc = IF Is(n, {"page", "get_page"}) THEN "find" ELSE "property"
        BY <2>3
      <3>2. Moved(n) /\ IsLocal(node'[n]) /\ Keeps(n, pc)
        BY <2>0, <3>1, Going
      <3>3. Sound(n)'
        BY <1>0, <2>0, <3>1, <3>2 DEF Sound, Keeps, Routed, At, Is, PageKinds
      <3> QED BY <2>0, <2>1, <3>2, <3>3
    <2> QED BY <1>1, <2>2, <2>3 DEF StartConfluence
  <1>2. CASE FindPage(n)
    <2>0. cast' = cast /\ deaths' = deaths /\ Is(n, PageKinds) /\ UNCHANGED outVars /\ page' = page /\ prop' = prop
      BY <1>0, <1>2 DEF outVars, FindPage, Sound, Routed, At, Is, PageKinds
    <2>1. PagesGrow /\ Rest
      BY <2>0, SamePages DEF outVars
    <2>2. CASE Raise(n) \/ \E out : Return(n, out)
      BY <2>0, <2>1, <2>2, Raising, Returning, ReturnsSoundly
    <2>3. CASE Is(n, {"page"}) /\ Become(n, [node[n] EXCEPT !.pc = "write", !.saw = Version(page)])
      <3>1. node'[n] = [node[n] EXCEPT !.pc = "write", !.saw = Version(page)] /\ Moved(n)
        BY <2>0, <2>3, Becoming DEF Moved
      <3>2. IsLocal(node'[n]) /\ node'[n].pc = "write" /\ node'[n].left = node[n].left
            /\ node'[n].run = node[n].run /\ node'[n].tries = node[n].tries /\ node'[n].saw = Version(page)
        BY <1>0, <3>1 DEF IsLocal, Sound
      <3>3. Version(page) \in 0..Version(page) /\ page' = page
        BY <2>0 DEF HostInv, Version, Page, outVars
      <3>4. Sound(n)'
        BY <1>0, <2>0, <2>3, <3>2, <3>3 DEF Sound, Routed, At, Is
      <3> QED BY <2>0, <2>1, <3>1, <3>4
    <2> QED BY <1>2, <2>2, <2>3 DEF FindPage
  <1>3. CASE CreatePage(n)
    <2>0. cast' = cast /\ deaths' = deaths /\ Is(n, {"page"}) /\ Is(n, PageKinds) /\ prop' = prop /\ Rest
      BY <1>0, <1>3 DEF CreatePage, Sound, Routed, At, Is, PageKinds, UnchangedButPage
    <2>1. CASE Raise(n) /\ UNCHANGED page
      BY <2>0, <2>1, SamePages, Raising
    <2>2. CASE /\ page = None
               /\ page' = [version |-> 1, body |-> n.body, labels |-> {}, by |-> n.id]
               /\ Wrote(n, 1, TRUE) \/ Raise(n)
      <3>1. n.id \in Nat /\ n.body \in Texts
        BY <2>0, Configured DEF JiraConfig, VectorConfig, OutboundConfig, Is
      <3>2. page' \in Page /\ page'.version = 1
        BY <2>2, <3>1 DEF Page
      <3>3. PagesGrow /\ page' # None
        BY <2>0, <2>2, <3>2, PageGrows
      <3>4. CASE Wrote(n, 1, TRUE)
        <4>1. page'.version \in Nat /\ 1 \in 0..page'.version
          BY <3>2
        <4> QED BY <2>0, <3>3, <3>4, <4>1, Writing
      <3>5. CASE Raise(n)
        BY <2>0, <3>3, <3>5, Raising
      <3> QED BY <2>2, <3>4, <3>5
    <2> QED BY <1>3, <2>1, <2>2 DEF CreatePage
  <1>4. CASE UpdatePage(n)
    <2>0. cast' = cast /\ deaths' = deaths /\ Is(n, {"page"}) /\ Is(n, PageKinds) /\ prop' = prop /\ Rest
          /\ At(n, "write") /\ node[n].saw > 0
      BY <1>0, <1>4 DEF UpdatePage, Sound, Routed, At, Is, PageKinds, UnchangedButPage
    <2>1. page # None /\ page \in Page
      BY <1>0, <2>0 DEF Sound, Version, HostInv
    <2>2. CASE Raise(n) /\ UNCHANGED page
      BY <2>0, <2>2, SamePages, Raising
    <2>3. CASE /\ page.version + 1 = node[n].saw + 1
               /\ page' = [page EXCEPT !.version = @ + 1, !.body = n.body, !.by = n.id]
               /\ Wrote(n, node[n].saw + 1, FALSE) \/ Raise(n)
      <3>1. n.id \in Nat /\ n.body \in Texts
        BY <2>0, Configured DEF JiraConfig, VectorConfig, OutboundConfig, Is
      <3>2. page' \in Page /\ page'.version = page.version + 1
        <4>1. page.version + 1 \in Nat \ {0}
          BY <2>1 DEF Page
        <4>2. \A v \in Nat \ {0} : /\ [page EXCEPT !.version = v, !.body = n.body, !.by = n.id] \in Page
                                  /\ [page EXCEPT !.version = v, !.body = n.body, !.by = n.id].version = v
          BY <2>1, <3>1 DEF Page
        <4> QED BY <2>3, <4>1, <4>2
      <3>3. page' # None /\ page.version \in Nat /\ node[n].saw + 1 = page'.version
        BY <2>1, <2>3, <3>2, NodeEffectsAssumption DEF Page
      <3>4. PagesGrow
        BY <2>0, <3>2, <3>3, PageGrows
      <3>5. CASE Wrote(n, node[n].saw + 1, FALSE)
        <4>1. node[n].saw + 1 \in 0..page'.version /\ page'.version \in Nat
          BY <3>2, <3>3
        <4> QED BY <2>0, <3>3, <3>4, <3>5, <4>1, Writing
      <3>6. CASE Raise(n)
        BY <2>0, <3>4, <3>6, Raising
      <3> QED BY <2>3, <3>5, <3>6
    <2> QED BY <1>4, <2>2, <2>3 DEF UpdatePage
  <1>5. CASE ReadLabels(n)
    <2>0. cast' = cast /\ deaths' = deaths /\ Is(n, {"page"}) /\ Is(n, PageKinds) /\ UNCHANGED outVars /\ page' = page /\ prop' = prop /\ At(n, "labels")
      BY <1>0, <1>5 DEF outVars, ReadLabels, Sound, Routed, At, Is, PageKinds
    <2>1. PagesGrow /\ Rest
      BY <2>0, SamePages DEF outVars
    <2>2. CASE Raise(n)
      BY <2>0, <2>1, <2>2, Raising
    <2>3. CASE Become(n, [node[n] EXCEPT !.pc = "label", !.saw = page.labels])
      <3>1. node'[n] = [node[n] EXCEPT !.pc = "label", !.saw = page.labels] /\ Moved(n)
        BY <2>0, <2>3, Becoming DEF Moved
      <3>2. IsLocal(node'[n]) /\ node'[n].pc = "label" /\ node'[n].left = node[n].left
            /\ node'[n].run = node[n].run /\ node'[n].tries = node[n].tries
        BY <1>0, <3>1 DEF IsLocal, Sound
      <3>3. page' = page
        BY <2>0 DEF outVars
      <3>4. Sound(n)'
        BY <1>0, <2>0, <3>2, <3>3 DEF Sound, Routed, At, Is
      <3> QED BY <2>0, <2>1, <3>1, <3>4
    <2> QED BY <1>5, <2>2, <2>3 DEF ReadLabels
  <1>6. CASE DeleteLabel(n)
    <2>0. cast' = cast /\ deaths' = deaths /\ Is(n, {"page"}) /\ Is(n, PageKinds) /\ prop' = prop /\ Rest /\ At(n, "label")
      BY <1>0, <1>6 DEF DeleteLabel, Sound, Routed, At, Is, PageKinds, UnchangedButPage
    <2>1. page # None /\ page \in Page
      BY <1>0, <2>0 DEF Sound, At, HostInv
    <2>2. PICK name \in node[n].saw \ n.labels :
            \/ /\ page' = [page EXCEPT !.labels = @ \ {name}]
               /\ Become(n, [node[n] EXCEPT !.saw = @ \ {name}]) \/ Raise(n)
            \/ Raise(n) /\ UNCHANGED page
      BY <1>6 DEF DeleteLabel
    <2>3. page' \in Page /\ page'.version = page.version
      BY <2>1, <2>2 DEF Page
    <2>4. page' # None /\ page.version \in Nat
      BY <2>1, <2>3, NodeEffectsAssumption DEF Page
    <2>5. PagesGrow
      BY <2>0, <2>3, <2>4, PageGrows
    <2>6. CASE Raise(n)
      BY <2>0, <2>5, <2>6, Raising
    <2>7. CASE Become(n, [node[n] EXCEPT !.saw = @ \ {name}])
      <3>1. node'[n] = [node[n] EXCEPT !.saw = @ \ {name}] /\ Moved(n)
        BY <2>0, <2>7, Becoming DEF Moved
      <3>2. IsLocal(node'[n]) /\ node'[n].pc = node[n].pc /\ node'[n].left = node[n].left
            /\ node'[n].run = node[n].run /\ node'[n].tries = node[n].tries
        BY <1>0, <3>1 DEF IsLocal, Sound
      <3>3. Sound(n)'
        BY <1>0, <2>0, <2>3, <2>4, <3>2 DEF Sound, Routed, At, Is
      <3> QED BY <2>0, <2>5, <3>1, <3>3
    <2> QED BY <2>2, <2>6, <2>7
  <1>7. CASE AddLabels(n)
    <2>0. cast' = cast /\ deaths' = deaths /\ Is(n, {"page"}) /\ Is(n, PageKinds) /\ prop' = prop /\ Rest /\ At(n, "label")
      BY <1>0, <1>7 DEF AddLabels, Sound, Routed, At, Is, PageKinds, UnchangedButPage
    <2>1. page # None /\ page \in Page
      BY <1>0, <2>0 DEF Sound, At, HostInv
    <2>2. page' = page \/ page' = [page EXCEPT !.labels = @ \cup (n.labels \ node[n].saw)]
      BY <1>7 DEF AddLabels
    <2>3. n.labels \subseteq Texts
      BY <2>0, Configured DEF JiraConfig, VectorConfig, OutboundConfig, Is
    <2>4. page' \in Page /\ page'.version = page.version
      BY <2>1, <2>2, <2>3 DEF Page
    <2>5. page' # None /\ page.version \in Nat
      BY <2>1, <2>4, NodeEffectsAssumption DEF Page
    <2>6. PagesGrow
      BY <2>0, <2>4, <2>5, PageGrows
    <2>7. Raise(n) \/ \E out : Return(n, out)
      BY <1>7 DEF AddLabels
    <2> QED
      BY <2>0, <2>6, <2>7, Raising, Returning, ReturnsSoundly
  <1>8. CASE ReadProperty(n)
    <2>0. cast' = cast /\ deaths' = deaths /\ Is(n, PageKinds) /\ UNCHANGED outVars /\ page' = page /\ prop' = prop
      BY <1>0, <1>8 DEF outVars, ReadProperty, Sound, Routed, At, Is, PageKinds
    <2>1. PagesGrow /\ Rest
      BY <2>0, SamePages DEF outVars
    <2>2. CASE Raise(n) \/ \E out : Return(n, out)
      BY <2>0, <2>1, <2>2, Raising, Returning, ReturnsSoundly
    <2>3. CASE Is(n, {"set_property"}) /\ Become(n, [node[n] EXCEPT !.pc = "set", !.saw = Version(prop)])
      <3>1. node'[n] = [node[n] EXCEPT !.pc = "set", !.saw = Version(prop)] /\ Moved(n)
        BY <2>0, <2>3, Becoming DEF Moved
      <3>2. IsLocal(node'[n]) /\ node'[n].pc = "set" /\ node'[n].left = node[n].left
            /\ node'[n].run = node[n].run /\ node'[n].tries = node[n].tries /\ node'[n].saw = Version(prop)
        BY <1>0, <3>1 DEF IsLocal, Sound
      <3>3. Version(prop) \in 0..Version(prop) /\ prop' = prop
        BY <2>0 DEF HostInv, Version, Property, outVars
      <3>4. Sound(n)'
        BY <1>0, <2>0, <2>3, <3>2, <3>3 DEF Sound, Routed, At, Is
      <3> QED BY <2>0, <2>1, <3>1, <3>4
    <2> QED BY <1>8, <2>2, <2>3 DEF ReadProperty
  <1>9. CASE SetProperty(n)
    <2>0. cast' = cast /\ deaths' = deaths /\ Is(n, {"set_property"}) /\ Is(n, PageKinds) /\ page' = page /\ Rest
      BY <1>0, <1>9 DEF SetProperty, Sound, Routed, At, Is, PageKinds, UnchangedButProp
    <2>1. CASE prop' = prop
      BY <1>9, <2>0, <2>1, SamePages, Raising, Returning, ReturnsSoundly DEF SetProperty
    <2>2. CASE prop' # prop
      <3>1. Version(prop) = node[n].saw /\ prop' = [version |-> node[n].saw + 1, value |-> n.body]
        BY <1>9, <2>2 DEF SetProperty
      <3>2. n.body \in Texts
        BY <2>0, Configured DEF JiraConfig, VectorConfig, OutboundConfig, Is
      <3>3. Version(prop) \in Nat /\ (prop # None => Version(prop) = prop.version)
        BY DEF HostInv, Version, Property
      <3>4. prop' \in Property /\ prop'.version = Version(prop) + 1
        BY <3>1, <3>2, <3>3 DEF Property
      <3>5. prop' # None
        BY <3>4, NodeEffectsAssumption
      <3>6. PagesGrow
        BY <2>0, <3>3, <3>4, PropertyGrows
      <3> QED BY <1>9, <2>0, <2>2, <3>6, Raising, Returning, ReturnsSoundly DEF SetProperty
    <2> QED BY <2>1, <2>2
  <1> QED
    BY <1>1, <1>2, <1>3, <1>4, <1>5, <1>6, <1>7, <1>8, <1>9 DEF PageSteps

\* A step of a gamma-ai node.
GammaSteps(n) == CreateGeneration(n) \/ PollGeneration(n) \/ LastRead(n) \/ WaitForExport(n)

LEMMA GammaMoves ==
    ASSUME HostInv, NEW n \in cast, GammaSteps(n)
    PROVE  /\ Moved(n) /\ deaths' = deaths /\ Is(n, {"gamma"}) /\ Sound(n)'
           /\ UNCHANGED <<page, prop, edits, grant, ran, mails, drive, disk>>
  <1>0. Sound(n)
    BY DEF HostInv
  <1>1. CASE CreateGeneration(n)
    <2>0. cast' = cast /\ deaths' = deaths /\ Is(n, {"gamma"}) /\ UNCHANGED <<page, prop, edits, grant, ran, mails, drive, disk>> /\ page' = page /\ prop' = prop
      BY <1>0, <1>1 DEF CreateGeneration, Sound, Routed, At, Is, UnchangedButGens
    <2>1. CASE Raise(n) \/ \E out : Return(n, out)
      BY <2>0, <2>1, Raising, Returning, ReturnsSoundly
    <2>2. CASE Become(n, [node[n] EXCEPT !.pc = "poll", !.saw = Len(gens) + 1, !.left = MaxPolls])
      <3>1. node'[n] = [node[n] EXCEPT !.pc = "poll", !.saw = Len(gens) + 1, !.left = MaxPolls] /\ Moved(n)
        BY <2>0, <2>2, Becoming DEF Moved
      <3>2. /\ IsLocal(node'[n]) /\ node'[n].run = node[n].run /\ node'[n].tries = node[n].tries
            /\ node'[n].pc = "poll" /\ node'[n].left = MaxPolls
        BY <1>0, <3>1 DEF IsLocal, Sound
      <3>3. Sound(n)'
        BY <1>0, <2>0, <2>2, <3>2, OutboundAssumption DEF Sound, Routed, At, Is
      <3> QED BY <2>0, <3>1, <3>3
    <2> QED BY <1>1, <2>1, <2>2 DEF CreateGeneration
  <1>2. CASE PollGeneration(n)
    <2>0. cast' = cast /\ deaths' = deaths /\ Is(n, {"gamma"}) /\ UNCHANGED <<page, prop, edits, grant, ran, mails, drive, disk>> /\ page' = page /\ prop' = prop
      BY <1>0, <1>2 DEF PollGeneration, Sound, Routed, At, Is, outVars
    <2>1. CASE Raise(n) \/ \E out : Return(n, out)
      BY <2>0, <2>1, Raising, Returning, ReturnsSoundly
    <2>2. CASE node[n].left > 0 /\ Become(n, [node[n] EXCEPT !.left = @ - 1])
      <3>1. node'[n] = [node[n] EXCEPT !.left = @ - 1] /\ Moved(n)
        BY <2>0, <2>2, Becoming DEF Moved
      <3>2. /\ IsLocal(node'[n]) /\ node'[n].run = node[n].run /\ node'[n].tries = node[n].tries
            /\ node'[n].pc = node[n].pc /\ node'[n].left = node[n].left - 1
        BY <1>0, <3>1 DEF IsLocal, Sound
      <3>3. Sound(n)'
        BY <1>0, <2>0, <2>2, <3>2 DEF Sound, Routed, At, Is
      <3> QED BY <2>0, <3>1, <3>3
    <2>3. CASE Become(n, [node[n] EXCEPT !.pc = "export", !.left = MaxPolls, !.out = Report(Generation(n))])
      <3>1. node'[n] = [node[n] EXCEPT !.pc = "export", !.left = MaxPolls, !.out = Report(Generation(n))] /\ Moved(n)
        BY <2>0, <2>3, Becoming DEF Moved
      <3>2. /\ IsLocal(node'[n]) /\ node'[n].run = node[n].run /\ node'[n].tries = node[n].tries
            /\ node'[n].pc = "export" /\ node'[n].left = MaxPolls
        BY <1>0, <3>1 DEF IsLocal, Sound
      <3>3. Sound(n)'
        BY <1>0, <2>0, <2>3, <3>2, OutboundAssumption DEF Sound, Routed, At, Is
      <3> QED BY <2>0, <3>1, <3>3
    <2> QED BY <1>2, <2>1, <2>2, <2>3 DEF PollGeneration, Polled
  <1>3. CASE LastRead(n)
    <2>0. cast' = cast /\ deaths' = deaths /\ Is(n, {"gamma"}) /\ UNCHANGED <<page, prop, edits, grant, ran, mails, drive, disk>> /\ page' = page /\ prop' = prop
      BY <1>0, <1>3 DEF LastRead, Sound, Routed, At, Is, outVars
    <2>1. CASE Raise(n) \/ \E out : Return(n, out)
      BY <2>0, <2>1, Raising, Returning, ReturnsSoundly
    <2>2. CASE Become(n, [node[n] EXCEPT !.pc = "export", !.left = MaxPolls, !.out = Report(Generation(n))])
      <3>1. node'[n] = [node[n] EXCEPT !.pc = "export", !.left = MaxPolls, !.out = Report(Generation(n))] /\ Moved(n)
        BY <2>0, <2>2, Becoming DEF Moved
      <3>2. /\ IsLocal(node'[n]) /\ node'[n].run = node[n].run /\ node'[n].tries = node[n].tries
            /\ node'[n].pc = "export" /\ node'[n].left = MaxPolls
        BY <1>0, <3>1 DEF IsLocal, Sound
      <3>3. Sound(n)'
        BY <1>0, <2>0, <2>2, <3>2, OutboundAssumption DEF Sound, Routed, At, Is
      <3> QED BY <2>0, <3>1, <3>3
    <2>3. CASE Become(n, [node[n] EXCEPT !.pc = "export", !.left = MaxPolls, !.out = Report([state |-> "processing", url |-> FALSE])])
      <3>1. node'[n] = [node[n] EXCEPT !.pc = "export", !.left = MaxPolls, !.out = Report([state |-> "processing", url |-> FALSE])] /\ Moved(n)
        BY <2>0, <2>3, Becoming DEF Moved
      <3>2. /\ IsLocal(node'[n]) /\ node'[n].run = node[n].run /\ node'[n].tries = node[n].tries
            /\ node'[n].pc = "export" /\ node'[n].left = MaxPolls
        BY <1>0, <3>1 DEF IsLocal, Sound
      <3>3. Sound(n)'
        BY <1>0, <2>0, <2>3, <3>2, OutboundAssumption DEF Sound, Routed, At, Is
      <3> QED BY <2>0, <3>1, <3>3
    <2> QED BY <1>3, <2>1, <2>2, <2>3 DEF LastRead, Polled
  <1>4. CASE WaitForExport(n)
    <2>0. cast' = cast /\ deaths' = deaths /\ Is(n, {"gamma"}) /\ UNCHANGED <<page, prop, edits, grant, ran, mails, drive, disk>> /\ page' = page /\ prop' = prop
      BY <1>0, <1>4 DEF WaitForExport, Sound, Routed, At, Is, outVars
    <2>1. CASE Raise(n) \/ \E out : Return(n, out)
      BY <2>0, <2>1, Raising, Returning, ReturnsSoundly
    <2>2. CASE Goto(n, "returned")
      <3>1. Moved(n) /\ IsLocal(node'[n]) /\ Keeps(n, "returned")
        BY <2>0, <2>2, Going
      <3>2. Sound(n)'
        BY <1>0, <2>0, <2>2, <3>1 DEF Sound, Keeps, Routed, At, Is
      <3> QED BY <2>0, <3>1, <3>2
    <2>3. CASE node[n].left > 0 /\ Become(n, [node[n] EXCEPT !.left = @ - 1])
      <3>1. node'[n] = [node[n] EXCEPT !.left = @ - 1] /\ Moved(n)
        BY <2>0, <2>3, Becoming DEF Moved
      <3>2. /\ IsLocal(node'[n]) /\ node'[n].run = node[n].run /\ node'[n].tries = node[n].tries
            /\ node'[n].pc = node[n].pc /\ node'[n].left = node[n].left - 1
        BY <1>0, <3>1 DEF IsLocal, Sound
      <3>3. Sound(n)'
        BY <1>0, <2>0, <2>3, <3>2 DEF Sound, Routed, At, Is
      <3> QED BY <2>0, <3>1, <3>3
    <2> QED BY <1>4, <2>1, <2>2, <2>3 DEF WaitForExport
  <1> QED
    BY <1>1, <1>2, <1>3, <1>4 DEF GammaSteps

\* A step of an arcade node.
ArcadeSteps(n) == Authorize(n) \/ Execute(n)

LEMMA ArcadeMoves ==
    ASSUME HostInv, NEW n \in cast, ArcadeSteps(n)
    PROVE  /\ Moved(n) /\ deaths' = deaths /\ Is(n, {"arcade"}) /\ Sound(n)'
           /\ UNCHANGED <<page, prop, edits, gens, grant, mails, drive, disk>>
  <1>0. Sound(n)
    BY DEF HostInv
  <1>1. CASE Authorize(n)
    <2>0. cast' = cast /\ deaths' = deaths /\ Is(n, {"arcade"}) /\ UNCHANGED <<page, prop, edits, gens, grant, mails, drive, disk>> /\ page' = page /\ prop' = prop
      BY <1>0, <1>1 DEF Authorize, Sound, Routed, At, Is, outVars
    <2>1. CASE Raise(n) \/ \E out : Return(n, out)
      BY <2>0, <2>1, Raising, Returning, ReturnsSoundly
    <2>2. CASE Goto(n, "execute")
      <3>1. Moved(n) /\ IsLocal(node'[n]) /\ Keeps(n, "execute")
        BY <2>0, <2>2, Going
      <3>2. Sound(n)'
        BY <1>0, <2>0, <2>2, <3>1 DEF Sound, Keeps, Routed, At, Is
      <3> QED BY <2>0, <3>1, <3>2
    <2>3. CASE Goto(n, "paused")
      <3>1. Moved(n) /\ IsLocal(node'[n]) /\ Keeps(n, "paused")
        BY <2>0, <2>3, Going
      <3>2. Sound(n)'
        BY <1>0, <2>0, <2>3, <3>1 DEF Sound, Keeps, Routed, At, Is
      <3> QED BY <2>0, <3>1, <3>2
    <2> QED BY <1>1, <2>1, <2>2, <2>3 DEF Authorize
  <1>2. CASE Execute(n)
    <2>0. cast' = cast /\ deaths' = deaths /\ Is(n, {"arcade"}) /\ UNCHANGED <<page, prop, edits, gens, grant, mails, drive, disk>> /\ page' = page /\ prop' = prop
      BY <1>0, <1>2 DEF Execute, Sound, Routed, At, Is
    <2>1. CASE Raise(n) \/ \E out : Return(n, out)
      BY <2>0, <2>1, Raising, Returning, ReturnsSoundly
    <2> QED BY <1>2, <2>1 DEF Execute
  <1> QED
    BY <1>1, <1>2 DEF ArcadeSteps

\* A step of an email node.
MailSteps(n) == StartEmail(n) \/ SendEmail(n)

LEMMA MailMoves ==
    ASSUME HostInv, NEW n \in cast, MailSteps(n)
    PROVE  /\ Moved(n) /\ deaths' = deaths /\ Is(n, {"email"}) /\ Sound(n)'
           /\ UNCHANGED <<page, prop, edits, gens, grant, ran, drive, disk>>
  <1>0. Sound(n)
    BY DEF HostInv
  <1>1. CASE StartEmail(n)
    <2>0. cast' = cast /\ deaths' = deaths /\ Is(n, {"email"}) /\ UNCHANGED <<page, prop, edits, gens, grant, ran, drive, disk>> /\ page' = page /\ prop' = prop
      BY <1>0, <1>1 DEF StartEmail, Sound, Routed, At, Is, outVars
    <2>1. CASE Raise(n) \/ \E out : Return(n, out)
      BY <2>0, <2>1, Raising, Returning, ReturnsSoundly
    <2>2. CASE Goto(n, "send")
      <3>1. Moved(n) /\ IsLocal(node'[n]) /\ Keeps(n, "send")
        BY <2>0, <2>2, Going
      <3>2. Sound(n)'
        BY <1>0, <2>0, <2>2, <3>1 DEF Sound, Keeps, Routed, At, Is
      <3> QED BY <2>0, <3>1, <3>2
    <2> QED BY <1>1, <2>1, <2>2 DEF StartEmail
  <1>2. CASE SendEmail(n)
    <2>0. cast' = cast /\ deaths' = deaths /\ Is(n, {"email"}) /\ UNCHANGED <<page, prop, edits, gens, grant, ran, drive, disk>> /\ page' = page /\ prop' = prop
      BY <1>0, <1>2 DEF SendEmail, Sound, Routed, At, Is
    <2>1. CASE Raise(n) \/ \E out : Return(n, out)
      BY <2>0, <2>1, Raising, Returning, ReturnsSoundly
    <2> QED BY <1>2, <2>1 DEF SendEmail
  <1> QED
    BY <1>1, <1>2 DEF MailSteps

\* A step of an http node.
HttpSteps(n) == HttpRequest(n) \/ HttpBody(n)

LEMMA HttpMoves ==
    ASSUME HostInv, NEW n \in cast, HttpSteps(n)
    PROVE  /\ Moved(n) /\ deaths' = deaths /\ Is(n, {"http"}) /\ Sound(n)'
           /\ UNCHANGED <<page, prop, edits, gens, grant, ran, mails, drive, disk>>
  <1>0. Sound(n)
    BY DEF HostInv
  <1>1. CASE HttpRequest(n)
    <2>0. cast' = cast /\ deaths' = deaths /\ Is(n, {"http"}) /\ UNCHANGED <<page, prop, edits, gens, grant, ran, mails, drive, disk>> /\ page' = page /\ prop' = prop
      BY <1>0, <1>1 DEF HttpRequest, Sound, Routed, At, Is, outVars
    <2>1. CASE Raise(n) \/ \E out : Return(n, out)
      BY <2>0, <2>1, Raising, Returning, ReturnsSoundly
    <2>2. CASE Become(n, [node[n] EXCEPT !.pc = "body"])
      <3>1. node'[n] = [node[n] EXCEPT !.pc = "body"] /\ Moved(n)
        BY <2>0, <2>2, Becoming DEF Moved
      <3>2. /\ IsLocal(node'[n]) /\ node'[n].run = node[n].run /\ node'[n].tries = node[n].tries
            /\ node'[n].pc = "body" /\ node'[n].left = node[n].left
        BY <1>0, <3>1 DEF IsLocal, Sound
      <3>3. Sound(n)'
        BY <1>0, <2>0, <2>2, <3>2 DEF Sound, Routed, At, Is
      <3> QED BY <2>0, <3>1, <3>3
    <2> QED BY <1>1, <2>1, <2>2 DEF HttpRequest
  <1>2. CASE HttpBody(n)
    <2>0. cast' = cast /\ deaths' = deaths /\ Is(n, {"http"}) /\ UNCHANGED <<page, prop, edits, gens, grant, ran, mails, drive, disk>> /\ page' = page /\ prop' = prop
      BY <1>0, <1>2 DEF HttpBody, Sound, Routed, At, Is, outVars
    <2>1. CASE Raise(n) \/ \E out : Return(n, out)
      BY <2>0, <2>1, Raising, Returning, ReturnsSoundly
    <2>2. ASSUME NEW size \in 1..MaxBytes, node[n].left + size <= MaxBytes,
                 Become(n, [node[n] EXCEPT !.left = @ + size])
          PROVE  Moved(n) /\ Sound(n)'
      <3>1. node'[n] = [node[n] EXCEPT !.left = @ + size] /\ Moved(n)
        BY <2>0, <2>2, Becoming DEF Moved
      <3>2. /\ IsLocal(node'[n]) /\ node'[n].run = node[n].run /\ node'[n].tries = node[n].tries
            /\ node'[n].pc = node[n].pc /\ node'[n].left = node[n].left + size
        BY <1>0, <3>1 DEF IsLocal, Sound
      <3>3. Sound(n)'
        <4>1. node[n].left + size \in Nat
          BY <1>0, OutboundAssumption DEF Sound
        <4> QED BY <1>0, <1>2, <2>0, <2>2, <3>2, <4>1 DEF HttpBody, Sound, Routed, At, Is
      <3> QED BY <3>1, <3>3
    <2>3. ASSUME NEW size \in 1..MaxBytes, ~(node[n].left + size > MaxBytes)
          PROVE  node[n].left + size <= MaxBytes
      BY <1>0, <2>3, OutboundAssumption DEF Sound
    <2> QED BY <1>2, <2>0, <2>1, <2>2, <2>3 DEF HttpBody
  <1> QED
    BY <1>1, <1>2 DEF HttpSteps

\* A step of a file-write or download-pdf node.
FileSteps(n) == StartFile(n) \/ SearchDrive(n) \/ CreateInDrive(n) \/ UploadToDrive(n) \/ OpenFile(n) \/ WriteBytes(n)

LEMMA FileMoves ==
    ASSUME HostInv, NEW n \in cast, FileSteps(n)
    PROVE  /\ Moved(n) /\ deaths' = deaths /\ Is(n, {"file", "pdf"}) /\ Sound(n)'
           /\ UNCHANGED <<page, prop, edits, gens, grant, ran, mails>>
  <1>0. Sound(n)
    BY DEF HostInv
  <1>1. CASE StartFile(n)
    <2>0. cast' = cast /\ deaths' = deaths /\ Is(n, {"file", "pdf"}) /\ UNCHANGED <<page, prop, edits, gens, grant, ran, mails>> /\ page' = page /\ prop' = prop
      BY <1>0, <1>1 DEF StartFile, Sound, Routed, At, Is, outVars
    <2>1. CASE Raise(n) \/ \E out : Return(n, out)
      BY <2>0, <2>1, Raising, Returning, ReturnsSoundly
    <2>2. CASE n.provider = "drive" /\ Goto(n, "search")
      <3>1. Moved(n) /\ IsLocal(node'[n]) /\ Keeps(n, "search")
        BY <2>0, <2>2, Going
      <3>2. Sound(n)'
        BY <1>0, <2>0, <2>2, <3>1 DEF Sound, Keeps, Routed, At, Is
      <3> QED BY <2>0, <3>1, <3>2
    <2>3. CASE n.provider # "drive" /\ Goto(n, "open")
      <3>1. Moved(n) /\ IsLocal(node'[n]) /\ Keeps(n, "open")
        BY <2>0, <2>3, Going
      <3>2. Sound(n)'
        BY <1>0, <2>0, <2>3, <3>1 DEF Sound, Keeps, Routed, At, Is
      <3> QED BY <2>0, <3>1, <3>2
    <2> QED BY <1>1, <2>1, <2>2, <2>3 DEF StartFile
  <1>2. CASE SearchDrive(n)
    <2>0. cast' = cast /\ deaths' = deaths /\ Is(n, {"file", "pdf"}) /\ UNCHANGED <<page, prop, edits, gens, grant, ran, mails>> /\ page' = page /\ prop' = prop
      BY <1>0, <1>2 DEF SearchDrive, Sound, Routed, At, Is, outVars
    <2>1. CASE Raise(n) \/ \E out : Return(n, out)
      BY <2>0, <2>1, Raising, Returning, ReturnsSoundly
    <2>2. CASE At(n, "search") /\ Goto(n, "create")
      <3>1. Moved(n) /\ IsLocal(node'[n]) /\ Keeps(n, "create")
        BY <2>0, <2>2, Going
      <3>2. Sound(n)'
        BY <1>0, <2>0, <2>2, <3>1 DEF Sound, Keeps, Routed, At, Is
      <3> QED BY <2>0, <3>1, <3>2
    <2>3. CASE At(n, "search") /\ Become(n, [node[n] EXCEPT !.pc = "upload", !.saw = 1])
      <3>1. node'[n] = [node[n] EXCEPT !.pc = "upload", !.saw = 1] /\ Moved(n)
        BY <2>0, <2>3, Becoming DEF Moved
      <3>2. /\ IsLocal(node'[n]) /\ node'[n].run = node[n].run /\ node'[n].tries = node[n].tries
            /\ node'[n].pc = "upload" /\ node'[n].left = node[n].left
        BY <1>0, <3>1 DEF IsLocal, Sound
      <3>3. Sound(n)'
        BY <1>0, <2>0, <2>3, <3>2 DEF Sound, Routed, At, Is
      <3> QED BY <2>0, <3>1, <3>3
    <2> QED BY <1>2, <2>1, <2>2, <2>3 DEF SearchDrive
  <1>3. CASE CreateInDrive(n)
    <2>0. cast' = cast /\ deaths' = deaths /\ Is(n, {"file", "pdf"}) /\ UNCHANGED <<page, prop, edits, gens, grant, ran, mails>> /\ page' = page /\ prop' = prop
      BY <1>0, <1>3 DEF CreateInDrive, Sound, Routed, At, Is, UnchangedButDrive
    <2>1. CASE Raise(n) \/ \E out : Return(n, out)
      BY <2>0, <2>1, Raising, Returning, ReturnsSoundly
    <2>2. CASE At(n, "create") /\ Become(n, [node[n] EXCEPT !.pc = "upload", !.saw = Len(drive) + 1])
      <3>1. node'[n] = [node[n] EXCEPT !.pc = "upload", !.saw = Len(drive) + 1] /\ Moved(n)
        BY <2>0, <2>2, Becoming DEF Moved
      <3>2. /\ IsLocal(node'[n]) /\ node'[n].run = node[n].run /\ node'[n].tries = node[n].tries
            /\ node'[n].pc = "upload" /\ node'[n].left = node[n].left
        BY <1>0, <3>1 DEF IsLocal, Sound
      <3>3. Sound(n)'
        BY <1>0, <2>0, <2>2, <3>2 DEF Sound, Routed, At, Is
      <3> QED BY <2>0, <3>1, <3>3
    <2> QED BY <1>3, <2>1, <2>2 DEF CreateInDrive
  <1>4. CASE UploadToDrive(n)
    <2>0. cast' = cast /\ deaths' = deaths /\ Is(n, {"file", "pdf"}) /\ UNCHANGED <<page, prop, edits, gens, grant, ran, mails>> /\ page' = page /\ prop' = prop
      BY <1>0, <1>4 DEF UploadToDrive, Sound, Routed, At, Is, UnchangedButDrive
    <2>1. CASE Raise(n) \/ \E out : Return(n, out)
      BY <2>0, <2>1, Raising, Returning, ReturnsSoundly
    <2> QED BY <1>4, <2>1 DEF UploadToDrive
  <1>5. CASE OpenFile(n)
    <2>0. cast' = cast /\ deaths' = deaths /\ Is(n, {"file", "pdf"}) /\ UNCHANGED <<page, prop, edits, gens, grant, ran, mails>> /\ page' = page /\ prop' = prop
      BY <1>0, <1>5 DEF OpenFile, Sound, Routed, At, Is
    <2>1. CASE Raise(n) \/ \E out : Return(n, out)
      BY <2>0, <2>1, Raising, Returning, ReturnsSoundly
    <2>2. CASE At(n, "open") /\ Goto(n, "write_bytes")
      <3>1. Moved(n) /\ IsLocal(node'[n]) /\ Keeps(n, "write_bytes")
        BY <2>0, <2>2, Going
      <3>2. Sound(n)'
        BY <1>0, <2>0, <2>2, <3>1 DEF Sound, Keeps, Routed, At, Is
      <3> QED BY <2>0, <3>1, <3>2
    <2> QED BY <1>5, <2>1, <2>2 DEF OpenFile
  <1>6. CASE WriteBytes(n)
    <2>0. cast' = cast /\ deaths' = deaths /\ Is(n, {"file", "pdf"}) /\ UNCHANGED <<page, prop, edits, gens, grant, ran, mails>> /\ page' = page /\ prop' = prop
      BY <1>0, <1>6 DEF WriteBytes, Sound, Routed, At, Is
    <2>1. CASE Raise(n) \/ \E out : Return(n, out)
      BY <2>0, <2>1, Raising, Returning, ReturnsSoundly
    <2> QED BY <1>6, <2>1 DEF WriteBytes
  <1> QED
    BY <1>1, <1>2, <1>3, <1>4, <1>5, <1>6 DEF FileSteps

\* A step of a guardrails node.
GuardSteps(n) == StartGuardrails(n) \/ CheckAnswers(n) \/ Judge(n)

LEMMA GuardMoves ==
    ASSUME HostInv, NEW n \in cast, GuardSteps(n)
    PROVE  /\ Moved(n) /\ deaths' = deaths /\ Is(n, {"guardrails"}) /\ Sound(n)'
           /\ UNCHANGED <<page, prop, edits, gens, grant, ran, mails, drive, disk>>
  <1>0. Sound(n)
    BY DEF HostInv
  <1>1. CASE StartGuardrails(n)
    <2>0. cast' = cast /\ deaths' = deaths /\ Is(n, {"guardrails"}) /\ UNCHANGED <<page, prop, edits, gens, grant, ran, mails, drive, disk>> /\ page' = page /\ prop' = prop
      BY <1>0, <1>1 DEF StartGuardrails, Sound, Routed, At, Is, outVars
    <2>1. CASE Raise(n) \/ \E out : Return(n, out)
      BY <2>0, <2>1, Raising, Returning, ReturnsSoundly
    <2>2. CASE Become(n, [node[n] EXCEPT !.pc = "checks", !.saw = n.checks, !.out = [violations |-> {}]])
      <3>1. node'[n] = [node[n] EXCEPT !.pc = "checks", !.saw = n.checks, !.out = [violations |-> {}]] /\ Moved(n)
        BY <2>0, <2>2, Becoming DEF Moved
      <3>2. /\ IsLocal(node'[n]) /\ node'[n].run = node[n].run /\ node'[n].tries = node[n].tries
            /\ node'[n].pc = "checks" /\ node'[n].left = node[n].left
        BY <1>0, <3>1 DEF IsLocal, Sound
      <3>3. Sound(n)'
        BY <1>0, <2>0, <2>2, <3>2 DEF Sound, Routed, At, Is
      <3> QED BY <2>0, <3>1, <3>3
    <2> QED BY <1>1, <2>1, <2>2 DEF StartGuardrails
  <1>2. CASE CheckAnswers(n)
    <2>0. cast' = cast /\ deaths' = deaths /\ Is(n, {"guardrails"}) /\ UNCHANGED <<page, prop, edits, gens, grant, ran, mails, drive, disk>> /\ page' = page /\ prop' = prop
      BY <1>0, <1>2 DEF CheckAnswers, Sound, Routed, At, Is, outVars
    <2>1. CASE Raise(n) \/ \E out : Return(n, out)
      BY <2>0, <2>1, Raising, Returning, ReturnsSoundly
    <2>2. ASSUME NEW check,
                 Become(n, [node[n] EXCEPT !.saw = @ \ {check}, !.out.violations = @ \cup ({check} \cap n.flagged)])
          PROVE  Moved(n) /\ Sound(n)'
      <3>1. /\ node'[n] = [node[n] EXCEPT !.saw = @ \ {check}, !.out.violations = @ \cup ({check} \cap n.flagged)]
            /\ Moved(n)
        BY <2>0, <2>2, Becoming DEF Moved
      <3>2. /\ IsLocal(node'[n]) /\ node'[n].run = node[n].run /\ node'[n].tries = node[n].tries
            /\ node'[n].pc = node[n].pc /\ node'[n].left = node[n].left
        BY <1>0, <3>1 DEF IsLocal, Sound
      <3>3. Sound(n)'
        BY <1>0, <1>2, <2>0, <3>2 DEF CheckAnswers, Sound, Routed, At, Is
      <3> QED BY <3>1, <3>3
    <2> QED BY <1>2, <2>0, <2>1, <2>2 DEF CheckAnswers
  <1>3. CASE Judge(n)
    <2>0. cast' = cast /\ deaths' = deaths /\ Is(n, {"guardrails"}) /\ UNCHANGED <<page, prop, edits, gens, grant, ran, mails, drive, disk>> /\ page' = page /\ prop' = prop
      BY <1>0, <1>3 DEF Judge, Sound, Routed, At, Is, outVars
    <2>1. CASE Raise(n) \/ \E out : Return(n, out)
      BY <2>0, <2>1, Raising, Returning, ReturnsSoundly
    <2>2. CASE Goto(n, "returned")
      <3>1. Moved(n) /\ IsLocal(node'[n]) /\ Keeps(n, "returned")
        BY <2>0, <2>2, Going
      <3>2. Sound(n)'
        BY <1>0, <2>0, <2>2, <3>1 DEF Sound, Keeps, Routed, At, Is
      <3> QED BY <2>0, <3>1, <3>2
    <2> QED BY <1>3, <2>1, <2>2 DEF Judge
  <1> QED
    BY <1>1, <1>2, <1>3 DEF GuardSteps

\* What a worker keeps of node n when it begins anew.
Restarted(n) ==
    /\ node'[n].pc = "start" /\ node'[n].run = node[n].run + 1
    /\ node'[n].acc = <<>> /\ node'[n].left = 0 /\ node'[n].tries = 0

\* What the node came to is stored.
Stored(n) ==
    \/ At(n, "returned") /\ Keeps(n, "completed") /\ node'[n].out = node[n].out
    \/ At(n, "raised") /\ Keeps(n, "failed") /\ node'[n].out = node[n].out

\* A result is stored, a worker dies, or a paused node is resumed.
HostStep(n) == (StoreResult(n) \/ WorkerDies(n) \/ Resume(n)) /\ UNCHANGED <<jira, index, outVars>>

LEMMA HostMoves ==
    ASSUME HostInv, NEW n \in cast, HostStep(n)
    PROVE  Moved(n) /\ deaths' \in 0..MaxDeaths /\ Sound(n)' /\ (Stored(n) \/ Restarted(n))
  <1>0. Sound(n) /\ cast' = cast /\ page' = page /\ prop' = prop
    BY DEF HostInv, HostStep, StoreResult, WorkerDies, Resume, outVars
  <1>1. CASE StoreResult(n)
    <2>0. deaths' \in 0..MaxDeaths
      BY <1>1 DEF HostInv, StoreResult
    <2>1. PICK pc \in {"completed", "failed"} : Goto(n, pc) /\ pc = IF At(n, "returned") THEN "completed" ELSE "failed"
      BY <1>1 DEF StoreResult
    <2>2. Moved(n) /\ IsLocal(node'[n]) /\ Keeps(n, pc) /\ node'[n].out = node[n].out
      BY <1>0, <2>1, Going
    <2>3. Sound(n)'
      BY <1>0, <2>1, <2>2 DEF Sound, Keeps, Routed, At
    <2>4. Stored(n)
      BY <1>1, <2>1, <2>2 DEF StoreResult, Stored, At
    <2> QED BY <2>0, <2>2, <2>3, <2>4
  <1>2. ASSUME NEW resumed, Become(n, [Fresh(node[n].run + 1) EXCEPT !.resumed = resumed])
        PROVE  Moved(n) /\ Sound(n)' /\ Restarted(n)
    <2>1. node'[n] = [Fresh(node[n].run + 1) EXCEPT !.resumed = resumed] /\ Moved(n)
      BY <1>0, <1>2, Becoming DEF Moved
    <2>2. /\ IsLocal(node'[n]) /\ Restarted(n)
      BY <2>1 DEF IsLocal, Fresh, Restarted
    <2>3. Sound(n)'
      BY <1>0, <2>2, OutboundAssumption, JiraAssumption DEF Sound, Restarted, Routed, At
    <2> QED BY <2>1, <2>2, <2>3
  <1>3. CASE WorkerDies(n)
    <2>1. deaths' \in 0..MaxDeaths
      BY <1>3, NodeHostAssumption DEF HostInv, WorkerDies
    <2> QED BY <1>2, <1>3, <2>1 DEF WorkerDies
  <1>4. CASE Resume(n)
    <2>1. deaths' \in 0..MaxDeaths
      BY <1>4 DEF HostInv, Resume
    <2> QED BY <1>2, <1>4, <2>1 DEF Resume
  <1> QED
    BY <1>1, <1>3, <1>4 DEF HostStep

\* The world moves on without the workers.
LEMMA WorldMoves ==
    ASSUME HostInv, World
    PROVE  cast' = cast /\ node' = node /\ deaths' = deaths /\ PagesGrow /\ edits' \in 0..MaxEdits
  <1>1. CASE PersonEdits
    <2>1. cast' = cast /\ node' = node /\ deaths' = deaths /\ prop' = prop /\ edits' \in 0..MaxEdits
      BY <1>1, OutboundAssumption DEF PersonEdits, hostVars, HostInv
    <2>2. page \in Page /\ page' = [page EXCEPT !.version = @ + 1, !.body = "person", !.labels = {"old"}, !.by = 0]
      BY <1>1 DEF PersonEdits, HostInv
    <2>3. page' \in Page /\ page'.version >= page.version
      <3>1. page.version + 1 \in Nat \ {0} /\ page.version + 1 >= page.version
        BY <2>2 DEF Page
      <3>2. "person" \in Texts /\ {"old"} \in SUBSET Texts
        BY DEF Texts
      <3>3. \A v \in Nat \ {0}, body \in Texts, labels \in SUBSET Texts :
               /\ [page EXCEPT !.version = v, !.body = body, !.labels = labels, !.by = 0] \in Page
               /\ [page EXCEPT !.version = v, !.body = body, !.labels = labels, !.by = 0].version = v
        BY <2>2 DEF Page
      <3>4. page' = [page EXCEPT !.version = page.version + 1, !.body = "person", !.labels = {"old"}, !.by = 0]
        BY <2>2
      <3>5. PICK v \in Nat \ {0}, body \in Texts, labels \in SUBSET Texts :
               v = page.version + 1 /\ body = "person" /\ labels = {"old"}
        BY <3>1, <3>2
      <3>6. page' = [page EXCEPT !.version = v, !.body = body, !.labels = labels, !.by = 0]
        BY <3>4, <3>5
      <3>7. page' \in Page /\ page'.version = v
        BY <3>3, <3>6
      <3> QED BY <3>1, <3>5, <3>7
    <2> QED BY <2>1, <2>3, PageGrows
  <1>2. CASE UserAuthorizes \/ \E g \in DOMAIN gens : GammaProceeds(g)
    BY <1>2, SamePages DEF UserAuthorizes, GammaProceeds, UnchangedButGens, hostVars, HostInv
  <1> QED
    BY <1>1, <1>2 DEF World

\* Every step is one of these.
ServiceSteps(n) ==
    \/ AgentSteps(n) /\ UNCHANGED <<index, outVars>>
    \/ ExtractSteps(n) /\ UNCHANGED <<index, outVars>>
    \/ VectorStep(n) /\ UNCHANGED <<jira, outVars>>
    \/ PageSteps(n) /\ UNCHANGED <<jira, index>>
    \/ GammaSteps(n) /\ UNCHANGED <<jira, index>>
    \/ ArcadeSteps(n) /\ UNCHANGED <<jira, index>>
    \/ MailSteps(n) /\ UNCHANGED <<jira, index>>
    \/ HttpSteps(n) /\ UNCHANGED <<jira, index>>
    \/ FileSteps(n) /\ UNCHANGED <<jira, index>>
    \/ GuardSteps(n) /\ UNCHANGED <<jira, index>>

LEMMA EveryStep ==
    ASSUME [Next]_vars
    PROVE  \/ \E n \in cast : ServiceSteps(n) \/ HostStep(n)
           \/ World /\ UNCHANGED <<jira, index>>
           \/ UNCHANGED vars
  <1>1. ASSUME NEW n \in cast, Step(n)
        PROVE  ServiceSteps(n) \/ HostStep(n)
    <2>1. CASE JiraStep(n) /\ UNCHANGED <<index, outVars>>
      BY <2>1 DEF JiraStep, AgentSteps, ExtractSteps, ServiceSteps
    <2>2. CASE VectorStep(n) /\ UNCHANGED <<jira, outVars>>
      BY <2>2 DEF ServiceSteps
    <2>3. CASE OutboundStep(n) /\ UNCHANGED <<jira, index>>
      BY <2>3 DEF OutboundStep, PageSteps, GammaSteps, ArcadeSteps, MailSteps, HttpSteps, FileSteps, GuardSteps, ServiceSteps
    <2>4. CASE StoreResult(n) /\ UNCHANGED <<jira, index, outVars>>
      BY <2>4 DEF HostStep
    <2> QED BY <1>1, <2>1, <2>2, <2>3, <2>4 DEF Step
  <1>2. ASSUME NEW n \in cast, \/ WorkerDies(n) /\ UNCHANGED <<jira, index, outVars>>
                               \/ Resume(n) /\ UNCHANGED <<jira, index>>
        PROVE  HostStep(n)
    BY <1>2 DEF HostStep, Resume
  <1> QED BY <1>1, <1>2 DEF Next

\* Of one node's step: the others stay where they are, and so do the services
\* that are not its own.
LEMMA ServiceMoves ==
    ASSUME HostInv, NEW n \in cast, ServiceSteps(n)
    PROVE  /\ Moved(n) /\ deaths' = deaths /\ Sound(n)' /\ PagesGrow /\ edits' = edits
           /\ ~Is(n, {"jira"}) => jira' = jira
           /\ ~Is(n, {"upsert", "query"}) => index' = index
           /\ ~Is(n, {"page"}) => page' = page
           /\ ~Is(n, {"set_property"}) => prop' = prop
           /\ ~Is(n, {"gamma"}) => gens' = gens
           /\ ~Is(n, {"arcade"}) => ran' = ran
           /\ ~Is(n, {"email"}) => mails' = mails
           /\ ~Is(n, {"file", "pdf"}) => drive' = drive /\ disk' = disk
           /\ grant' = grant
  <1>1. CASE AgentSteps(n) /\ UNCHANGED <<index, outVars>>
    BY <1>1, AgentMoves, SamePages DEF outVars
  <1>2. CASE ExtractSteps(n) /\ UNCHANGED <<index, outVars>>
    BY <1>2, ExtractMoves, SamePages DEF outVars
  <1>3. CASE VectorStep(n) /\ UNCHANGED <<jira, outVars>>
    BY <1>3, VectorMoves, SamePages DEF outVars
  <1>4. CASE PageSteps(n) /\ UNCHANGED <<jira, index>>
    BY <1>4, PageMoves
  <1>5. CASE GammaSteps(n) /\ UNCHANGED <<jira, index>>
    BY <1>5, GammaMoves, SamePages
  <1>6. CASE ArcadeSteps(n) /\ UNCHANGED <<jira, index>>
    BY <1>6, ArcadeMoves, SamePages
  <1>7. CASE MailSteps(n) /\ UNCHANGED <<jira, index>>
    BY <1>7, MailMoves, SamePages
  <1>8. CASE HttpSteps(n) /\ UNCHANGED <<jira, index>>
    BY <1>8, HttpMoves, SamePages
  <1>9. CASE FileSteps(n) /\ UNCHANGED <<jira, index>>
    BY <1>9, FileMoves, SamePages
  <1>10. CASE GuardSteps(n) /\ UNCHANGED <<jira, index>>
    BY <1>10, GuardMoves, SamePages
  <1> QED
    BY <1>1, <1>2, <1>3, <1>4, <1>5, <1>6, <1>7, <1>8, <1>9, <1>10 DEF ServiceSteps

\* Which family a node of the given kind steps with.
LEMMA FamilySteps ==
    ASSUME HostInv, NEW n \in cast, ServiceSteps(n)
    PROVE  /\ Is(n, {"jira"}) => AgentSteps(n)
           /\ Is(n, {"jira_extract"}) => ExtractSteps(n)
           /\ Is(n, {"upsert", "query"}) => VectorStep(n)
           /\ Is(n, PageKinds) => PageSteps(n)
           /\ Is(n, {"gamma"}) => GammaSteps(n)
           /\ Is(n, {"arcade"}) => ArcadeSteps(n)
           /\ Is(n, {"email"}) => MailSteps(n)
           /\ Is(n, {"http"}) => HttpSteps(n)
           /\ Is(n, {"file", "pdf"}) => FileSteps(n)
           /\ Is(n, {"guardrails"}) => GuardSteps(n)
  <1>1. AgentSteps(n) => Is(n, {"jira"})
    BY AgentMoves
  <1>2. ExtractSteps(n) => Is(n, {"jira_extract"})
    BY ExtractMoves
  <1>3. VectorStep(n) => Is(n, {"upsert", "query"})
    BY VectorMoves
  <1>4. PageSteps(n) => Is(n, PageKinds)
    BY PageMoves
  <1>5. GammaSteps(n) => Is(n, {"gamma"})
    BY GammaMoves
  <1>6. ArcadeSteps(n) => Is(n, {"arcade"})
    BY ArcadeMoves
  <1>7. MailSteps(n) => Is(n, {"email"})
    BY MailMoves
  <1>8. HttpSteps(n) => Is(n, {"http"})
    BY HttpMoves
  <1>9. FileSteps(n) => Is(n, {"file", "pdf"})
    BY FileMoves
  <1>10. GuardSteps(n) => Is(n, {"guardrails"})
    BY GuardMoves
  <1> QED
    BY <1>1, <1>2, <1>3, <1>4, <1>5, <1>6, <1>7, <1>8, <1>9, <1>10 DEF ServiceSteps, Is, PageKinds

LEMMA OthersStaySound ==
    ASSUME HostInv, NEW m \in cast, node'[m] = node[m], PagesGrow
    PROVE  Sound(m)'
  <1>1. Sound(m)
    BY DEF HostInv
  <1>2. ASSUME page # None
        PROVE  page.version \in Nat /\ page'.version \in Nat /\ page' # None /\ page'.version >= page.version
    BY <1>2 DEF HostInv, PagesGrow, Page
  <1>3. ASSUME prop # None
        PROVE  prop.version \in Nat /\ prop'.version \in Nat /\ prop' # None /\ prop'.version >= prop.version
    BY <1>3 DEF HostInv, PagesGrow, Property
  <1>4. Version(page)' \in Nat /\ Version(page) \in Nat /\ Version(page) <= Version(page)'
    BY <1>2 DEF HostInv, PagesGrow, Version, Page
  <1>5. Version(prop)' \in Nat /\ Version(prop) \in Nat /\ Version(prop) <= Version(prop)'
    BY <1>3 DEF HostInv, PagesGrow, Version, Property
  <1>6. Routed(m)'
    BY <1>1 DEF Sound, Routed, At
  <1>7. At(m, "write")' => node'[m].saw \in 0..Version(page)'
    BY <1>1, <1>4 DEF Sound, At
  <1>8. At(m, "set")' => node'[m].saw \in 0..Version(prop)'
    BY <1>1, <1>5 DEF Sound, At
  <1>9. node'[m].pc \in {"labels", "label"} => page' # None /\ node'[m].left \in 0..page'.version
    BY <1>1, <1>2 DEF Sound
  <1> QED BY <1>1, <1>6, <1>7, <1>8, <1>9 DEF Sound

LEMMA HostInit0 == Init => HostInv
  <1> SUFFICES ASSUME Init PROVE HostInv
    OBVIOUS
  <1>1. page \in FirstPages \cup {None} /\ prop = None /\ edits = 0 /\ deaths = 0 /\ cast \in Casts
    BY DEF Init, HostInit
  <1>2. DOMAIN node = cast /\ \A n \in cast : node[n] = Fresh(1)
    BY DEF Init, HostInit
  <1>3. ASSUME NEW n \in cast PROVE Sound(n)
    BY <1>2, OutboundAssumption, JiraAssumption DEF Fresh, Sound, IsLocal, Routed, At
  <1> QED
    BY <1>1, <1>2, <1>3, NodeEffectsAssumption, NodeHostAssumption, OutboundAssumption DEF HostInv

LEMMA HostNext == HostInv /\ [Next]_vars => HostInv'
  <1> SUFFICES ASSUME HostInv, [Next]_vars PROVE HostInv'
    OBVIOUS
  <1>1. ASSUME NEW n \in cast, Moved(n), Sound(n)', PagesGrow, deaths' \in 0..MaxDeaths, edits' \in 0..MaxEdits
        PROVE  HostInv'
    <2>1. \A m \in cast : m # n => Sound(m)'
      BY <1>1, OthersStaySound DEF Moved, HostInv
    <2> QED BY <1>1, <2>1 DEF HostInv, Moved, PagesGrow
  <1>2. ASSUME NEW n \in cast, ServiceSteps(n) PROVE HostInv'
    BY <1>1, <1>2, ServiceMoves DEF HostInv
  <1>3. ASSUME NEW n \in cast, HostStep(n) PROVE HostInv'
    <2>1. PagesGrow /\ edits' = edits
      BY <1>3, SamePages DEF HostStep, outVars
    <2> QED BY <1>1, <1>3, <2>1, HostMoves DEF HostInv
  <1>4. CASE World
    <2>1. \A m \in cast : Sound(m)'
      BY <1>4, WorldMoves, OthersStaySound
    <2> QED BY <1>4, <2>1, WorldMoves DEF HostInv, PagesGrow
  <1>5. CASE UNCHANGED vars
    <2>1. cast' = cast /\ node' = node /\ deaths' = deaths /\ page' = page /\ prop' = prop /\ edits' = edits
      BY <1>5 DEF vars, hostVars, outVars
    <2>2. \A m \in cast : Sound(m)'
      BY <2>1, SamePages, OthersStaySound
    <2> QED BY <2>1, <2>2 DEF HostInv
  <1> QED
    BY <1>2, <1>3, <1>4, <1>5, EveryStep

-----------------------------------------------------------------------------
(* The agent and Jira.                                                     *)

LEMMA MaxOfTwo ==
    ASSUME NEW a \in Int, NEW b \in Int
    PROVE  Max({a, b}) \in Int /\ Max({a, b}) >= a /\ Max({a, b}) >= b
  <1>1. \E x \in {a, b} : \A y \in {a, b} : x >= y
    <2>1. CASE a >= b
      BY <2>1
    <2>2. CASE ~(a >= b)
      BY <2>2
    <2> QED BY <2>1, <2>2
  <1>2. Max({a, b}) \in {a, b} /\ \A y \in {a, b} : Max({a, b}) >= y
    BY <1>1 DEF Max
  <1> QED
    BY <1>2

\* What the agent has recorded of its calls, and where it comes from.
Records == [ok : BOOLEAN, key : Nat]
OkAt(n) == {i \in DOMAIN node[n].acc : node[n].acc[i].ok}

Knows(n) ==
    /\ node[n].acc \in Seq(Records)
    /\ Successes(n) <= Cardinality(Done(n))
    /\ \A i \in DOMAIN node[n].acc : node[n].acc[i].key # 0 =>
          \E j \in Done(n) : jira[j].tool = "create" /\ jira[j].key = node[n].acc[i].key
    /\ node[n].pc \in {"returned", "completed"} =>
          /\ node[n].out.ok = Successes(n)
          /\ node[n].out.keys = {node[n].acc[i].key : i \in DOMAIN node[n].acc} \ {0}
          /\ ~PolicyRefuses(n)

JiraInv ==
    /\ jira \in Seq(Served)
    /\ \A n \in cast : Is(n, {"jira"}) => Knows(n)

LEMMA DoneIsFinite ==
    ASSUME JiraInv, NEW n
    PROVE  IsFiniteSet(Done(n)) /\ Cardinality(Done(n)) \in Nat /\ Done(n) \subseteq DOMAIN jira
  <1>1. IsFiniteSet(1..Len(jira))
    BY FS_Interval DEF JiraInv
  <1>2. Done(n) \subseteq 1..Len(jira)
    BY DEF Done, JiraInv
  <1> QED
    BY <1>1, <1>2, FS_Subset, FS_CardinalityType DEF Done

LEMMA OkIsFinite ==
    ASSUME NEW n, node[n].acc \in Seq(Records)
    PROVE  IsFiniteSet(OkAt(n)) /\ Successes(n) = Cardinality(OkAt(n)) /\ Successes(n) \in Nat
  <1>1. IsFiniteSet(1..Len(node[n].acc))
    BY FS_Interval
  <1>2. OkAt(n) \subseteq 1..Len(node[n].acc)
    BY DEF OkAt
  <1>3. Successes(n) = Cardinality(OkAt(n))
    BY DEF Successes, OkAt
  <1> QED
    BY <1>1, <1>2, <1>3, FS_Subset, FS_CardinalityType

LEMMA KeysAreNumbers ==
    ASSUME JiraInv
    PROVE  Keys \subseteq Nat /\ IsFiniteSet(Keys) /\ Cardinality(Keys) + 1 \in Nat \ {0}
  <1>1. IsFiniteSet(1..Len(jira)) /\ DOMAIN jira = 1..Len(jira)
    BY FS_Interval DEF JiraInv
  <1>2. IsFiniteSet({j \in DOMAIN jira : jira[j].tool = "create"})
    BY <1>1, FS_Subset
  <1>3. IsFiniteSet(Keys)
    <2> DEFINE made == {j \in DOMAIN jira : jira[j].tool = "create"}
               f == [j \in made |-> jira[j].key]
    <2>1. f \in Surjection(made, Keys)
      BY DEF Surjection, Keys
    <2> QED BY <1>2, <2>1, FS_Surjection
  <1>4. ASSUME NEW j \in DOMAIN jira PROVE jira[j].key \in Nat
    <2>1. jira[j] \in Served
      BY DEF JiraInv
    <2> QED BY <2>1 DEF Served
  <1>5. Keys \subseteq Nat
    BY <1>4 DEF Keys
  <1> QED
    BY <1>3, <1>5, FS_CardinalityType

\* Jira's log only grows.
LEMMA DoneGrows ==
    ASSUME JiraInv, NEW n, node'[n].run = node[n].run,
           jira' = jira \/ \E r \in Served : jira' = Append(jira, r)
    PROVE  /\ jira' \in Seq(Served)
           /\ Done(n) \subseteq Done(n)' /\ \A i \in Done(n) : jira'[i] = jira[i]
           /\ IsFiniteSet(Done(n)') /\ Cardinality(Done(n)') \in Nat
           /\ Cardinality(Done(n)) <= Cardinality(Done(n)')
  <1>1. jira' \in Seq(Served) /\ \A i \in DOMAIN jira : i \in DOMAIN jira' /\ jira'[i] = jira[i]
    BY DEF JiraInv
  <1>2. ASSUME NEW i \in Done(n)
        PROVE  i \in Done(n)' /\ jira'[i] = jira[i]
    <2>1. i \in DOMAIN jira /\ jira[i].by = n.id /\ jira[i].run = node[n].run
      BY DEF Done
    <2>2. i \in DOMAIN jira' /\ jira'[i] = jira[i]
      BY <1>1, <2>1
    <2> QED BY <2>1, <2>2 DEF Done
  <1>3. IsFiniteSet(1..Len(jira')) /\ Done(n)' \subseteq 1..Len(jira')
    <2>1. Len(jira') \in Nat /\ DOMAIN jira' = 1..Len(jira')
      BY <1>1
    <2>2. Done(n)' \subseteq DOMAIN jira'
      BY DEF Done
    <2>3. \A k \in Nat : IsFiniteSet(1..k)
      BY FS_Interval
    <2> QED BY <2>1, <2>2, <2>3
  <1>4. IsFiniteSet(Done(n)')
    BY <1>3, FS_Subset
  <1> QED
    BY <1>1, <1>2, <1>4, FS_Subset, FS_CardinalityType

\* A node that keeps its records keeps what it knows.
LEMMA StillKnows ==
    ASSUME JiraInv, NEW n, Knows(n), node'[n].run = node[n].run, node'[n].acc = node[n].acc,
           jira' = jira \/ \E r \in Served : jira' = Append(jira, r),
           \/ node'[n].pc \notin {"returned", "completed"}
           \/ node[n].pc \in {"returned", "completed"} /\ node'[n].out = node[n].out
    PROVE  Knows(n)'
  <1>1. /\ Done(n) \subseteq Done(n)' /\ \A i \in Done(n) : jira'[i] = jira[i]
        /\ Cardinality(Done(n)') \in Nat /\ Cardinality(Done(n)) <= Cardinality(Done(n)')
    BY DoneGrows
  <1>2. Cardinality(Done(n)) \in Nat
    BY DoneIsFinite
  <1>3. Successes(n)' = Successes(n) /\ Successes(n) \in Nat /\ Successes(n) <= Cardinality(Done(n))
    BY OkIsFinite DEF Successes, Knows
  <1>4. PolicyRefuses(n)' = PolicyRefuses(n)
    BY <1>3 DEF PolicyRefuses
  <1>5. node'[n].acc \in Seq(Records) /\ Successes(n)' <= Cardinality(Done(n)')
    BY <1>1, <1>2, <1>3 DEF Knows
  <1>6. \A i \in DOMAIN node'[n].acc : node'[n].acc[i].key # 0 =>
          \E j \in Done(n)' : jira'[j].tool = "create" /\ jira'[j].key = node'[n].acc[i].key
    BY <1>1 DEF Knows
  <1>7. node'[n].pc \in {"returned", "completed"} =>
          /\ node'[n].out.ok = Successes(n)'
          /\ node'[n].out.keys = {node'[n].acc[i].key : i \in DOMAIN node'[n].acc} \ {0}
          /\ ~PolicyRefuses(n)'
    BY <1>3, <1>4 DEF Knows
  <1> QED
    BY <1>5, <1>6, <1>7 DEF Knows

\* A call is recorded: a failure, or what Jira has just carried out.
LEMMA KnowsMore ==
    ASSUME JiraInv, NEW n, Knows(n), node'[n].run = node[n].run, NEW rec \in Records,
           node'[n].acc = Append(node[n].acc, rec), node'[n].pc \notin {"returned", "completed"},
           \/ jira' = jira /\ ~rec.ok /\ rec.key = 0
           \/ \E r \in Served : /\ jira' = Append(jira, r)
                                /\ r.by = n.id /\ r.run = node[n].run
                                /\ rec.key # 0 => r.tool = "create" /\ r.key = rec.key
    PROVE  Knows(n)'
  <1>1. /\ Done(n) \subseteq Done(n)' /\ \A i \in Done(n) : jira'[i] = jira[i]
        /\ IsFiniteSet(Done(n)')
        /\ Cardinality(Done(n)') \in Nat /\ Cardinality(Done(n)) <= Cardinality(Done(n)')
    BY DoneGrows
  <1>2. IsFiniteSet(Done(n)) /\ Cardinality(Done(n)) \in Nat /\ Done(n) \subseteq DOMAIN jira
    BY DoneIsFinite
  <1>3. /\ Successes(n) \in Nat /\ Successes(n) <= Cardinality(Done(n))
        /\ IsFiniteSet(OkAt(n)) /\ Successes(n) = Cardinality(OkAt(n))
    BY OkIsFinite DEF Knows
  <1>4. /\ node[n].acc \in Seq(Records) /\ node'[n].acc \in Seq(Records)
        /\ DOMAIN node'[n].acc = DOMAIN node[n].acc \cup {Len(node[n].acc) + 1}
        /\ Len(node[n].acc) + 1 \notin DOMAIN node[n].acc
        /\ \A i \in DOMAIN node[n].acc : node'[n].acc[i] = node[n].acc[i]
        /\ node'[n].acc[Len(node[n].acc) + 1] = rec
    <2>1. /\ node[n].acc \in Seq(Records) /\ rec \in Records
          /\ node'[n].acc = Append(node[n].acc, rec)
      BY DEF Knows
    <2>2. ASSUME NEW s \in Seq(Records), NEW t, t = Append(s, rec)
          PROVE  /\ t \in Seq(Records)
                 /\ DOMAIN t = DOMAIN s \cup {Len(s) + 1} /\ Len(s) + 1 \notin DOMAIN s
                 /\ \A i \in DOMAIN s : t[i] = s[i]
                 /\ t[Len(s) + 1] = rec
      BY <2>2
    <2> QED BY <2>1, <2>2
  <1>5. Successes(n)' = Cardinality(OkAt(n)')
    BY DEF Successes, OkAt
  <1>6. OkAt(n)' = IF rec.ok THEN OkAt(n) \cup {Len(node[n].acc) + 1} ELSE OkAt(n)
    BY <1>4 DEF OkAt
  <1>7. Len(node[n].acc) + 1 \notin OkAt(n)
    BY <1>4 DEF OkAt
  <1>8. Successes(n)' = IF rec.ok THEN Successes(n) + 1 ELSE Successes(n)
    BY <1>3, <1>5, <1>6, <1>7, FS_AddElement
  <1>9. Successes(n)' <= Cardinality(Done(n)')
    <2>1. CASE ~rec.ok
      BY <1>1, <1>2, <1>3, <1>8, <2>1
    <2>2. CASE rec.ok
      <3>1. PICK r \in Served : jira' = Append(jira, r) /\ r.by = n.id /\ r.run = node[n].run
        BY <2>2
      <3>2. /\ Len(jira) + 1 \in Done(n)' /\ Len(jira) + 1 \notin Done(n)
        BY <1>2, <3>1 DEF Done, JiraInv
      <3>3. Cardinality(Done(n) \cup {Len(jira) + 1}) = Cardinality(Done(n)) + 1
        BY <1>2, <3>2, FS_AddElement
      <3>4. Cardinality(Done(n) \cup {Len(jira) + 1}) <= Cardinality(Done(n)')
        BY <1>1, <3>2, FS_Subset
      <3> QED BY <1>1, <1>2, <1>3, <1>8, <2>2, <3>3, <3>4
    <2> QED BY <2>1, <2>2
  <1>10. ASSUME NEW i \in DOMAIN node'[n].acc, node'[n].acc[i].key # 0
         PROVE  \E j \in Done(n)' : jira'[j].tool = "create" /\ jira'[j].key = node'[n].acc[i].key
    <2>1. CASE i \in DOMAIN node[n].acc
      <3>1. node[n].acc[i].key # 0 /\ node'[n].acc[i].key = node[n].acc[i].key
        BY <1>4, <1>10, <2>1
      <3>2. PICK j \in Done(n) : jira[j].tool = "create" /\ jira[j].key = node[n].acc[i].key
        BY <2>1, <3>1 DEF Knows
      <3> QED BY <1>1, <3>1, <3>2
    <2>2. CASE i = Len(node[n].acc) + 1
      <3>1. PICK r \in Served : /\ jira' = Append(jira, r) /\ r.by = n.id /\ r.run = node[n].run
                                /\ r.tool = "create" /\ r.key = rec.key
        BY <1>4, <1>10, <2>2
      <3>2. Len(jira) + 1 \in Done(n)' /\ jira'[Len(jira) + 1] = r
        BY <3>1 DEF Done, JiraInv
      <3> QED BY <1>4, <2>2, <3>1, <3>2
    <2> QED BY <1>4, <2>1, <2>2
  <1> QED
    BY <1>4, <1>9, <1>10 DEF Knows

\* Jira has carried out at most one request, and the node knows what it knows.
Consistent(n) == (jira' = jira \/ \E r \in Served : jira' = Append(jira, r)) /\ Knows(n)'

LEMMA Fails ==
    ASSUME HostInv, JiraInv, NEW n \in cast, Is(n, {"jira"}), node[n].pc \in {"tools", "transition"},
           cast' = cast, Record(n, Error), jira' = jira
    PROVE  Consistent(n)
  <1>1. RecordOf(Error) = [ok |-> FALSE, key |-> 0] /\ RecordOf(Error) \in Records
    BY DEF RecordOf, Error, Records
  <1>2. Knows(n)
    BY DEF JiraInv
  <1>3. /\ node'[n].acc = Append(node[n].acc, RecordOf(Error)) /\ node'[n].run = node[n].run
        /\ node'[n].pc \notin {"returned", "completed"}
    BY Recording
  <1> QED
    BY <1>1, <1>2, <1>3, KnowsMore DEF Consistent

LEMMA Requests ==
    ASSUME HostInv, JiraInv, NEW n \in cast, Is(n, {"jira"}), node[n].pc \in {"tools", "transition"},
           cast' = cast, NEW tool \in Tools, NEW key \in Nat, NEW text,
           text = Text(key) \/ (text = Created(key) /\ tool = "create"),
           Request(n, tool, key, text)
    PROVE  Consistent(n)
  <1>1. CASE Record(n, Error) /\ UNCHANGED jira
    BY <1>1, Fails
  <1>2. CASE /\ jira' = Append(jira, [by |-> n.id, run |-> node[n].run, tool |-> tool, key |-> key])
             /\ Record(n, Error) \/ Record(n, text)
    <2>1. PICK t \in {Error, text} : Record(n, t)
      BY <1>2
    <2>2. RecordOf(t) \in Records /\ (RecordOf(t).key # 0 => tool = "create" /\ key = RecordOf(t).key)
      BY <2>1 DEF RecordOf, Error, Text, Created, Records
    <2>3. Knows(n) /\ Sound(n) /\ n.id \in Nat
      BY Configured DEF JiraInv, HostInv
    <2>4. /\ node'[n].acc = Append(node[n].acc, RecordOf(t)) /\ node'[n].run = node[n].run
          /\ node'[n].pc \notin {"returned", "completed"}
      BY <2>1, Recording
    <2>5. PICK r \in Served : /\ r = [by |-> n.id, run |-> node[n].run, tool |-> tool, key |-> key]
                              /\ r.by = n.id /\ r.run = node[n].run /\ r.tool = tool /\ r.key = key
      <3>1. node[n].run \in Nat
        BY <2>3 DEF Sound
      <3> DEFINE r == [by |-> n.id, run |-> node[n].run, tool |-> tool, key |-> key]
      <3>2. r \in Served
        BY <2>3, <3>1 DEF Served
      <3> QED BY <3>2
    <2>6. jira' = Append(jira, r)
      BY <1>2, <2>5
    <2>7. Knows(n)'
      BY <2>2, <2>3, <2>4, <2>5, <2>6, KnowsMore
    <2> QED BY <2>6, <2>7 DEF Consistent
  <1> QED
    BY <1>1, <1>2 DEF Request

LEMMA RequestsOnIssue ==
    ASSUME HostInv, JiraInv, NEW n \in cast, Is(n, {"jira"}), node[n].pc \in {"tools", "transition"},
           cast' = cast, NEW tool \in Tools, OnIssue(n, tool)
    PROVE  Consistent(n)
  <1>1. CASE Record(n, Error) /\ UNCHANGED jira
    BY <1>1, Fails
  <1>2. CASE \E key \in Keys : Request(n, tool, key, Text(key))
    BY <1>2, KeysAreNumbers, Requests
  <1> QED
    BY <1>1, <1>2 DEF OnIssue

LEMMA AgentKnows ==
    ASSUME HostInv, JiraInv, NEW n \in cast, Is(n, {"jira"}), AgentSteps(n)
    PROVE  Consistent(n)
  <1>0. Sound(n) /\ Knows(n) /\ cast' = cast
    BY AgentMoves DEF HostInv, JiraInv, Moved
  <1>1. CASE StartAgent(n)
    <2>1. node'[n] = [node[n] EXCEPT !.pc = "turn", !.left = MaxIterations + 1] /\ jira' = jira
      BY <1>1, Becoming DEF StartAgent
    <2>2. node'[n].pc = "turn" /\ node'[n].acc = node[n].acc /\ node'[n].run = node[n].run
      BY <1>0, <2>1 DEF Sound, IsLocal
    <2> QED BY <1>0, <2>1, <2>2, StillKnows DEF Consistent
  <1>2. CASE ModelCallsTools(n)
    <2>1. PICK calls \in n.replies \ {<<>>} :
             Become(n, [node[n] EXCEPT !.pc = "tools", !.saw = calls, !.left = @ - 1])
      BY <1>2 DEF ModelCallsTools
    <2>2. node'[n] = [node[n] EXCEPT !.pc = "tools", !.saw = calls, !.left = @ - 1] /\ jira' = jira
      BY <1>2, <2>1, Becoming DEF ModelCallsTools
    <2>3. node'[n].pc = "tools" /\ node'[n].acc = node[n].acc /\ node'[n].run = node[n].run
      BY <1>0, <2>2 DEF Sound, IsLocal
    <2> QED BY <1>0, <2>2, <2>3, StillKnows DEF Consistent
  <1>3. ASSUME Raise(n), jira' = jira PROVE Consistent(n)
    <2>1. Keeps(n, "raised")
      BY <1>0, <1>3, Raising
    <2> QED BY <1>0, <1>3, <2>1, StillKnows DEF Consistent, Keeps
  <1>4. CASE ModelAnswers(n)
    <2>0. jira' = jira
      BY <1>4 DEF ModelAnswers
    <2>1. CASE PolicyRefuses(n)
      BY <1>3, <1>4, <2>0, <2>1 DEF ModelAnswers
    <2>2. CASE ~PolicyRefuses(n)
      <3> DEFINE out == [calls |-> Len(node[n].acc), ok |-> Successes(n),
                         keys |-> {node[n].acc[i].key : i \in DOMAIN node[n].acc} \ {0}]
      <3>1. Return(n, out)
        BY <1>4, <2>2 DEF ModelAnswers
      <3> HIDE DEF out
      <3>2. Keeps(n, "returned") /\ node'[n].out = out
        BY <1>0, <3>1, Returning
      <3>3. out.ok = Successes(n) /\ out.keys = {node[n].acc[i].key : i \in DOMAIN node[n].acc} \ {0}
        BY DEF out
      <3>4. Successes(n)' = Successes(n) /\ Done(n)' = Done(n)
        BY <2>0, <3>2 DEF Successes, Done, Keeps
      <3>5. ~PolicyRefuses(n)'
        BY <2>2, <3>2, <3>4 DEF PolicyRefuses, Keeps
      <3>6. Knows(n)'
        BY <1>0, <2>0, <3>2, <3>3, <3>4, <3>5 DEF Knows, Keeps
      <3> QED BY <2>0, <3>6 DEF Consistent
    <2> QED BY <2>1, <2>2
  <1>5. CASE AgentRaises(n)
    BY <1>3, <1>5 DEF AgentRaises
  <1>6. CASE CreateIssue(n)
    <2>1. Cardinality(Keys) + 1 \in Nat /\ At(n, "tools")
      BY <1>6, KeysAreNumbers DEF CreateIssue, Calls
    <2>2. \/ Record(n, Error) /\ jira' = jira
          \/ Request(n, "create", Cardinality(Keys) + 1, Created(Cardinality(Keys) + 1))
      BY <1>6 DEF CreateIssue
    <2> QED BY <1>0, <2>1, <2>2, Fails, Requests DEF At, Tools
  <1>7. CASE GetIssue(n)
    BY <1>0, <1>7, RequestsOnIssue DEF GetIssue, Calls, At, Tools
  <1>8. CASE SearchIssues(n)
    <2>1. At(n, "tools")
      BY <1>8 DEF SearchIssues, Calls
    <2>2. Request(n, "search", 0, Text(0)) \/ (Record(n, Error) /\ jira' = jira)
      BY <1>8 DEF SearchIssues
    <2> QED BY <1>0, <2>1, <2>2, Fails, Requests DEF At, Tools
  <1>9. CASE UpdateIssue(n)
    <2>1. At(n, "tools")
      BY <1>9 DEF UpdateIssue, Calls
    <2>2. OnIssue(n, "update") \/ (Record(n, Error) /\ jira' = jira)
      BY <1>9 DEF UpdateIssue
    <2> QED BY <1>0, <2>1, <2>2, Fails, RequestsOnIssue DEF At, Tools
  <1>10. CASE TransitionIssue(n)
    <2>1. At(n, "tools")
      BY <1>10 DEF TransitionIssue, Calls
    <2>2. CASE Record(n, Error) /\ jira' = jira
      BY <1>0, <2>1, <2>2, Fails DEF At
    <2>3. CASE OnIssue(n, "transition")
      BY <1>0, <2>1, <2>3, RequestsOnIssue DEF At, Tools
    <2>4. CASE Goto(n, "transition") /\ jira' = jira
      <3>1. Keeps(n, "transition")
        BY <1>0, <2>4, Going
      <3> QED BY <1>0, <2>4, <3>1, StillKnows DEF Consistent, Keeps
    <2> QED BY <1>10, <2>2, <2>3, <2>4 DEF TransitionIssue
  <1>11. CASE TransitionByName(n)
    BY <1>0, <1>11, RequestsOnIssue DEF TransitionByName, At, Tools
  <1>12. CASE AddComment(n)
    BY <1>0, <1>12, RequestsOnIssue DEF AddComment, Calls, At, Tools
  <1>13. CASE UnknownTool(n)
    BY <1>0, <1>13, Fails DEF UnknownTool, At
  <1> QED
    BY <1>1, <1>2, <1>4, <1>5, <1>6, <1>7, <1>8, <1>9, <1>10, <1>11, <1>12, <1>13 DEF AgentSteps

LEMMA FreshKnows ==
    ASSUME JiraInv, NEW n, node'[n].acc = <<>>, node'[n].pc = "start", jira' = jira
    PROVE  Knows(n)'
  <1>1. IsFiniteSet({}) /\ Cardinality({}) = 0
    BY FS_EmptySet
  <1>2. Successes(n)' = 0
    BY <1>1 DEF Successes
  <1>3. Done(n)' \subseteq 1..Len(jira)
    BY DEF Done, JiraInv
  <1>4. IsFiniteSet(1..Len(jira))
    BY FS_Interval DEF JiraInv
  <1>5. Cardinality(Done(n)') \in Nat
    BY <1>3, <1>4, FS_Subset, FS_CardinalityType
  <1> QED
    BY <1>2, <1>5 DEF Knows

LEMMA JiraInit == Init => JiraInv
  <1> SUFFICES ASSUME Init PROVE JiraInv
    OBVIOUS
  <1>1. jira = <<>> /\ \A n \in cast : node[n] = Fresh(1)
    BY DEF Init, HostInit
  <1>2. ASSUME NEW n \in cast PROVE Knows(n)
    <2>1. node[n].acc = <<>> /\ node[n].pc = "start"
      BY <1>1 DEF Fresh
    <2>2. IsFiniteSet({}) /\ Cardinality({}) = 0
      BY FS_EmptySet
    <2>3. Successes(n) = 0 /\ Done(n) = {}
      BY <1>1, <2>1, <2>2 DEF Successes, Done
    <2> QED BY <2>1, <2>2, <2>3 DEF Knows
  <1> QED BY <1>1, <1>2 DEF JiraInv

LEMMA JiraNext == HostInv /\ JiraInv /\ [Next]_vars => JiraInv'
  <1> SUFFICES ASSUME HostInv, JiraInv, [Next]_vars PROVE JiraInv'
    OBVIOUS
  <1>1. ASSUME NEW n \in cast, ServiceSteps(n), Is(n, {"jira"}) PROVE JiraInv'
    <2>1. Consistent(n) /\ Moved(n)
      BY <1>1, AgentKnows, FamilySteps, ServiceMoves
    <2>2. ASSUME NEW m \in cast, Is(m, {"jira"}), m # n PROVE Knows(m)'
      <3>1. node'[m] = node[m]
        BY <2>1, <2>2 DEF Moved, HostInv
      <3> QED BY <2>1, <2>2, <3>1, StillKnows DEF Consistent, JiraInv
    <2>3. jira' \in Seq(Served)
      BY <2>1 DEF Consistent, JiraInv
    <2> QED BY <2>1, <2>2, <2>3 DEF JiraInv, Consistent, Moved
  <1>2. ASSUME NEW n \in cast, ServiceSteps(n), ~Is(n, {"jira"}) PROVE JiraInv'
    <2>1. Moved(n) /\ jira' = jira
      BY <1>2, ServiceMoves
    <2>2. ASSUME NEW m \in cast, Is(m, {"jira"}) PROVE Knows(m)'
      <3>1. node'[m] = node[m]
        BY <1>2, <2>1, <2>2 DEF Moved, HostInv
      <3> QED BY <2>1, <2>2, <3>1, StillKnows DEF JiraInv
    <2> QED BY <2>1, <2>2 DEF JiraInv, Moved
  <1>3. ASSUME NEW n \in cast, HostStep(n) PROVE JiraInv'
    <2>1. Moved(n) /\ (Stored(n) \/ Restarted(n)) /\ jira' = jira
      BY <1>3, HostMoves DEF HostStep
    <2>2. ASSUME NEW m \in cast, Is(m, {"jira"}) PROVE Knows(m)'
      <3>1. CASE m # n
        <4>1. node'[m] = node[m]
          BY <2>1, <3>1 DEF Moved, HostInv
        <4> QED BY <2>1, <2>2, <4>1, StillKnows DEF JiraInv
      <3>2. CASE m = n /\ Restarted(n)
        BY <2>1, <3>2, FreshKnows DEF Restarted
      <3>3. CASE m = n /\ Stored(n)
        BY <2>1, <2>2, <3>3, StillKnows DEF Stored, Keeps, At, JiraInv
      <3> QED BY <2>1, <3>1, <3>2, <3>3
    <2> QED BY <2>1, <2>2 DEF JiraInv, Moved
  <1>4. ASSUME node' = node, cast' = cast, jira' = jira PROVE JiraInv'
    BY <1>4, StillKnows DEF JiraInv
  <1>5. CASE World /\ UNCHANGED <<jira, index>>
    BY <1>4, <1>5, WorldMoves
  <1>6. CASE UNCHANGED vars
    BY <1>4, <1>6 DEF vars, hostVars
  <1> QED
    BY <1>1, <1>2, <1>3, <1>5, <1>6, EveryStep

\* What the counts and the policy say of Jira.
LEMMA JiraHolds == HostInv /\ JiraInv => JiraReportIsTrue /\ PolicyIsKept
  <1> SUFFICES ASSUME HostInv, JiraInv, NEW n \in cast, Is(n, {"jira"}), At(n, "completed")
               PROVE  /\ node[n].out.ok <= Cardinality(Done(n))
                      /\ \A k \in node[n].out.keys : \E i \in Done(n) : jira[i].tool = "create" /\ jira[i].key = k
                      /\ n.policy = "require_successful_tool_call" => Cardinality(Done(n)) >= Max({1, n.minimum})
    BY DEF JiraReportIsTrue, PolicyIsKept
  <1>1. /\ Knows(n) /\ node[n].out.ok = Successes(n) /\ ~PolicyRefuses(n)
        /\ node[n].out.keys = {node[n].acc[i].key : i \in DOMAIN node[n].acc} \ {0}
    BY DEF JiraInv, Knows, At
  <1>2. Successes(n) \in Nat /\ Cardinality(Done(n)) \in Nat /\ Successes(n) <= Cardinality(Done(n))
    BY <1>1, OkIsFinite, DoneIsFinite DEF Knows
  <1>3. \A k \in node[n].out.keys : \E i \in Done(n) : jira[i].tool = "create" /\ jira[i].key = k
    BY <1>1 DEF Knows
  <1>4. n.minimum \in Int
    <2>1. n.kind = "jira"
      BY DEF Is
    <2>2. ~VectorConfig(n) /\ ~OutboundConfig(n)
      BY <2>1 DEF VectorConfig, OutboundConfig, OutboundKinds, PageKinds, Is
    <2> QED BY <2>1, <2>2, Configured DEF JiraConfig, Is
  <1>5. Max({1, n.minimum}) \in Int
    <2>1. \A a, b \in Int : Max({a, b}) \in Int
      BY MaxOfTwo
    <2> QED BY <1>4, <2>1
  <1>6. n.policy = "require_successful_tool_call" => Cardinality(Done(n)) >= Max({1, n.minimum})
    BY <1>1, <1>2, <1>5 DEF PolicyRefuses
  <1> QED
    BY <1>1, <1>2, <1>3, <1>6

-----------------------------------------------------------------------------
(* The extract.                                                            *)

LEMMA MinOfTwo ==
    ASSUME NEW a \in Int, NEW b \in Int
    PROVE  /\ Min({a, b}) \in Int /\ Min({a, b}) <= a /\ Min({a, b}) <= b
           /\ a <= b => Min({a, b}) = a
           /\ b <= a => Min({a, b}) = b
  <1>1. \E x \in {a, b} : \A y \in {a, b} : x <= y
    <2>1. CASE a <= b
      BY <2>1
    <2>2. CASE ~(a <= b)
      BY <2>2
    <2> QED BY <2>1, <2>2
  <1>2. Min({a, b}) \in {a, b} /\ \A y \in {a, b} : Min({a, b}) <= y
    BY <1>1 DEF Min
  <1> QED
    BY <1>2

\* What has been collected so far, and what comes of it.
Collects(n) ==
    /\ At(n, "page") =>
          /\ node[n].left <= n.max /\ node[n].left <= n.total
          /\ \/ node[n].saw = FALSE /\ node[n].left = 0
             \/ node[n].saw = TRUE /\ 0 < node[n].left /\ node[n].left < n.total
    /\ At(n, "start") => node[n].left = 0
    /\ node[n].pc \in {"returned", "completed"} =>
          node[n].out = [fetched |-> Min({n.max, n.total}), truncated |-> n.max < n.total]

ExtractInv == \A n \in cast : Is(n, {"jira_extract"}) => Collects(n)

LEMMA ExtractConfigured ==
    ASSUME HostInv, NEW n \in cast, Is(n, {"jira_extract"})
    PROVE  n.max \in Nat \ {0} /\ n.total \in Nat
  <1>1. n.kind = "jira_extract"
    BY DEF Is
  <1>2. ~VectorConfig(n) /\ ~OutboundConfig(n)
    BY <1>1 DEF VectorConfig, OutboundConfig, OutboundKinds, PageKinds, Is
  <1> QED BY <1>1, <1>2, Configured DEF JiraConfig, Is

LEMMA ExtractCollects ==
    ASSUME HostInv, EmptyPages = FALSE, NEW n \in cast, Is(n, {"jira_extract"}), Collects(n), ExtractSteps(n)
    PROVE  Collects(n)'
  <1>0. Sound(n) /\ cast' = cast /\ node[n].left \in Nat /\ n.max \in Nat \ {0} /\ n.total \in Nat
    BY ExtractMoves, ExtractConfigured DEF HostInv, Moved, Sound
  <1>1. ASSUME Raise(n) PROVE Collects(n)'
    <2>1. Keeps(n, "raised")
      BY <1>0, <1>1, Raising
    <2> QED BY <2>1 DEF Collects, Keeps, At
  <1>2. CASE StartExtract(n)
    <2>1. CASE Become(n, [node[n] EXCEPT !.pc = "page", !.saw = FALSE])
      <3>1. node'[n] = [node[n] EXCEPT !.pc = "page", !.saw = FALSE]
        BY <2>1, Becoming
      <3>2. node'[n].pc = "page" /\ node'[n].saw = FALSE /\ node'[n].left = node[n].left
        BY <1>0, <3>1 DEF Sound, IsLocal
      <3>3. node[n].left = 0
        BY <1>2 DEF StartExtract, Collects
      <3> QED BY <1>0, <3>2, <3>3 DEF Collects, At
    <2> QED BY <1>1, <1>2, <2>1 DEF StartExtract
  <1>3. CASE FetchPage(n)
    <2>1. /\ At(n, "page") /\ node[n].left <= n.max /\ node[n].left <= n.total
          /\ \/ node[n].saw = FALSE /\ node[n].left = 0
             \/ node[n].saw = TRUE /\ 0 < node[n].left /\ node[n].left < n.total
      BY <1>3 DEF FetchPage, Collects
    <2>2. PICK p \in Pages(n) :
             IF p = 0 \/ node[n].left + p = n.total
             THEN Return(n, [fetched |-> node[n].left + p, truncated |-> FALSE])
             ELSE Become(n, [node[n] EXCEPT !.left = node[n].left + p, !.saw = TRUE, !.tries = 0])
      BY <1>3 DEF FetchPage
    <2>3. PageOf(n) \in Int /\ PageOf(n) <= n.max - node[n].left
      <3>1. n.max - node[n].left \in Int /\ PageSize \in Int
        BY <1>0, JiraAssumption
      <3>2. \A a, b \in Int : Min({a, b}) \in Int /\ Min({a, b}) <= b
        BY MinOfTwo
      <3> QED BY <3>1, <3>2 DEF PageOf, Remaining
    <2>4. /\ p \in Nat /\ p <= n.max - node[n].left /\ p <= n.total - node[n].left
          /\ p > 0 \/ n.total - node[n].left = 0
      <3>1. n.total - node[n].left \in Int
        BY <1>0
      <3>2. \A a, b \in Int : Min({a, b}) \in Int /\ Min({a, b}) <= a /\ Min({a, b}) <= b
        BY MinOfTwo
      <3>3. p \in 0..Min({PageOf(n), n.total - node[n].left}) /\ (p > 0 \/ n.total - node[n].left = 0)
        BY <2>2 DEF Pages
      <3>4. /\ Min({PageOf(n), n.total - node[n].left}) \in Int
            /\ Min({PageOf(n), n.total - node[n].left}) <= PageOf(n)
            /\ Min({PageOf(n), n.total - node[n].left}) <= n.total - node[n].left
        BY <2>3, <3>1, <3>2
      <3> QED BY <1>0, <2>3, <3>1, <3>3, <3>4
    <2>5. CASE p = 0 \/ node[n].left + p = n.total
      <3>1. node[n].left + p = n.total /\ n.total <= n.max
        BY <1>0, <2>1, <2>4, <2>5
      <3>2. Min({n.max, n.total}) = n.total /\ (n.max < n.total) = FALSE
        <4>1. \A a, b \in Int : b <= a => Min({a, b}) = b
          BY MinOfTwo
        <4>2. n.max \in Int /\ n.total \in Int /\ n.total <= n.max /\ ~(n.max < n.total)
          BY <1>0, <3>1
        <4>3. Min({n.max, n.total}) = n.total
          BY <4>1, <4>2
        <4> QED BY <4>2, <4>3
      <3>3. Return(n, [fetched |-> Min({n.max, n.total}), truncated |-> n.max < n.total])
        BY <2>2, <2>5, <3>1, <3>2
      <3>4. Keeps(n, "returned") /\ node'[n].out = [fetched |-> Min({n.max, n.total}), truncated |-> n.max < n.total]
        BY <1>0, <3>3, Returning
      <3> QED BY <3>4 DEF Collects, Keeps, At
    <2>6. CASE ~(p = 0 \/ node[n].left + p = n.total)
      <3>1. node'[n] = [node[n] EXCEPT !.left = node[n].left + p, !.saw = TRUE, !.tries = 0]
        BY <2>2, <2>6, Becoming
      <3>2. node'[n].pc = "page" /\ node'[n].saw = TRUE /\ node'[n].left = node[n].left + p
        BY <1>0, <2>1, <3>1 DEF Sound, IsLocal, At
      <3> QED BY <1>0, <2>1, <2>4, <2>6, <3>2 DEF Collects, At
    <2> QED BY <2>5, <2>6
  <1>4. CASE StopAtCap(n)
    <2>1. /\ At(n, "page") /\ node[n].left <= n.max /\ n.max - node[n].left <= 0
          /\ \/ node[n].saw = FALSE /\ node[n].left = 0
             \/ node[n].saw = TRUE /\ 0 < node[n].left /\ node[n].left < n.total
      BY <1>4 DEF StopAtCap, Collects, Remaining
    <2>2. node[n].left = n.max /\ node[n].saw = TRUE /\ n.max < n.total
      BY <1>0, <2>1
    <2>3. Min({n.max, n.total}) = n.max
      <3>1. \A a, b \in Int : a <= b => Min({a, b}) = a
        BY MinOfTwo
      <3>2. n.max \in Int /\ n.total \in Int /\ n.max <= n.total
        BY <1>0, <2>2
      <3> QED BY <3>1, <3>2
    <2>4. Return(n, [fetched |-> node[n].left, truncated |-> node[n].saw])
      BY <1>4 DEF StopAtCap
    <2>5. Keeps(n, "returned") /\ node'[n].out = [fetched |-> node[n].left, truncated |-> node[n].saw]
      BY <1>0, <2>4, Returning
    <2>6. node'[n].out = [fetched |-> Min({n.max, n.total}), truncated |-> n.max < n.total]
      BY <2>2, <2>3, <2>5
    <2> QED BY <2>5, <2>6 DEF Collects, Keeps, At
  <1>5. CASE RetryPage(n)
    <2>1. CASE Become(n, [node[n] EXCEPT !.tries = @ + 1])
      <3>1. node'[n] = [node[n] EXCEPT !.tries = @ + 1]
        BY <2>1, Becoming
      <3>2. node'[n].pc = node[n].pc /\ node'[n].saw = node[n].saw /\ node'[n].left = node[n].left
            /\ node'[n].out = node[n].out
        BY <1>0, <3>1 DEF Sound, IsLocal
      <3> QED BY <3>2 DEF Collects, At
    <2> QED BY <1>1, <1>5, <2>1 DEF RetryPage
  <1>6. CASE PageRefused(n)
    BY <1>1, <1>6 DEF PageRefused
  <1> QED
    BY <1>2, <1>3, <1>4, <1>5, <1>6 DEF ExtractSteps

LEMMA ExtractInit == Init => ExtractInv
  BY DEF Init, HostInit, Fresh, ExtractInv, Collects, At

LEMMA ExtractNext == HostInv /\ ExtractInv /\ EmptyPages = FALSE /\ [Next]_vars => ExtractInv'
  <1> SUFFICES ASSUME HostInv, ExtractInv, EmptyPages = FALSE, [Next]_vars PROVE ExtractInv'
    OBVIOUS
  <1>1. ASSUME NEW m \in cast, Is(m, {"jira_extract"}), node'[m] = node[m] PROVE Collects(m)'
    BY <1>1 DEF ExtractInv, Collects, At
  <1>2. ASSUME NEW n \in cast, ServiceSteps(n) PROVE ExtractInv'
    <2>1. Moved(n)
      BY <1>2, ServiceMoves
    <2>2. Is(n, {"jira_extract"}) => Collects(n)'
      BY <1>2, FamilySteps, ExtractCollects DEF ExtractInv
    <2> QED BY <1>1, <2>1, <2>2 DEF ExtractInv, Moved, HostInv
  <1>3. ASSUME NEW n \in cast, HostStep(n) PROVE ExtractInv'
    <2>1. Moved(n) /\ (Stored(n) \/ Restarted(n))
      BY <1>3, HostMoves
    <2>2. Is(n, {"jira_extract"}) => Collects(n)'
      BY <2>1 DEF ExtractInv, Collects, Stored, Restarted, Keeps, At
    <2> QED BY <1>1, <2>1, <2>2 DEF ExtractInv, Moved, HostInv
  <1>4. ASSUME node' = node, cast' = cast PROVE ExtractInv'
    BY <1>1, <1>4 DEF ExtractInv
  <1> QED
    BY <1>2, <1>3, <1>4, EveryStep, WorldMoves DEF vars, hostVars

-----------------------------------------------------------------------------
(* What the other nodes report.                                            *)

Services == <<jira, index, outVars>>

\* A step as node m sees it.
LEMMA SeenBy ==
    ASSUME HostInv, [Next]_vars, NEW m \in cast
    PROVE  /\ cast' = cast
           /\ \/ ServiceSteps(m)
              \/ (Stored(m) \/ Restarted(m)) /\ UNCHANGED Services
              \/ node'[m] = node[m] /\ \E n \in cast : n # m /\ ServiceSteps(n)
              \/ node'[m] = node[m] /\ World
              \/ node'[m] = node[m] /\ UNCHANGED Services
  <1>1. ASSUME NEW n \in cast, Moved(n), n # m PROVE node'[m] = node[m]
    BY <1>1 DEF Moved, HostInv
  <1>2. ASSUME NEW n \in cast, ServiceSteps(n)
        PROVE  cast' = cast /\ (ServiceSteps(m) \/ (node'[m] = node[m] /\ n # m))
    BY <1>1, <1>2, ServiceMoves DEF Moved
  <1>3. ASSUME NEW n \in cast, HostStep(n)
        PROVE  /\ cast' = cast /\ UNCHANGED Services
               /\ (Stored(m) \/ Restarted(m)) \/ node'[m] = node[m]
    BY <1>1, <1>3, HostMoves DEF Moved, HostStep, Services
  <1>4. CASE World
    BY <1>4, WorldMoves
  <1>5. CASE UNCHANGED vars
    BY <1>5 DEF vars, hostVars, Services
  <1> QED
    BY <1>2, <1>3, <1>4, <1>5, EveryStep

\* Of a kind there is one: the node itself.
LEMMA SoleOfItsKind ==
    ASSUME HostInv, NEW kinds, NEW n \in cast, Is(n, kinds), Sole(n, kinds), NEW m \in cast, Is(m, kinds)
    PROVE  m = n
  <1> DEFINE all == {k \in cast : Is(k, kinds)}
  <1>1. IsFiniteSet(cast)
    BY NodeEffectsAssumption DEF HostInv
  <1>2. IsFiniteSet(all) /\ Cardinality(all) = 1
    BY <1>1, FS_Subset DEF Sole
  <1>3. PICK x : all = {x}
    BY <1>2, FS_Singleton
  <1>4. n \in all /\ m \in all
    OBVIOUS
  <1> QED
    BY <1>3, <1>4

\* Confluence pages.
PageTrue(n) ==
    /\ node[n].pc \in {"returned", "completed"} => page # None /\ node[n].out.version \in 0..page.version
    /\ Sole(n, {"page"}) /\ edits = 0 =>
          /\ At(n, "labels") => page.body = n.body
          /\ At(n, "label") => page.body = n.body /\ page.labels = node[n].saw
          /\ node[n].pc \in {"returned", "completed"} => page.body = n.body /\ page.labels = n.labels

LEMMA PageStepTrue ==
    ASSUME HostInv, NEW n \in cast, Is(n, {"page"}), PageTrue(n), PageSteps(n)
    PROVE  PageTrue(n)'
  <1>0. Sound(n) /\ cast' = cast /\ edits' = edits /\ Sole(n, {"page"})' = Sole(n, {"page"})
    BY PageMoves DEF HostInv, Moved, Sole
  <1>1. ASSUME node'[n].pc \in {"find", "property", "write", "set", "raised"} PROVE PageTrue(n)'
    BY <1>1 DEF PageTrue, At
  <1>2. ASSUME Raise(n) PROVE PageTrue(n)'
    BY <1>0, <1>1, <1>2, Raising DEF Keeps
  <1>3. CASE StartConfluence(n)
    <2>1. CASE Goto(n, "find")
      BY <1>0, <1>1, <2>1, Going DEF Keeps
    <2> QED BY <1>2, <1>3, <2>1 DEF StartConfluence, Is
  <1>4. CASE FindPage(n)
    <2>1. CASE Become(n, [node[n] EXCEPT !.pc = "write", !.saw = Version(page)])
      <3>1. node'[n] = [node[n] EXCEPT !.pc = "write", !.saw = Version(page)]
        BY <2>1, Becoming
      <3>2. node'[n].pc = "write"
        BY <1>0, <3>1 DEF Sound, IsLocal
      <3> QED BY <1>1, <3>2
    <2> QED BY <1>2, <1>4, <2>1 DEF FindPage, Is
  <1>5. CASE CreatePage(n)
    <2>1. CASE /\ page' = [version |-> 1, body |-> n.body, labels |-> {}, by |-> n.id]
               /\ Wrote(n, 1, TRUE)
      <3>1. page'.version = 1 /\ page'.body = n.body /\ page'.labels = {}
        BY <2>1
      <3>2. page' # None
        BY <2>1, PageMoves, NodeEffectsAssumption, Configured DEF Page, OutboundConfig, JiraConfig, VectorConfig, Is
      <3>3. page'.version \in Nat /\ 1 \in 0..page'.version
        BY <3>1
      <3>4. node'[n].pc = "label" /\ node'[n].saw = {}
        BY <1>0, <2>1, <3>2, <3>3, Writing
      <3> QED BY <3>1, <3>4 DEF PageTrue, At
    <2> QED BY <1>2, <1>5, <2>1 DEF CreatePage
  <1>6. CASE UpdatePage(n)
    <2>0. page \in Page /\ page # None
      BY <1>0, <1>6 DEF UpdatePage, Sound, Version, HostInv, At
    <2>1. CASE /\ page.version + 1 = node[n].saw + 1
               /\ page' = [page EXCEPT !.version = @ + 1, !.body = n.body, !.by = n.id]
               /\ Wrote(n, node[n].saw + 1, FALSE)
      <3>1. page'.body = n.body /\ page'.version = page.version + 1
        <4>1. \A v : /\ [page EXCEPT !.version = v, !.body = n.body, !.by = n.id].body = n.body
                     /\ [page EXCEPT !.version = v, !.body = n.body, !.by = n.id].version = v
          BY <2>0 DEF Page
        <4> QED BY <2>1, <4>1
      <3>2. page' # None /\ page'.version \in Nat /\ node[n].saw + 1 \in 0..page'.version
        <4>1. page' # None
          BY <2>0, PageMoves DEF PagesGrow
        <4>2. page.version \in Nat
          BY <2>0 DEF Page
        <4> QED BY <2>1, <3>1, <4>1, <4>2
      <3>3. node'[n].pc = "labels"
        BY <1>0, <2>1, <3>2, Writing
      <3> QED BY <3>1, <3>3 DEF PageTrue, At
    <2> QED BY <1>2, <1>6, <2>1 DEF UpdatePage
  <1>7. CASE ReadLabels(n)
    <2>1. CASE Become(n, [node[n] EXCEPT !.pc = "label", !.saw = page.labels])
      <3>1. node'[n] = [node[n] EXCEPT !.pc = "label", !.saw = page.labels] /\ page' = page /\ At(n, "labels")
        BY <1>7, <2>1, Becoming DEF ReadLabels, outVars
      <3>2. node'[n].pc = "label" /\ node'[n].saw = page.labels
        BY <1>0, <3>1 DEF Sound, IsLocal
      <3> QED BY <1>0, <3>1, <3>2 DEF PageTrue, At
    <2> QED BY <1>2, <1>7, <2>1 DEF ReadLabels
  <1>8. CASE DeleteLabel(n)
    <2>0. page \in Page /\ At(n, "label")
      BY <1>0, <1>8 DEF DeleteLabel, Sound, At, HostInv
    <2>1. ASSUME NEW name, page' = [page EXCEPT !.labels = @ \ {name}], Become(n, [node[n] EXCEPT !.saw = @ \ {name}])
          PROVE  PageTrue(n)'
      <3>1. node'[n] = [node[n] EXCEPT !.saw = @ \ {name}]
        BY <2>1, Becoming
      <3>2. node'[n].pc = "label" /\ node'[n].saw = node[n].saw \ {name}
        BY <1>0, <2>0, <3>1 DEF Sound, IsLocal, At
      <3>3. page'.body = page.body /\ page'.labels = page.labels \ {name}
        BY <2>0, <2>1 DEF Page
      <3> QED BY <1>0, <2>0, <3>2, <3>3 DEF PageTrue, At
    <2> QED BY <1>2, <1>8, <2>1 DEF DeleteLabel
  <1>9. CASE AddLabels(n)
    <2>0. page \in Page /\ page # None /\ At(n, "label") /\ node[n].saw \subseteq n.labels /\ node[n].left \in 0..page.version
      BY <1>0, <1>9 DEF AddLabels, Sound, At, HostInv
    <2>1. CASE /\ Return(n, [version |-> node[n].left])
               /\ \/ node[n].saw = n.labels /\ UNCHANGED page
                  \/ page' = [page EXCEPT !.labels = @ \cup (n.labels \ node[n].saw)]
      <3>1. Keeps(n, "returned") /\ node'[n].out = [version |-> node[n].left]
        BY <1>0, <2>1, Returning
      <3>2. /\ page'.body = page.body /\ page'.version = page.version
            /\ \/ page'.labels = page.labels /\ node[n].saw = n.labels
               \/ page'.labels = page.labels \cup (n.labels \ node[n].saw)
        BY <2>0, <2>1 DEF Page
      <3>3. page' # None
        BY <2>0, PageMoves DEF PagesGrow
      <3>4. page.labels = node[n].saw => page'.labels = n.labels
        BY <2>0, <3>2
      <3> QED BY <1>0, <2>0, <3>1, <3>2, <3>3, <3>4 DEF PageTrue, At, Keeps
    <2> QED BY <1>2, <1>9, <2>1 DEF AddLabels
  <1>10. CASE ReadProperty(n) \/ SetProperty(n)
    BY <1>0, <1>10 DEF ReadProperty, SetProperty, Sound, Routed, At, Is
  <1> QED
    BY <1>3, <1>4, <1>5, <1>6, <1>7, <1>8, <1>9, <1>10 DEF PageSteps

LEMMA PageNext ==
    ASSUME HostInv, [Next]_vars, NEW n \in cast, Is(n, {"page"}), PageTrue(n)
    PROVE  PageTrue(n)'
  <1>0. cast' = cast /\ Sole(n, {"page"})' = Sole(n, {"page"})
    BY SeenBy DEF Sole
  <1>1. CASE ServiceSteps(n)
    BY <1>1, FamilySteps, PageStepTrue DEF Is, PageKinds
  <1>2. CASE (Stored(n) \/ Restarted(n)) /\ UNCHANGED Services
    BY <1>0, <1>2 DEF Stored, Restarted, Keeps, PageTrue, At, Services, outVars
  <1>3. ASSUME node'[n] = node[n], PagesGrow, edits' = 0 => edits = 0,
               Sole(n, {"page"}) /\ edits' = 0 => page' = page
        PROVE  PageTrue(n)'
    <2>1. page # None => page.version \in Nat /\ page'.version \in Nat /\ page' # None /\ page.version <= page'.version
      BY <1>3 DEF PagesGrow, HostInv, Page
    <2>2. node'[n].pc \in {"returned", "completed"} => page' # None /\ node'[n].out.version \in 0..page'.version
      BY <1>3, <2>1 DEF PageTrue
    <2> QED BY <1>0, <1>3, <2>2 DEF PageTrue, At
  <1>4. ASSUME node'[n] = node[n], NEW m \in cast, m # n, ServiceSteps(m) PROVE PageTrue(n)'
    <2>1. Sole(n, {"page"}) => page' = page
      BY <1>4, ServiceMoves, SoleOfItsKind
    <2> QED BY <1>3, <1>4, <2>1, ServiceMoves
  <1>5. CASE node'[n] = node[n] /\ World
    <2>1. edits' = 0 => edits = 0 /\ page' = page
      BY <1>5, OutboundAssumption DEF World, PersonEdits, UserAuthorizes, GammaProceeds, UnchangedButGens, HostInv
    <2> QED BY <1>3, <1>5, <2>1, WorldMoves
  <1>6. CASE node'[n] = node[n] /\ UNCHANGED Services
    BY <1>3, <1>6, SamePages DEF Services, outVars
  <1> QED
    BY <1>1, <1>2, <1>4, <1>5, <1>6, SeenBy

\* Properties of a page.
PropertyTrue(n) ==
    node[n].pc \in {"returned", "completed"} => prop # None /\ node[n].out.version \in 0..prop.version

LEMMA PropertyNext ==
    ASSUME HostInv, [Next]_vars, NEW n \in cast, Is(n, {"set_property"}), PropertyTrue(n)
    PROVE  PropertyTrue(n)'
  <1>0. Sound(n) /\ cast' = cast
    BY SeenBy DEF HostInv
  <1>1. CASE ServiceSteps(n)
    <2>0. PageSteps(n)
      BY <1>1, FamilySteps DEF Is, PageKinds
    <2>1. ASSUME node'[n].pc \in {"find", "property", "write", "set", "raised"} PROVE PropertyTrue(n)'
      BY <2>1 DEF PropertyTrue
    <2>2. ASSUME Raise(n) PROVE PropertyTrue(n)'
      BY <1>0, <2>1, <2>2, Raising DEF Keeps
    <2>3. CASE StartConfluence(n)
      <3>1. CASE Goto(n, "property")
        BY <1>0, <2>1, <3>1, Going DEF Keeps
      <3> QED BY <2>2, <2>3, <3>1 DEF StartConfluence, Is
    <2>4. CASE ReadProperty(n)
      <3>1. CASE Become(n, [node[n] EXCEPT !.pc = "set", !.saw = Version(prop)])
        <4>1. node'[n] = [node[n] EXCEPT !.pc = "set", !.saw = Version(prop)]
          BY <3>1, Becoming
        <4>2. node'[n].pc = "set"
          BY <1>0, <4>1 DEF Sound, IsLocal
        <4> QED BY <2>1, <4>2
      <3> QED BY <2>2, <2>4, <3>1 DEF ReadProperty, Is
    <2>5. CASE SetProperty(n)
      <3>1. CASE /\ prop' = [version |-> node[n].saw + 1, value |-> n.body]
                 /\ Return(n, [version |-> node[n].saw + 1])
        <4>1. Keeps(n, "returned") /\ node'[n].out = [version |-> node[n].saw + 1]
          BY <1>0, <3>1, Returning
        <4>2. node[n].saw + 1 \in 0..prop'.version
          <5>1. Version(prop) \in Nat
            BY DEF HostInv, Version, Property
          <5>2. node[n].saw \in Nat
            BY <1>0, <2>5, <5>1 DEF Sound, SetProperty
          <5> QED BY <3>1, <5>2
        <4>3. prop' # None
          <5>1. n.body \in Texts
            BY Configured DEF JiraConfig, VectorConfig, OutboundConfig, Is
          <5>2. node[n].saw + 1 \in Nat \ {0}
            <6>1. Version(prop) \in Nat
              BY DEF HostInv, Version, Property
            <6>2. node[n].saw \in Nat
              BY <1>0, <2>5, <6>1 DEF Sound, SetProperty
            <6> QED BY <6>2
          <5>3. prop' \in Property
            BY <3>1, <5>1, <5>2 DEF Property
          <5> QED BY <5>3, NodeEffectsAssumption
        <4> QED BY <4>1, <4>2, <4>3 DEF PropertyTrue
      <3> QED BY <2>2, <2>5, <3>1 DEF SetProperty
    <2>6. CASE \/ FindPage(n) \/ CreatePage(n) \/ UpdatePage(n)
               \/ ReadLabels(n) \/ DeleteLabel(n) \/ AddLabels(n)
      BY <1>0, <2>6 DEF FindPage, CreatePage, UpdatePage, ReadLabels, DeleteLabel, AddLabels, Sound, Routed, At, Is
    <2> QED BY <2>0, <2>3, <2>4, <2>5, <2>6 DEF PageSteps
  <1>2. CASE (Stored(n) \/ Restarted(n)) /\ UNCHANGED Services
    BY <1>2 DEF Stored, Restarted, Keeps, PropertyTrue, At, Services, outVars
  <1>3. ASSUME node'[n] = node[n], PagesGrow PROVE PropertyTrue(n)'
    <2>1. prop # None => prop.version \in Nat /\ prop'.version \in Nat /\ prop' # None /\ prop.version <= prop'.version
      BY <1>3 DEF PagesGrow, HostInv, Property
    <2> QED BY <1>3, <2>1 DEF PropertyTrue
  <1>4. CASE node'[n] = node[n] /\ UNCHANGED Services
    BY <1>3, <1>4, SamePages DEF Services, outVars
  <1> QED
    BY <1>1, <1>2, <1>3, <1>4, SeenBy, ServiceMoves, WorldMoves

\* Arcade.
ToolTrue(n) ==
    node[n].pc \in {"returned", "completed"} => [by |-> n.id, run |-> node[n].run] \in ran

LEMMA ToolNext ==
    ASSUME HostInv, [Next]_vars, NEW n \in cast, Is(n, {"arcade"}), ToolTrue(n)
    PROVE  ToolTrue(n)'
  <1>0. Sound(n) /\ cast' = cast
    BY SeenBy DEF HostInv
  <1>1. ASSUME NEW m \in cast, ServiceSteps(m) PROVE ran \subseteq ran'
    BY <1>1, ServiceMoves, FamilySteps DEF ArcadeSteps, Authorize, Execute, outVars
  <1>2. CASE ServiceSteps(n)
    <2>1. CASE Authorize(n)
      BY <1>0, <2>1, Raising, Going DEF Authorize, ToolTrue, Keeps
    <2>2. CASE Execute(n)
      BY <1>0, <2>2, Raising, Returning DEF Execute, ToolTrue, Keeps
    <2> QED BY <1>2, <2>1, <2>2, FamilySteps DEF ArcadeSteps
  <1>3. CASE (Stored(n) \/ Restarted(n)) /\ UNCHANGED Services
    BY <1>3 DEF Stored, Restarted, Keeps, ToolTrue, At, Services, outVars
  <1>4. CASE node'[n] = node[n] /\ \E m \in cast : m # n /\ ServiceSteps(m)
    BY <1>1, <1>4 DEF ToolTrue
  <1>5. CASE node'[n] = node[n] /\ World
    BY <1>5 DEF ToolTrue, World, PersonEdits, UserAuthorizes, GammaProceeds, UnchangedButGens
  <1>6. CASE node'[n] = node[n] /\ UNCHANGED Services
    BY <1>6 DEF ToolTrue, Services, outVars
  <1> QED
    BY <1>2, <1>3, <1>4, <1>5, <1>6, SeenBy

\* Guardrails.
ChecksTrue(n) ==
    /\ At(n, "checks") => /\ node[n].saw \subseteq n.checks
                          /\ node[n].out = [violations |-> (n.checks \ node[n].saw) \cap n.flagged]
    /\ node[n].pc \in {"returned", "completed"} /\ n.block => n.flagged \cap n.checks = {}

LEMMA ChecksNext ==
    ASSUME HostInv, [Next]_vars, NEW n \in cast, Is(n, {"guardrails"}), ChecksTrue(n)
    PROVE  ChecksTrue(n)'
  <1>0. Sound(n) /\ cast' = cast
    BY SeenBy DEF HostInv
  <1>1. ASSUME Raise(n) PROVE ChecksTrue(n)'
    BY <1>0, <1>1, Raising DEF Keeps, ChecksTrue, At
  <1>2. CASE StartGuardrails(n)
    <2>1. CASE n.checks = {} /\ Return(n, [violations |-> {}])
      BY <1>0, <2>1, Returning DEF Keeps, ChecksTrue, At
    <2>2. CASE Become(n, [node[n] EXCEPT !.pc = "checks", !.saw = n.checks, !.out = [violations |-> {}]])
      <3>1. node'[n] = [node[n] EXCEPT !.pc = "checks", !.saw = n.checks, !.out = [violations |-> {}]]
        BY <2>2, Becoming
      <3>2. node'[n].pc = "checks" /\ node'[n].saw = n.checks /\ node'[n].out = [violations |-> {}]
        BY <1>0, <3>1 DEF Sound, IsLocal
      <3>3. (n.checks \ n.checks) \cap n.flagged = {}
        OBVIOUS
      <3> QED BY <3>2, <3>3 DEF ChecksTrue, At
    <2> QED BY <1>2, <2>1, <2>2 DEF StartGuardrails
  <1>3. CASE CheckAnswers(n)
    <2>1. ASSUME NEW check \in node[n].saw, At(n, "checks"),
                 Become(n, [node[n] EXCEPT !.saw = @ \ {check}, !.out.violations = @ \cup ({check} \cap n.flagged)])
          PROVE  ChecksTrue(n)'
      <3> DEFINE before == (n.checks \ node[n].saw) \cap n.flagged
      <3>1. node'[n] = [node[n] EXCEPT !.saw = @ \ {check}, !.out.violations = @ \cup ({check} \cap n.flagged)]
        BY <2>1, Becoming
      <3>2. /\ node'[n].pc = "checks" /\ node'[n].saw = node[n].saw \ {check}
            /\ node'[n].out = [node[n].out EXCEPT !.violations = @ \cup ({check} \cap n.flagged)]
        BY <1>0, <2>1, <3>1 DEF Sound, IsLocal, At
      <3>3. node[n].out = [violations |-> before] /\ node[n].saw \subseteq n.checks
        BY <2>1 DEF ChecksTrue
      <3>4. node'[n].out = [violations |-> before \cup ({check} \cap n.flagged)]
        <4>1. \A b, c : [[violations |-> b] EXCEPT !.violations = @ \cup c] = [violations |-> b \cup c]
          OBVIOUS
        <4> HIDE DEF before
        <4> QED BY <3>2, <3>3, <4>1
      <3>5. before \cup ({check} \cap n.flagged) = (n.checks \ node'[n].saw) \cap n.flagged
        BY <3>2, <3>3
      <3>6. node'[n].out = [violations |-> (n.checks \ node'[n].saw) \cap n.flagged]
        BY <3>4, <3>5
      <3> QED BY <3>2, <3>3, <3>6 DEF ChecksTrue, At
    <2> QED BY <1>1, <1>3, <2>1 DEF CheckAnswers
  <1>4. CASE Judge(n)
    <2>1. CASE ~(node[n].out.violations # {} /\ n.block) /\ Goto(n, "returned")
      <3>1. Keeps(n, "returned")
        BY <1>0, <2>1, Going
      <3>2. node[n].out = [violations |-> n.checks \cap n.flagged]
        <4>1. At(n, "checks") /\ node[n].saw = {}
          BY <1>4 DEF Judge
        <4>2. (n.checks \ {}) \cap n.flagged = n.checks \cap n.flagged
          OBVIOUS
        <4> QED BY <4>1, <4>2 DEF ChecksTrue
      <3>3. n.block => n.flagged \cap n.checks = {}
        BY <2>1, <3>2
      <3> QED BY <3>1, <3>3 DEF Keeps, ChecksTrue, At
    <2> QED BY <1>1, <1>4, <2>1 DEF Judge
  <1>5. CASE Stored(n) \/ Restarted(n)
    BY <1>5 DEF Stored, Restarted, Keeps, ChecksTrue, At
  <1>6. CASE node'[n] = node[n]
    BY <1>6 DEF ChecksTrue, At
  <1> QED
    BY <1>2, <1>3, <1>4, <1>5, <1>6, SeenBy, FamilySteps DEF GuardSteps

\* Gamma's generations: a file comes only with a completed one, and stays.
Generations == [state : {"processing", "completed", "failed"}, url : BOOLEAN]
GensGrow ==
    /\ gens \in Seq(Generations)
    /\ \A g \in DOMAIN gens : gens[g].url => gens[g].state = "completed"

GenerationTrue(n) ==
    /\ node[n].pc \in {"poll", "export"} => node[n].saw \in DOMAIN gens
    /\ node[n].pc \in {"export", "returned", "completed"} =>
          /\ node[n].out.state = "completed" => node[n].saw \in DOMAIN gens /\ gens[node[n].saw].state = "completed"
          /\ node[n].out.url => node[n].saw \in DOMAIN gens /\ gens[node[n].saw].url

GammaInv == GensGrow /\ \A n \in cast : Is(n, {"gamma"}) => GenerationTrue(n)

\* A generation that is there stays, and what it has reached too.
GensKept ==
    \A g \in DOMAIN gens :
       /\ g \in DOMAIN gens'
       /\ gens[g].state = "completed" => gens'[g].state = "completed"
       /\ gens[g].url => gens'[g].url

LEMMA GensProceed ==
    ASSUME GensGrow, NEW g \in DOMAIN gens, GammaProceeds(g)
    PROVE  GensGrow' /\ GensKept
  <1>1. PICK now \in {[state |-> "completed", url |-> FALSE], [state |-> "failed", url |-> FALSE],
                      [state |-> "completed", url |-> TRUE]} :
           /\ gens' = [gens EXCEPT ![g] = now]
           /\ gens[g].state = "processing" \/ (gens[g].state = "completed" /\ now = [state |-> "completed", url |-> TRUE])
    <2>1. CASE gens[g].state = "processing"
      BY <2>1 DEF GammaProceeds
    <2>2. CASE gens[g].state = "completed"
      BY <2>2 DEF GammaProceeds
    <2> QED BY <2>1, <2>2 DEF GammaProceeds
  <1>2. now \in Generations /\ (now.url => now.state = "completed")
    <2>1. CASE now = [state |-> "completed", url |-> FALSE]
      BY <2>1 DEF Generations
    <2>2. CASE now = [state |-> "failed", url |-> FALSE]
      BY <2>2 DEF Generations
    <2>3. CASE now = [state |-> "completed", url |-> TRUE]
      BY <2>3 DEF Generations
    <2> QED BY <2>1, <2>2, <2>3
  <1>3. gens' \in Seq(Generations) /\ DOMAIN gens' = DOMAIN gens
    BY <1>1, <1>2 DEF GensGrow
  <1>4. gens'[g] = now /\ \A h \in DOMAIN gens \ {g} : gens'[h] = gens[h]
    BY <1>1 DEF GensGrow
  <1>5. GensGrow'
    BY <1>2, <1>3, <1>4 DEF GensGrow
  <1>6. gens[g].state = "processing" => ~gens[g].url
    BY DEF GensGrow, Generations
  <1>7. gens[g].state = "completed" => now.state = "completed" /\ now.url
    BY <1>1
  <1>8. gens[g].url => gens[g].state = "completed"
    BY DEF GensGrow
  <1> QED
    BY <1>3, <1>4, <1>5, <1>7, <1>8 DEF GensKept

LEMMA GensCreated ==
    ASSUME GensGrow, gens' = Append(gens, [state |-> "processing", url |-> FALSE])
    PROVE  GensGrow' /\ GensKept /\ Len(gens) + 1 \in DOMAIN gens'
  <1>1. [state |-> "processing", url |-> FALSE] \in Generations
    BY DEF Generations
  <1>2. /\ gens' \in Seq(Generations) /\ DOMAIN gens' = DOMAIN gens \cup {Len(gens) + 1}
        /\ gens'[Len(gens) + 1] = [state |-> "processing", url |-> FALSE]
        /\ \A g \in DOMAIN gens : gens'[g] = gens[g]
    BY <1>1 DEF GensGrow
  <1> QED
    BY <1>2 DEF GensGrow, GensKept

LEMMA GenerationStays ==
    ASSUME NEW n, GenerationTrue(n), GensKept, node'[n] = node[n]
    PROVE  GenerationTrue(n)'
  BY DEF GenerationTrue, GensKept

LEMMA GenerationStep ==
    ASSUME HostInv, GammaInv, NEW n \in cast, Is(n, {"gamma"}), GammaSteps(n)
    PROVE  GenerationTrue(n)' /\ GensGrow' /\ GensKept
  <1>0. Sound(n) /\ cast' = cast /\ GenerationTrue(n) /\ GensGrow
    BY GammaMoves DEF HostInv, Moved, GammaInv
  <1>1. ASSUME gens' = gens PROVE GensGrow' /\ GensKept
    BY <1>0, <1>1 DEF GensGrow, GensKept
  <1>2. ASSUME Raise(n) PROVE GenerationTrue(n)'
    BY <1>0, <1>2, Raising DEF Keeps, GenerationTrue
  \* A status is reported, or the node waits for its export.
  <1>3. ASSUME NEW status, gens' = gens, Polled(n, status), node[n].saw \in DOMAIN gens,
               status.state = "completed" => gens[node[n].saw].state = "completed",
               status.url => gens[node[n].saw].url
        PROVE  GenerationTrue(n)'
    <2>1. CASE Become(n, [node[n] EXCEPT !.pc = "export", !.left = MaxPolls, !.out = Report(status)])
      <3>1. node'[n] = [node[n] EXCEPT !.pc = "export", !.left = MaxPolls, !.out = Report(status)]
        BY <2>1, Becoming
      <3>2. node'[n].pc = "export" /\ node'[n].saw = node[n].saw /\ node'[n].out = Report(status)
        BY <1>0, <3>1 DEF Sound, IsLocal
      <3>3. Report(status).state = status.state /\ Report(status).url = status.url
        BY DEF Report
      <3> QED BY <1>3, <3>2, <3>3 DEF GenerationTrue
    <2>2. CASE Return(n, Report(status))
      <3>1. node'[n].pc = "returned" /\ node'[n].saw = node[n].saw /\ node'[n].out = Report(status)
        BY <1>0, <2>2, Returning DEF Keeps
      <3>2. Report(status).state = status.state /\ Report(status).url = status.url
        BY DEF Report
      <3> QED BY <1>3, <3>1, <3>2 DEF GenerationTrue
    <2> QED BY <1>3, <2>1, <2>2 DEF Polled
  <1>4. CASE CreateGeneration(n)
    <2>1. CASE gens' = gens
      <3>1. Raise(n)
        BY <1>0, <1>4, <2>1, GensCreated DEF CreateGeneration, GensGrow
      <3> QED BY <1>1, <1>2, <2>1, <3>1
    <2>2. CASE /\ gens' = Append(gens, [state |-> "processing", url |-> FALSE])
               /\ Become(n, [node[n] EXCEPT !.pc = "poll", !.saw = Len(gens) + 1, !.left = MaxPolls])
      <3>1. node'[n] = [node[n] EXCEPT !.pc = "poll", !.saw = Len(gens) + 1, !.left = MaxPolls]
        BY <2>2, Becoming
      <3>2. node'[n].pc = "poll" /\ node'[n].saw = Len(gens) + 1
        BY <1>0, <3>1 DEF Sound, IsLocal
      <3> QED BY <1>0, <2>2, <3>2, GensCreated DEF GenerationTrue
    <2>3. CASE gens' = Append(gens, [state |-> "processing", url |-> FALSE]) /\ Raise(n)
      BY <1>0, <1>2, <2>3, GensCreated
    <2> QED BY <1>4, <2>1, <2>2, <2>3 DEF CreateGeneration
  <1>5. CASE PollGeneration(n)
    <2>0. gens' = gens /\ At(n, "poll") /\ node[n].saw \in DOMAIN gens
      BY <1>0, <1>5 DEF PollGeneration, GenerationTrue, outVars, At
    <2>1. CASE Polled(n, Generation(n))
      BY <1>1, <1>3, <2>0, <2>1 DEF Generation
    <2>2. CASE Become(n, [node[n] EXCEPT !.left = @ - 1])
      <3>1. node'[n] = [node[n] EXCEPT !.left = @ - 1]
        BY <2>2, Becoming
      <3>2. node'[n].pc = "poll" /\ node'[n].saw = node[n].saw
        BY <1>0, <2>0, <3>1 DEF Sound, IsLocal, At
      <3> QED BY <1>1, <2>0, <3>2 DEF GenerationTrue
    <2> QED BY <1>1, <1>2, <1>5, <2>0, <2>1, <2>2 DEF PollGeneration
  <1>6. CASE LastRead(n)
    <2>0. gens' = gens /\ At(n, "poll") /\ node[n].saw \in DOMAIN gens
      BY <1>0, <1>6 DEF LastRead, GenerationTrue, outVars, At
    <2>1. CASE Polled(n, Generation(n))
      BY <1>1, <1>3, <2>0, <2>1 DEF Generation
    <2>2. CASE Polled(n, [state |-> "processing", url |-> FALSE])
      BY <1>1, <1>3, <2>0, <2>2
    <2> QED BY <1>1, <1>2, <1>6, <2>0, <2>1, <2>2 DEF LastRead
  <1>7. CASE WaitForExport(n)
    <2>0. gens' = gens /\ At(n, "export") /\ node[n].saw \in DOMAIN gens
      BY <1>0, <1>7 DEF WaitForExport, GenerationTrue, outVars, At
    <2>1. CASE Return(n, Report(Generation(n)))
      <3>1. node'[n].pc = "returned" /\ node'[n].saw = node[n].saw /\ node'[n].out = Report(gens[node[n].saw])
        BY <1>0, <2>1, Returning DEF Keeps, Generation
      <3>2. Report(gens[node[n].saw]).state = gens[node[n].saw].state
            /\ Report(gens[node[n].saw]).url = gens[node[n].saw].url
        BY DEF Report
      <3> QED BY <1>1, <2>0, <3>1, <3>2 DEF GenerationTrue
    <2>2. CASE Become(n, [node[n] EXCEPT !.left = @ - 1])
      <3>1. node'[n] = [node[n] EXCEPT !.left = @ - 1]
        BY <2>2, Becoming
      <3>2. node'[n].pc = "export" /\ node'[n].saw = node[n].saw /\ node'[n].out = node[n].out
        BY <1>0, <2>0, <3>1 DEF Sound, IsLocal, At
      <3> QED BY <1>0, <1>1, <2>0, <3>2 DEF GenerationTrue, At
    <2>3. CASE Goto(n, "returned")
      <3>1. node'[n].pc = "returned" /\ node'[n].saw = node[n].saw /\ node'[n].out = node[n].out
        BY <1>0, <2>3, Going DEF Keeps
      <3> QED BY <1>0, <1>1, <2>0, <3>1 DEF GenerationTrue, At
    <2> QED BY <1>1, <1>2, <1>7, <2>0, <2>1, <2>2, <2>3 DEF WaitForExport
  <1> QED
    BY <1>4, <1>5, <1>6, <1>7 DEF GammaSteps

LEMMA GammaNext == HostInv /\ GammaInv /\ [Next]_vars => GammaInv'
  <1> SUFFICES ASSUME HostInv, GammaInv, [Next]_vars PROVE GammaInv'
    OBVIOUS
  <1>1. ASSUME gens' = gens PROVE GensGrow' /\ GensKept
    BY <1>1 DEF GammaInv, GensGrow, GensKept
  <1>2. ASSUME NEW n \in cast, ServiceSteps(n) PROVE GensGrow' /\ GensKept
    BY <1>1, <1>2, ServiceMoves, FamilySteps, GenerationStep
  <1>3. ASSUME World PROVE GensGrow' /\ GensKept
    BY <1>1, <1>3, GensProceed DEF World, PersonEdits, UserAuthorizes, GammaInv
  <1>4. GensGrow' /\ GensKept
    BY <1>1, <1>2, <1>3, EveryStep DEF HostStep, outVars, vars
  <1>5. ASSUME NEW m \in cast, Is(m, {"gamma"}) PROVE GenerationTrue(m)'
    <2>0. GenerationTrue(m)
      BY <1>5 DEF GammaInv
    <2>1. CASE ServiceSteps(m)
      BY <1>5, <2>1, FamilySteps, GenerationStep
    <2>2. CASE (Stored(m) \/ Restarted(m)) /\ UNCHANGED Services
      BY <2>0, <2>2 DEF Stored, Restarted, Keeps, GenerationTrue, At, Services, outVars
    <2>3. CASE node'[m] = node[m]
      BY <1>4, <2>0, <2>3, GenerationStays
    <2> QED BY <1>5, <2>1, <2>2, <2>3, SeenBy
  <1>6. cast' = cast
    BY EveryStep, ServiceMoves, HostMoves, WorldMoves DEF Moved, vars, hostVars
  <1> QED
    BY <1>4, <1>5, <1>6 DEF GammaInv

\* Mails.
Mails == {[by |-> n.id, key |-> n.key] : n \in {m \in cast : Is(m, {"email"})}}
SentOf(n) == \E i \in DOMAIN mails : mails[i].key = n.key /\ (n.key # None \/ mails[i].by = n.id)
OneMailPerKey == \A i, j \in DOMAIN mails : mails[i].key # None /\ mails[i].key = mails[j].key => i = j

MailInv ==
    /\ mails \in Seq(Mails)
    /\ OneMailPerKey
    /\ \A n \in cast : Is(n, {"email"}) /\ node[n].pc \in {"returned", "completed"} => SentOf(n)

LEMMA MailStep ==
    ASSUME HostInv, MailInv, NEW n \in cast, Is(n, {"email"}), MailSteps(n)
    PROVE  /\ mails' \in Seq(Mails) /\ OneMailPerKey'
           /\ \A i \in DOMAIN mails : i \in DOMAIN mails' /\ mails'[i] = mails[i]
           /\ node'[n].pc \in {"returned", "completed"} => SentOf(n)'
  <1>0. cast' = cast
    BY MailMoves DEF Moved
  <1>1. CASE mails' = mails /\ (Raise(n) \/ Goto(n, "send"))
    <2>1. node'[n].pc \notin {"returned", "completed"}
      BY <1>0, <1>1, Raising, Going DEF Keeps
    <2> QED BY <1>1, <2>1 DEF MailInv, OneMailPerKey
  <1>2. CASE mails' = mails /\ \E i \in DOMAIN mails : n.key # None /\ mails[i].key = n.key
    BY <1>2 DEF MailInv, OneMailPerKey, SentOf
  <1>3. CASE Delivered(n) /\ (n.key = None \/ \A i \in DOMAIN mails : mails[i].key # n.key)
    <2> DEFINE mail == [by |-> n.id, key |-> n.key]
    <2>1. mail \in Mails /\ mail.by = n.id /\ mail.key = n.key
      BY DEF Mails
    <2>2. mails' = Append(mails, mail)
      BY <1>3 DEF Delivered
    <2> HIDE DEF mail
    <2>3. /\ mails' \in Seq(Mails) /\ DOMAIN mails' = DOMAIN mails \cup {Len(mails) + 1}
          /\ mails'[Len(mails) + 1] = mail
          /\ \A i \in DOMAIN mails : mails'[i] = mails[i]
      BY <2>1, <2>2 DEF MailInv
    <2>4. OneMailPerKey'
      <3> SUFFICES ASSUME NEW i \in DOMAIN mails', NEW j \in DOMAIN mails',
                          mails'[i].key # None, mails'[i].key = mails'[j].key
                   PROVE  i = j
        BY DEF OneMailPerKey
      <3>1. CASE i \in DOMAIN mails /\ j \in DOMAIN mails
        BY <2>3, <3>1 DEF MailInv, OneMailPerKey
      <3>2. CASE i \in DOMAIN mails /\ j = Len(mails) + 1
        BY <1>3, <2>1, <2>3, <3>2
      <3>3. CASE i = Len(mails) + 1 /\ j \in DOMAIN mails
        BY <1>3, <2>1, <2>3, <3>3
      <3> QED BY <2>3, <3>1, <3>2, <3>3
    <2>5. SentOf(n)'
      BY <2>1, <2>3 DEF SentOf
    <2> QED BY <2>3, <2>4, <2>5
  <1>4. CASE StartEmail(n)
    BY <1>1, <1>4 DEF StartEmail, outVars
  <1>5. CASE SendEmail(n)
    <2>1. CASE Raise(n) /\ UNCHANGED mails
      BY <1>1, <2>1
    <2>2. CASE IF n.key # None /\ \E i \in DOMAIN mails : mails[i].key = n.key
               THEN UNCHANGED mails ELSE Delivered(n)
      BY <1>2, <1>3, <2>2
    <2> QED BY <1>5, <2>1, <2>2 DEF SendEmail
  <1> QED
    BY <1>4, <1>5 DEF MailSteps

LEMMA MailNext == HostInv /\ MailInv /\ [Next]_vars => MailInv'
  <1> SUFFICES ASSUME HostInv, MailInv, [Next]_vars PROVE MailInv'
    OBVIOUS
  <1>0. cast' = cast
    BY EveryStep, ServiceMoves, HostMoves, WorldMoves DEF Moved, vars, hostVars
  <1>1. Mails' = Mails
    BY <1>0 DEF Mails, Is
  <1>2. ASSUME mails' = mails
        PROVE  /\ mails' \in Seq(Mails) /\ OneMailPerKey'
               /\ \A i \in DOMAIN mails : i \in DOMAIN mails' /\ mails'[i] = mails[i]
    BY <1>2 DEF MailInv, OneMailPerKey
  <1>3. ASSUME NEW n \in cast, ServiceSteps(n)
        PROVE  /\ mails' \in Seq(Mails) /\ OneMailPerKey'
               /\ \A i \in DOMAIN mails : i \in DOMAIN mails' /\ mails'[i] = mails[i]
    <2>1. CASE Is(n, {"email"})
      BY <1>3, <2>1, FamilySteps, MailStep
    <2>2. CASE ~Is(n, {"email"})
      BY <1>2, <1>3, <2>2, ServiceMoves
    <2> QED BY <2>1, <2>2
  <1>4. World => mails' = mails
    BY DEF World, PersonEdits, UserAuthorizes, GammaProceeds, UnchangedButGens
  <1>5. /\ mails' \in Seq(Mails) /\ OneMailPerKey'
        /\ \A i \in DOMAIN mails : i \in DOMAIN mails' /\ mails'[i] = mails[i]
    BY <1>2, <1>3, <1>4, EveryStep DEF HostStep, outVars, vars
  <1>6. ASSUME NEW m \in cast, Is(m, {"email"}), node'[m].pc \in {"returned", "completed"}
        PROVE  SentOf(m)'
    <2>1. CASE ServiceSteps(m)
      BY <1>6, <2>1, FamilySteps, MailStep
    <2>2. CASE node[m].pc \in {"returned", "completed"}
      BY <1>5, <1>6, <2>2 DEF MailInv, SentOf
    <2> QED BY <1>6, <2>1, <2>2, SeenBy DEF Stored, Restarted, Keeps, At
  <1> QED
    BY <1>0, <1>1, <1>5, <1>6 DEF MailInv

\* Files.
Contents == {None} \cup {n.body : n \in {m \in cast : Is(m, {"file", "pdf"})}}
FileTrue(n) ==
    /\ At(n, "upload") => node[n].saw \in DOMAIN drive
    /\ Sole(n, {"file", "pdf"}) =>
          /\ Len(drive) <= 1
          /\ At(n, "create") => drive = <<>>
          /\ node[n].pc \in {"returned", "completed"} =>
                IF n.provider = "drive" THEN n.body \in ToSet(drive) ELSE disk = n.body

FileInv ==
    /\ drive \in Seq(Contents)
    /\ \A n \in cast : Is(n, {"file", "pdf"}) => FileTrue(n)

LEMMA FileStep ==
    ASSUME HostInv, FileInv, NEW n \in cast, Is(n, {"file", "pdf"}), FileSteps(n)
    PROVE  /\ drive' \in Seq(Contents) /\ DOMAIN drive \subseteq DOMAIN drive' /\ FileTrue(n)'
  <1>0. /\ Sound(n) /\ cast' = cast /\ FileTrue(n) /\ drive \in Seq(Contents)
        /\ Sole(n, {"file", "pdf"})' = Sole(n, {"file", "pdf"})
        /\ n.body \in Contents /\ None \in Contents
    BY FileMoves DEF HostInv, Moved, FileInv, Sole, Contents
  <1> HIDE DEF Contents
  <1>1. ASSUME Raise(n), drive' = drive \/ (drive' = Append(drive, None) /\ At(n, "create"))
                         \/ \E i \in DOMAIN drive : drive' = [drive EXCEPT ![i] = n.body]
        PROVE  drive' \in Seq(Contents) /\ DOMAIN drive \subseteq DOMAIN drive' /\ FileTrue(n)'
    <2>1. node'[n].pc = "raised"
      BY <1>0, <1>1, Raising DEF Keeps
    <2>2. CASE drive' = drive
      BY <1>0, <2>1, <2>2 DEF FileTrue, At
    <2>3. CASE drive' = Append(drive, None) /\ At(n, "create")
      <3>1. /\ drive' \in Seq(Contents) /\ Len(drive') = Len(drive) + 1
            /\ DOMAIN drive \subseteq DOMAIN drive'
        BY <1>0, <2>3
      <3>2. Sole(n, {"file", "pdf"}) => Len(drive') <= 1
        BY <1>0, <2>3, <3>1 DEF FileTrue
      <3> QED BY <1>0, <2>1, <3>1, <3>2 DEF FileTrue, At
    <2>4. CASE \E i \in DOMAIN drive : drive' = [drive EXCEPT ![i] = n.body]
      <3>1. drive' \in Seq(Contents) /\ Len(drive') = Len(drive) /\ DOMAIN drive' = DOMAIN drive
        BY <1>0, <2>4
      <3> QED BY <1>0, <2>1, <3>1 DEF FileTrue, At
    <2> QED BY <1>1, <2>2, <2>3, <2>4
  <1>2. CASE StartFile(n)
    <2>0. drive' = drive
      BY <1>2 DEF StartFile, outVars
    <2>1. CASE \E pc \in {"search", "open"} : Goto(n, pc)
      BY <1>0, <2>0, <2>1, Going DEF Keeps, FileTrue, At
    <2> QED BY <1>1, <1>2, <2>0, <2>1 DEF StartFile
  <1>3. CASE SearchDrive(n)
    <2>0. drive' = drive
      BY <1>3 DEF SearchDrive, outVars
    <2>1. CASE drive = <<>> /\ Goto(n, "create")
      BY <1>0, <2>0, <2>1, Going DEF Keeps, FileTrue, At
    <2>2. CASE drive # <<>> /\ Become(n, [node[n] EXCEPT !.pc = "upload", !.saw = 1])
      <3>1. node'[n] = [node[n] EXCEPT !.pc = "upload", !.saw = 1]
        BY <2>2, Becoming
      <3>2. node'[n].pc = "upload" /\ node'[n].saw = 1
        BY <1>0, <3>1 DEF Sound, IsLocal
      <3>3. 1 \in DOMAIN drive
        BY <1>0, <2>2
      <3> QED BY <1>0, <2>0, <3>2, <3>3 DEF FileTrue, At
    <2> QED BY <1>1, <1>3, <2>0, <2>1, <2>2 DEF SearchDrive
  <1>4. CASE CreateInDrive(n)
    <2>1. CASE Raise(n)
      BY <1>1, <1>4, <2>1 DEF CreateInDrive
    <2>2. CASE /\ drive' = Append(drive, None)
               /\ Become(n, [node[n] EXCEPT !.pc = "upload", !.saw = Len(drive) + 1])
      <3>1. node'[n] = [node[n] EXCEPT !.pc = "upload", !.saw = Len(drive) + 1]
        BY <2>2, Becoming
      <3>2. node'[n].pc = "upload" /\ node'[n].saw = Len(drive) + 1
        BY <1>0, <3>1 DEF Sound, IsLocal
      <3>3. /\ drive' \in Seq(Contents) /\ Len(drive') = Len(drive) + 1
            /\ DOMAIN drive \subseteq DOMAIN drive' /\ Len(drive) + 1 \in DOMAIN drive'
        BY <1>0, <2>2
      <3>4. Sole(n, {"file", "pdf"}) => Len(drive') <= 1
        BY <1>0, <1>4, <3>3 DEF FileTrue, CreateInDrive
      <3> QED BY <1>0, <3>2, <3>3, <3>4 DEF FileTrue, At
    <2> QED BY <1>4, <2>1, <2>2 DEF CreateInDrive
  <1>5. CASE UploadToDrive(n)
    <2>0. At(n, "upload") /\ node[n].saw \in DOMAIN drive /\ n.provider = "drive"
      BY <1>0, <1>5 DEF UploadToDrive, FileTrue, Sound, Routed, At
    <2>1. CASE Raise(n)
      BY <1>1, <1>5, <2>0, <2>1 DEF UploadToDrive
    <2>2. CASE drive' = [drive EXCEPT ![node[n].saw] = n.body] /\ Return(n, [file |-> node[n].saw])
      <3>1. Keeps(n, "returned")
        BY <1>0, <2>2, Returning
      <3>2. /\ drive' \in Seq(Contents) /\ Len(drive') = Len(drive) /\ DOMAIN drive' = DOMAIN drive
            /\ drive'[node[n].saw] = n.body
        BY <1>0, <2>0, <2>2
      <3>3. n.body \in ToSet(drive')
        BY <2>0, <3>2 DEF ToSet
      <3> QED BY <1>0, <2>0, <3>1, <3>2, <3>3 DEF FileTrue, At, Keeps
    <2> QED BY <1>5, <2>1, <2>2 DEF UploadToDrive
  <1>6. CASE OpenFile(n)
    <2>0. drive' = drive
      BY <1>6 DEF OpenFile
    <2>1. CASE Goto(n, "write_bytes")
      BY <1>0, <2>0, <2>1, Going DEF Keeps, FileTrue, At
    <2> QED BY <1>1, <1>6, <2>0, <2>1 DEF OpenFile
  <1>7. CASE WriteBytes(n)
    <2>0. drive' = drive /\ n.provider # "drive"
      BY <1>0, <1>7 DEF WriteBytes, Sound, Routed, At
    <2>1. CASE disk' = n.body /\ Return(n, [file |-> 0])
      <3>1. Keeps(n, "returned")
        BY <1>0, <2>1, Returning
      <3> QED BY <1>0, <2>0, <2>1, <3>1 DEF Keeps, FileTrue, At
    <2> QED BY <1>1, <1>7, <2>0, <2>1 DEF WriteBytes
  <1> QED
    BY <1>2, <1>3, <1>4, <1>5, <1>6, <1>7 DEF FileSteps

LEMMA FileNext == HostInv /\ FileInv /\ [Next]_vars => FileInv'
  <1> SUFFICES ASSUME HostInv, FileInv, [Next]_vars PROVE FileInv'
    OBVIOUS
  <1>0. cast' = cast
    BY EveryStep, ServiceMoves, HostMoves, WorldMoves DEF Moved, vars, hostVars
  <1>1. Contents' = Contents
    BY <1>0 DEF Contents, Is
  <1>2. ASSUME NEW n \in cast, ServiceSteps(n)
        PROVE  drive' \in Seq(Contents) /\ DOMAIN drive \subseteq DOMAIN drive'
    <2>1. CASE Is(n, {"file", "pdf"})
      BY <1>2, <2>1, FamilySteps, FileStep
    <2>2. CASE ~Is(n, {"file", "pdf"})
      BY <1>2, <2>2, ServiceMoves DEF FileInv
    <2> QED BY <2>1, <2>2
  <1>3. World => drive' = drive /\ disk' = disk
    BY DEF World, PersonEdits, UserAuthorizes, GammaProceeds, UnchangedButGens
  <1>4. drive' \in Seq(Contents) /\ DOMAIN drive \subseteq DOMAIN drive'
    BY <1>2, <1>3, EveryStep DEF FileInv, HostStep, outVars, vars
  <1>5. ASSUME NEW m \in cast, Is(m, {"file", "pdf"}) PROVE FileTrue(m)'
    <2>0. FileTrue(m) /\ Sole(m, {"file", "pdf"})' = Sole(m, {"file", "pdf"})
      BY <1>0, <1>5 DEF FileInv, Sole
    <2>1. CASE ServiceSteps(m)
      BY <1>5, <2>1, FamilySteps, FileStep
    <2>2. CASE (Stored(m) \/ Restarted(m)) /\ UNCHANGED Services
      BY <2>0, <2>2 DEF Stored, Restarted, Keeps, FileTrue, At, Services, outVars
    <2>3. ASSUME node'[m] = node[m], Sole(m, {"file", "pdf"}) => drive' = drive /\ disk' = disk
          PROVE  FileTrue(m)'
      BY <1>4, <2>0, <2>3 DEF FileTrue, At
    <2>4. ASSUME NEW n \in cast, n # m, ServiceSteps(n), Sole(m, {"file", "pdf"})
          PROVE  drive' = drive /\ disk' = disk
      BY <1>5, <2>4, ServiceMoves, SoleOfItsKind
    <2> QED BY <1>3, <1>5, <2>1, <2>2, <2>3, <2>4, SeenBy DEF Services, outVars
  <1> QED
    BY <1>0, <1>1, <1>4, <1>5 DEF FileInv

-----------------------------------------------------------------------------
(* Sequences, and the windows of a text.                                   *)

\* The last of some places.
LEMMA MaxOfSome ==
    ASSUME NEW k \in Nat, NEW S, S \subseteq 1..k, S # {}
    PROVE  Max(S) \in S /\ \A j \in S : j <= Max(S)
  <1> DEFINE back == {d \in Nat : k - d \in S}
             less == {p \in Nat \X Nat : p[1] < p[2]}
  <1>1. IsWellFoundedOn(less, Nat)
    BY NatLessThanWellFounded DEF OpToRel
  <1>2. back # {}
    <2>1. PICK j \in S : j \in 1..k
      OBVIOUS
    <2>2. k - j \in Nat /\ k - (k - j) = j
      BY <2>1
    <2> QED BY <2>1, <2>2
  <1>3. PICK d \in back : \A c \in back : <<c, d>> \notin less
    <2>1. back \subseteq Nat
      OBVIOUS
    <2> HIDE DEF back, less
    <2> QED BY <1>1, <1>2, <2>1, WFMin
  <1>4. \A j \in S : j <= k - d
    <2>1. SUFFICES ASSUME NEW j \in S, ~(j <= k - d) PROVE FALSE
      OBVIOUS
    <2>2. k - j \in Nat /\ k - (k - j) = j /\ k - j < d /\ d \in Nat
      BY <2>1
    <2>3. k - j \in back /\ <<k - j, d>> \in less
      BY <2>2
    <2> QED BY <1>3, <2>3
  <1>5. \E x \in S : \A y \in S : x >= y
    BY <1>3, <1>4
  <1> QED
    BY <1>5 DEF Max

\* A set as a sequence: each of its members stands in one place.
LEMMA SetAsSequence ==
    ASSUME NEW S, IsFiniteSet(S)
    PROVE  /\ SetToSeq(S) \in Seq(S)
           /\ \A i, j \in DOMAIN SetToSeq(S) : SetToSeq(S)[i] = SetToSeq(S)[j] => i = j
           /\ \A x \in S : \E i \in DOMAIN SetToSeq(S) : SetToSeq(S)[i] = x
  <1> DEFINE n == Cardinality(S)
             q == SetToSeq(S)
  <1>1. n \in Nat /\ \E f : f \in Bijection(1..n, S)
    BY FS_CardinalityType DEF ExistsBijection
  <1>2. q \in [1..n -> S] /\ IsInjective(q)
    BY <1>1 DEF SetToSeq, Bijection, Injection
  <1>3. IsFiniteSet(1..n) /\ Cardinality(1..n) = n
    BY <1>1, FS_Interval
  <1> HIDE DEF q
  <1>4. q \in Surjection(1..n, S)
    <2>1. q \in Injection(1..n, S)
      BY <1>2 DEF Injection
    <2> HIDE DEF n
    <2> QED BY <1>3, <2>1, FS_Injection DEF n
  <1>5. q \in Seq(S)
    BY <1>1, <1>2
  <1> QED
    BY <1>2, <1>4, <1>5 DEF q, IsInjective, Surjection

LEMMA FiniteImage ==
    ASSUME NEW f, NEW D, IsFiniteSet(D)
    PROVE  IsFiniteSet({f[i] : i \in D})
  <1> DEFINE g == [i \in D |-> f[i]]
  <1>1. g \in Surjection(D, {f[i] : i \in D})
    BY DEF Surjection
  <1> QED
    BY <1>1, FS_Surjection

\* What is written by id: nothing else than what was there and what was taken,
\* under every id that was there or was taken, and once if that was so before.
LEMMA Overwriting ==
    ASSUME NEW R, NEW stored \in Seq(R), NEW sent, NEW k \in Nat, DOMAIN sent \subseteq 1..k,
           NEW took \in SUBSET DOMAIN sent, \A i \in took : sent[i] \in R
    PROVE  LET q == Overwrite(stored, sent, took) IN
           /\ q \in Seq(R)
           /\ \A i \in DOMAIN stored : \E j \in DOMAIN q : q[j].id = stored[i].id
           /\ \A i \in took : \E j \in DOMAIN q : q[j].id = sent[i].id
           /\ (\A i, j \in DOMAIN stored : stored[i].id = stored[j].id => i = j) =>
                 \A i, j \in DOMAIN q : q[i].id = q[j].id => i = j
  <1> DEFINE ids == {sent[i].id : i \in took}
             at(id) == {i \in took : sent[i].id = id}
             last(id) == sent[Max(at(id))]
             stay == {i \in DOMAIN stored : stored[i].id \notin ids}
             kept == {stored[i] : i \in stay}
             new == {last(id) : id \in ids}
             q == Overwrite(stored, sent, took)
  <1>1. ASSUME NEW id \in ids PROVE Max(at(id)) \in took /\ last(id).id = id
    <2>1. at(id) \subseteq 1..k /\ at(id) # {}
      OBVIOUS
    <2>2. Max(at(id)) \in at(id)
      <3> HIDE DEF at
      <3> QED BY <2>1, MaxOfSome
    <2> QED BY <2>2
  <1>2. IsFiniteSet(kept \cup new)
    <2>1. IsFiniteSet(1..Len(stored)) /\ IsFiniteSet(1..k)
      BY FS_Interval
    <2>2. stay \subseteq 1..Len(stored) /\ took \subseteq 1..k
      OBVIOUS
    <2>3. IsFiniteSet(stay) /\ IsFiniteSet(took)
      BY <2>1, <2>2, FS_Subset
    <2>4. IsFiniteSet(kept) /\ IsFiniteSet({sent[i] : i \in took})
      BY <2>3, FiniteImage
    <2>5. new \subseteq {sent[i] : i \in took}
      BY <1>1
    <2> QED BY <2>4, <2>5, FS_Subset, FS_Union
  <1>3. q = SetToSeq(kept \cup new)
    BY DEF Overwrite
  <1>4. kept \subseteq R /\ new \subseteq R
    <2>1. kept \subseteq R
      OBVIOUS
    <2>2. \A id \in ids : last(id) \in R
      BY <1>1
    <2> HIDE DEF ids, last
    <2> QED BY <2>1, <2>2
  <1>5. /\ q \in Seq(kept \cup new)
        /\ \A i, j \in DOMAIN q : q[i] = q[j] => i = j
        /\ \A x \in kept \cup new : \E i \in DOMAIN q : q[i] = x
    <2> HIDE DEF kept, new, q
    <2> QED BY <1>2, <1>3, SetAsSequence
  <1>6. q \in Seq(R)
    <2> HIDE DEF kept, new, q
    <2> QED BY <1>4, <1>5
  <1>7. ASSUME NEW i \in took PROVE \E j \in DOMAIN q : q[j].id = sent[i].id
    <2>1. sent[i].id \in ids
      OBVIOUS
    <2>2. last(sent[i].id) \in new /\ last(sent[i].id).id = sent[i].id
      BY <1>1, <2>1
    <2> HIDE DEF q, new, kept, last
    <2> QED BY <1>5, <2>2
  <1>8. ASSUME NEW i \in DOMAIN stored PROVE \E j \in DOMAIN q : q[j].id = stored[i].id
    <2>1. CASE stored[i].id \in ids
      <3> HIDE DEF q
      <3> QED BY <1>7, <2>1
    <2>2. CASE stored[i].id \notin ids
      <3>1. stored[i] \in kept
        BY <2>2
      <3> HIDE DEF q, new, kept
      <3> QED BY <1>5, <3>1
    <2> QED BY <2>1, <2>2
  <1>9. ASSUME \A i, j \in DOMAIN stored : stored[i].id = stored[j].id => i = j,
               NEW i \in DOMAIN q, NEW j \in DOMAIN q, q[i].id = q[j].id
        PROVE  i = j
    <2>1. \A x, y \in kept \cup new : x.id = y.id => x = y
      <3>1. \A x \in kept : x.id \notin ids
        OBVIOUS
      <3>2. \A x \in new : x.id \in ids /\ x = last(x.id)
        <4>1. \A id \in ids : last(id).id = id
          BY <1>1
        <4> HIDE DEF ids, last
        <4> QED BY <4>1
      <3>3. \A x, y \in kept : x.id = y.id => x = y
        BY <1>9
      <3> HIDE DEF kept, new, ids, last
      <3> QED BY <3>1, <3>2, <3>3
    <2>2. q[i] \in kept \cup new /\ q[j] \in kept \cup new
      <3> HIDE DEF kept, new, q
      <3> QED BY <1>5, <1>9
    <2> HIDE DEF kept, new, q
    <2> QED BY <1>5, <1>9, <2>1, <2>2
  <1> QED
    <2> HIDE DEF q
    <2> QED BY <1>6, <1>7, <1>8, <1>9 DEF q

-----------------------------------------------------------------------------
(* The vector stores.                                                      *)

\* The record of a chunk, the same in every run.
RecordFor(m, k) ==
    [id |-> IdOf(Chunks(m)[k], 0), doc |-> Chunks(m)[k].text, fields |-> FieldsOf(m, Chunks(m)[k])]
ChunkRecords == UNION {{RecordFor(m, k) : k \in DOMAIN Chunks(m)} : m \in Upserts}
ChunkIds(m) == {RecordFor(m, k).id : k \in DOMAIN Chunks(m)}

LEMMA ChunksInPlace ==
    ASSUME HostInv, NEW m \in Upserts
    PROVE  /\ \E k \in Nat : DOMAIN Chunks(m) \subseteq 1..k
           /\ \A k \in DOMAIN Chunks(m) : IsItem(Chunks(m)[k])
  <1>1. VectorConfig(m) /\ Is(m, Upserters)
    <2>1. m \in cast /\ m.kind = "upsert"
      BY DEF Upserts, Upserters, Is
    <2> QED BY <2>1, Configured DEF JiraConfig, OutboundConfig, OutboundKinds, PageKinds, Is, Upserters
  <1>2. CASE ChunkingRaises(m) \/ m.docs.shape = "none"
    <2>1. Chunks(m) = <<>>
      BY <1>2 DEF Chunks, ChunkingRaises
    <2> QED BY <2>1
  <1>3. CASE ~ChunkingRaises(m) /\ m.docs.shape = "string"
    <2>1. m.docs.text \in Seq(Nat) /\ m.docs.size \in Int /\ m.docs.overlap \in Int
      BY <1>1, <1>3 DEF VectorConfig
    <2>2. Chunks(m) = ChunkString(m.docs.text, m.docs.size, m.docs.overlap)
      BY <1>3 DEF Chunks
    <2> DEFINE last == (Len(m.docs.text) + (m.docs.size - m.docs.overlap) - 1) \div (m.docs.size - m.docs.overlap)
    <2>3. \A k \in DOMAIN Chunks(m) : k \in 1..last /\ Chunks(m)[k].id = None
      <3> DEFINE windows == Windows(m.docs.text, m.docs.size, m.docs.overlap)
      <3>1. DOMAIN windows = 1..last
        BY DEF Windows
      <3>2. Chunks(m) = [i \in {k \in DOMAIN windows : ~Blank(windows[k])} |-> Chunk(windows[i])]
        BY <2>2 DEF ChunkString
      <3> HIDE DEF windows, last
      <3> QED BY <3>1, <3>2 DEF Chunk
    <2>4. last \in Int
      BY <1>3, <2>1 DEF ChunkingRaises
    <2>5. \E k \in Nat : 1..last \subseteq 1..k
      <3> HIDE DEF last
      <3> QED BY <2>4
    <2> QED
      <3> HIDE DEF last
      <3> QED BY <2>3, <2>5 DEF IsItem
  <1>4. CASE ~ChunkingRaises(m) /\ m.docs.shape = "list"
    <2>1. Chunks(m) = [i \in {k \in DOMAIN m.docs.items : ~Blank(m.docs.items[k].text)} |-> m.docs.items[i]]
      BY <1>4 DEF Chunks, ChunkingRaises
    <2>2. /\ Len(m.docs.items) \in Nat /\ DOMAIN m.docs.items = 1..Len(m.docs.items)
          /\ \A i \in DOMAIN m.docs.items : IsItem(m.docs.items[i])
      BY <1>1, <1>4 DEF VectorConfig
    <2> QED BY <2>1, <2>2
  <1> QED
    BY <1>2, <1>3, <1>4 DEF ChunkingRaises

LEMMA SentRecords ==
    ASSUME NEW m
    PROVE  /\ DOMAIN Sent(m) = DOMAIN Chunks(m)
           /\ \A k \in DOMAIN Chunks(m) : Sent(m)[k] = RecordFor(m, k)
           /\ SentIds(m) = ChunkIds(m)
  <1>1. /\ DOMAIN Sent(m) = DOMAIN Chunks(m)
        /\ \A k \in DOMAIN Chunks(m) : Sent(m)[k] = RecordFor(m, k)
    BY DEF Sent, RecordFor, IdOf
  <1> QED
    BY <1>1 DEF SentIds, ChunkIds

\* What a query gives back comes from chunks of the collection.
GivesBack(n, texts) ==
    (\A m \in Upserts : SameCollection(n, m)) =>
       \A text \in texts : \E m \in Upserts : \E k \in DOMAIN Chunks(m) : Chunks(m)[k].text = text

VectorTrue(n) ==
    /\ Is(n, {"upsert"}) /\ node[n].pc \in {"embed", "store", "returned", "completed"} => ~ChunkingRaises(n)
    /\ node[n].pc \in {"returned", "completed"} =>
         /\ Is(n, {"upsert"}) =>
               /\ \A id \in node[n].out.ids : \E i \in DOMAIN index : index[i].id = id
               /\ n.provider # "weaviate" => node[n].out.ids = ChunkIds(n)
         /\ Is(n, {"query"}) =>
               /\ GivesBack(n, node[n].out.texts)
               /\ FilterApplies(n) => node[n].out.tagged

VectorInv ==
    /\ index \in Seq(ChunkRecords)
    /\ (\A n \in Upserts : n.provider # "milvus") => OneRecord
    /\ \A n \in cast : Is(n, {"upsert", "query"}) => VectorTrue(n)

\* Under every id that had a record there still is one.
IdsStay == \A i \in DOMAIN index : \E j \in DOMAIN index' : index'[j].id = index[i].id

\* The text of a record is what the store was sent as its text.
LEMMA TextReadsBack ==
    ASSUME HostInv, NEW n \in cast, Is(n, {"query"}), NEW m \in Upserts, SameCollection(n, m),
           NEW k \in DOMAIN Chunks(m)
    PROVE  TextOf(n, RecordFor(m, k)) = Chunks(m)[k].text
  <1> DEFINE r == RecordFor(m, k)
             text == Chunks(m)[k].text
             field == TextField(n)
  <1>1. n.provider \in Providers /\ m.provider = n.provider /\ TextField(m) = field
    <2>1. VectorConfig(n)
      BY Configured DEF JiraConfig, OutboundConfig, OutboundKinds, PageKinds, Is
    <2> QED BY <2>1 DEF VectorConfig, SameCollection
  <1>2. ASSUME NEW keys, DOMAIN keys = 1..Len(keys), Len(keys) \in Nat \ {0}, keys[1] = field,
               r.fields = Filled(Under(field, text), Chunks(m)[k].meta)
        PROVE  FirstOf(r.fields, keys) = text
    <2> DEFINE there == {i \in DOMAIN keys : keys[i] \in DOMAIN r.fields}
    <2>1. field \in DOMAIN r.fields /\ r.fields[field] = text
      BY <1>2 DEF Filled, Under
    <2>2. 1 \in there /\ there \subseteq 1..Len(keys)
      BY <1>2, <2>1
    <2>3. Min(there) = 1
      <3>1. \A y \in there : 1 <= y /\ y \in Int
        BY <1>2, <2>2
      <3> HIDE DEF there
      <3>2. \E x \in there : \A y \in there : x <= y
        BY <2>2, <3>1
      <3>3. Min(there) \in there /\ \A y \in there : Min(there) <= y
        BY <3>2 DEF Min
      <3>4. Min(there) \in Int /\ 1 <= Min(there) /\ Min(there) <= 1
        BY <2>2, <3>1, <3>3
      <3> QED BY <3>4
    <2>4. FirstOf(r.fields, keys) = r.fields[keys[Min(there)]]
      BY <2>2 DEF FirstOf
    <2> QED BY <1>2, <2>1, <2>3, <2>4
  <1>3. CASE n.provider = "pinecone"
    <2>1. r.fields = Filled(Under(field, text), Chunks(m)[k].meta)
      BY <1>1, <1>3 DEF RecordFor, FieldsOf, PineconeFields
    <2>2. TextOf(n, r) = FirstOf(r.fields, <<field, "content">>)
      BY <1>3 DEF TextOf, PineconeText
    <2> QED BY <1>2, <2>1, <2>2
  <1>4. CASE n.provider = "qdrant"
    <2>1. r.fields = Filled(Under(field, text), Chunks(m)[k].meta)
      BY <1>1, <1>4 DEF RecordFor, FieldsOf, QdrantFields
    <2>2. TextOf(n, r) = FirstOf(r.fields, <<field, "content", "page_content">>)
      BY <1>4 DEF TextOf, QdrantText
    <2> DEFINE keys == <<field, "content", "page_content">>
    <2>3. DOMAIN keys = 1..3 /\ Len(keys) = 3 /\ keys[1] = field
      OBVIOUS
    <2>4. FirstOf(r.fields, keys) = text
      <3> HIDE DEF keys, field, text, r
      <3> QED BY <1>2, <2>1, <2>3
    <2> QED BY <2>2, <2>4
  <1>5. CASE n.provider = "weaviate"
    <2>1. r.fields = Filled(Under(field, text), Chunks(m)[k].meta)
      BY <1>1, <1>5 DEF RecordFor, FieldsOf, WeaviateFields
    <2>2. TextOf(n, r) = FirstOf(r.fields, <<field, "content", "page_content">>)
      BY <1>5 DEF TextOf, WeaviateText
    <2> DEFINE keys == <<field, "content", "page_content">>
    <2>3. DOMAIN keys = 1..3 /\ Len(keys) = 3 /\ keys[1] = field
      OBVIOUS
    <2>4. FirstOf(r.fields, keys) = text
      <3> HIDE DEF keys, field, text, r
      <3> QED BY <1>2, <2>1, <2>3
    <2> QED BY <2>2, <2>4
  <1>6. CASE n.provider = "milvus"
    <2>1. r.fields = Filled(Under(field, text), Chunks(m)[k].meta)
      BY <1>1, <1>6 DEF RecordFor, FieldsOf, MilvusFields
    <2>2. TextOf(n, r) = FirstOf(r.fields, <<field, "content">>)
      BY <1>6 DEF TextOf, MilvusText
    <2> QED BY <1>2, <2>1, <2>2
  <1>7. CASE n.provider = "chroma"
    <2>1. r.fields = ChromaFields(m, Chunks(m)[k]) /\ r.doc = text
      BY <1>1, <1>7 DEF RecordFor, FieldsOf
    <2>2. n.textField = None \/ n.textField \notin DOMAIN r.fields
      BY <1>7, <2>1 DEF SameCollection
    <2> QED BY <1>7, <2>1, <2>2 DEF TextOf, ChromaText
  <1> QED
    BY <1>1, <1>3, <1>4, <1>5, <1>6, <1>7 DEF Providers

\* What a query finds in the collection is true of it.
LEMMA QueryReturns ==
    ASSUME HostInv, VectorInv, NEW n \in cast, Is(n, {"query"}), NEW near, near \subseteq Matching(n)
    PROVE  /\ GivesBack(n, {TextOf(n, index[i]) : i \in near})
           /\ FilterApplies(n) => \A i \in near : "tag" \in DOMAIN index[i].fields
  <1>1. \A i \in near : i \in DOMAIN index /\ (FilterApplies(n) => "tag" \in DOMAIN index[i].fields)
    BY DEF Matching
  <1>2. ASSUME \A m \in Upserts : SameCollection(n, m), NEW i \in near
        PROVE  \E m \in Upserts : \E k \in DOMAIN Chunks(m) : Chunks(m)[k].text = TextOf(n, index[i])
    <2>1. index[i] \in ChunkRecords
      BY <1>1, <1>2 DEF VectorInv
    <2>2. PICK m \in Upserts : \E k \in DOMAIN Chunks(m) : index[i] = RecordFor(m, k)
      BY <2>1 DEF ChunkRecords
    <2>3. PICK k \in DOMAIN Chunks(m) : index[i] = RecordFor(m, k)
      BY <2>2
    <2> QED BY <1>2, <2>3, TextReadsBack
  <1> QED
    BY <1>1, <1>2 DEF GivesBack

\* An upsert writes the records of its chunks, all of them or those it reports.
LEMMA UpsertStores ==
    ASSUME HostInv, VectorInv, NEW n \in cast, Is(n, {"upsert"}), ~ChunkingRaises(n),
           StoreById(n) \/ StoreInWeaviate(n) \/ InsertInMilvus(n)
    PROVE  /\ index' \in Seq(ChunkRecords) /\ IdsStay
           /\ (\A m \in Upserts : m.provider # "milvus") => OneRecord'
           /\ node'[n].pc \in {"returned", "completed"} => VectorTrue(n)'
  <1> DEFINE taken(took) == {Sent(n)[i].id : i \in took}
  <1>0. n \in Upserts /\ cast' = cast /\ Sound(n)
    BY DEF HostInv, Upserts, Upserters, StoreById, StoreInWeaviate, InsertInMilvus
  <1>1. /\ \A i \in DOMAIN Sent(n) : Sent(n)[i] \in ChunkRecords
        /\ \E k \in Nat : DOMAIN Sent(n) \subseteq 1..k
        /\ SentIds(n) = ChunkIds(n)
    BY <1>0, SentRecords, ChunksInPlace DEF ChunkRecords
  <1>2. CASE index' = index /\ Raise(n)
    BY <1>0, <1>2, Raising DEF VectorInv, IdsStay, OneRecord, Keeps
  <1>3. ASSUME \A id \in node'[n].out.ids : \E i \in DOMAIN index' : index'[i].id = id,
               n.provider # "weaviate" => node'[n].out.ids = ChunkIds(n)
        PROVE  VectorTrue(n)'
    <2>1. ChunkIds(n)' = ChunkIds(n) /\ ~Is(n, {"query"})
      BY DEF ChunkIds, RecordFor, Is
    <2> QED BY <1>3, <2>1 DEF VectorTrue
  <1>4. ASSUME NEW took \in SUBSET DOMAIN Sent(n), index' = Overwrite(index, Sent(n), took),
               n.provider # "weaviate" => took = DOMAIN Sent(n), Answered(n, taken(took))
        PROVE  /\ index' \in Seq(ChunkRecords) /\ IdsStay
               /\ (\A m \in Upserts : m.provider # "milvus") => OneRecord'
               /\ node'[n].pc \in {"returned", "completed"} => VectorTrue(n)'
    <2>1. PICK k \in Nat : DOMAIN Sent(n) \subseteq 1..k
      BY <1>1
    <2>2. /\ index' \in Seq(ChunkRecords) /\ IdsStay
          /\ \A i \in took : \E j \in DOMAIN index' : index'[j].id = Sent(n)[i].id
          /\ OneRecord => OneRecord'
      <3> DEFINE q == Overwrite(index, Sent(n), took)
      <3>1. index \in Seq(ChunkRecords) /\ \A i \in took : Sent(n)[i] \in ChunkRecords
        BY <1>1 DEF VectorInv
      <3>2. /\ q \in Seq(ChunkRecords)
            /\ \A i \in DOMAIN index : \E j \in DOMAIN q : q[j].id = index[i].id
            /\ \A i \in took : \E j \in DOMAIN q : q[j].id = Sent(n)[i].id
            /\ (\A i, j \in DOMAIN index : index[i].id = index[j].id => i = j) =>
                  \A i, j \in DOMAIN q : q[i].id = q[j].id => i = j
        BY <1>4, <2>1, <3>1, Overwriting
      <3>3. index' = q
        BY <1>4
      <3> HIDE DEF q
      <3> QED BY <3>2, <3>3 DEF IdsStay, OneRecord
    <2>3. CASE Raise(n)
      BY <1>0, <2>2, <2>3, Raising DEF VectorInv, Keeps
    <2>4. CASE Upserted(n, taken(took))
      <3>1. node'[n].out = [ids |-> taken(took)]
        BY <1>0, <2>4, Returning DEF Upserted
      <3>2. node'[n].out.ids = taken(took)
        BY <3>1
      <3>3. n.provider # "weaviate" => taken(took) = SentIds(n)
        BY <1>4 DEF SentIds
      <3>4. VectorTrue(n)'
        BY <1>1, <1>3, <2>2, <3>2, <3>3
      <3> QED BY <2>2, <3>4 DEF VectorInv
    <2> QED BY <1>4, <2>3, <2>4 DEF Answered
  <1>5. CASE StoreById(n)
    <2>1. CASE index' = Overwrite(index, Sent(n), DOMAIN Sent(n)) /\ Answered(n, SentIds(n))
      BY <1>4, <2>1 DEF SentIds
    <2> QED BY <1>2, <1>5, <2>1 DEF StoreById
  <1>6. CASE StoreInWeaviate(n)
    <2>1. ASSUME NEW took \in SUBSET DOMAIN Sent(n), index' = Overwrite(index, Sent(n), took),
                 Answered(n, IdsTaken(n, took))
          PROVE  /\ index' \in Seq(ChunkRecords) /\ IdsStay
                 /\ (\A m \in Upserts : m.provider # "milvus") => OneRecord'
                 /\ node'[n].pc \in {"returned", "completed"} => VectorTrue(n)'
      <3>1. IdsTaken(n, took) = taken(took) /\ n.provider = "weaviate"
        BY <1>6 DEF IdsTaken, StoreInWeaviate
      <3> QED BY <1>4, <2>1, <3>1
    <2> QED BY <1>2, <1>6, <2>1 DEF StoreInWeaviate
  <1>7. CASE InsertInMilvus(n)
    <2> DEFINE places == SetToSeq(DOMAIN Sent(n))
               added == [k \in DOMAIN places |-> Sent(n)[places[k]]]
    <2>1. CASE index' = index \o added /\ Answered(n, SentIds(n))
      <3>1. IsFiniteSet(DOMAIN Sent(n))
        <4>1. PICK k \in Nat : DOMAIN Sent(n) \subseteq 1..k
          BY <1>1
        <4>2. IsFiniteSet(1..k)
          BY FS_Interval
        <4> QED BY <4>1, <4>2, FS_Subset
      <3>2. places \in Seq(DOMAIN Sent(n)) /\ \A i \in DOMAIN Sent(n) : \E k \in DOMAIN places : places[k] = i
        BY <3>1, SetAsSequence
      <3>3. added \in Seq(ChunkRecords) /\ \A i \in DOMAIN Sent(n) : \E k \in DOMAIN added : added[k] = Sent(n)[i]
        <4> HIDE DEF places
        <4> QED BY <1>1, <3>2
      <3>4. /\ index' \in Seq(ChunkRecords) /\ IdsStay
            /\ \A k \in DOMAIN added : index'[Len(index) + k] = added[k] /\ Len(index) + k \in DOMAIN index'
        <4> HIDE DEF added
        <4>1. index \in Seq(ChunkRecords) /\ index' = index \o added
          BY <2>1 DEF VectorInv
        <4>2. /\ index' \in Seq(ChunkRecords) /\ Len(index') = Len(index) + Len(added)
              /\ \A i \in 1..Len(index) : index'[i] = index[i]
              /\ \A k \in 1..Len(added) : index'[Len(index) + k] = added[k]
          BY <3>3, <4>1
        <4>3. \A i \in DOMAIN index : i \in DOMAIN index' /\ index'[i] = index[i]
          BY <3>3, <4>1, <4>2
        <4>4. \A k \in DOMAIN added : index'[Len(index) + k] = added[k] /\ Len(index) + k \in DOMAIN index'
          BY <3>3, <4>1, <4>2
        <4>5. IdsStay
          BY <4>3 DEF IdsStay
        <4> QED BY <4>2, <4>4, <4>5
      <3>5. \A id \in SentIds(n) : \E i \in DOMAIN index' : index'[i].id = id
        <4>1. ASSUME NEW i \in DOMAIN Sent(n) PROVE \E j \in DOMAIN index' : index'[j].id = Sent(n)[i].id
          <5> HIDE DEF added
          <5>1. PICK k \in DOMAIN added : added[k] = Sent(n)[i]
            BY <3>3
          <5> QED BY <3>4, <5>1
        <4> QED BY <4>1 DEF SentIds
      <3>6. ~(\A m \in Upserts : m.provider # "milvus")
        BY <1>0, <1>7 DEF InsertInMilvus
      <3>7. CASE Raise(n)
        BY <1>0, <3>4, <3>6, <3>7, Raising DEF Keeps
      <3>8. CASE Upserted(n, SentIds(n))
        <4>1. node'[n].out = [ids |-> SentIds(n)]
          BY <1>0, <3>8, Returning DEF Upserted
        <4>2. VectorTrue(n)'
          BY <1>1, <1>3, <3>5, <4>1
        <4> QED BY <3>4, <3>6, <4>2
      <3> QED BY <2>1, <3>7, <3>8 DEF Answered
    <2> QED BY <1>2, <1>7, <2>1 DEF InsertInMilvus
  <1> QED
    BY <1>5, <1>6, <1>7

\* A step of the node itself.
LEMMA VectorStepTrue ==
    ASSUME HostInv, VectorInv, NEW n \in cast, Is(n, {"upsert", "query"}), VectorStep(n)
    PROVE  /\ index' \in Seq(ChunkRecords) /\ IdsStay
           /\ (\A m \in Upserts : m.provider # "milvus") => OneRecord'
           /\ VectorTrue(n)'
  <1>0. cast' = cast /\ Sound(n) /\ VectorTrue(n)
    BY VectorMoves DEF Moved, HostInv, VectorInv
  <1>1. ASSUME index' = index PROVE /\ index' \in Seq(ChunkRecords) /\ IdsStay
                                    /\ (\A m \in Upserts : m.provider # "milvus") => OneRecord'
    BY <1>1 DEF VectorInv, IdsStay, OneRecord
  <1>2. ASSUME Raise(n) PROVE VectorTrue(n)'
    BY <1>0, <1>2, Raising DEF Keeps, VectorTrue
  <1>3. CASE StartUpsert(n)
    <2>1. CASE ~ChunkingRaises(n) /\ Become(n, [node[n] EXCEPT !.pc = "embed", !.saw = DOMAIN Chunks(n)])
      <3>1. node'[n].pc = "embed"
        <4>1. node'[n] = [node[n] EXCEPT !.pc = "embed", !.saw = DOMAIN Chunks(n)]
          BY <2>1, Becoming
        <4> QED BY <1>0, <4>1 DEF Sound, IsLocal
      <3> QED BY <1>1, <1>3, <2>1, <3>1 DEF StartUpsert, VectorTrue
    <2> QED BY <1>1, <1>2, <1>3, <2>1 DEF StartUpsert
  <1>4. CASE EmbedChunk(n)
    <2> DEFINE rest == node[n].saw \ {Min(node[n].saw)}
               local == [node[n] EXCEPT !.saw = rest, !.pc = IF rest = {} THEN "store" ELSE "embed"]
    <2>1. CASE Become(n, local)
      <3>1. node'[n].pc \in {"store", "embed"}
        <4>1. local.pc \in {"store", "embed"}
          BY <1>0 DEF Sound, IsLocal
        <4> HIDE DEF local
        <4> QED BY <2>1, <4>1, Becoming
      <3>2. ~ChunkingRaises(n)
        BY <1>0, <1>4 DEF EmbedChunk, VectorTrue, At
      <3> QED BY <1>1, <1>4, <3>1, <3>2 DEF EmbedChunk, VectorTrue
    <2> QED BY <1>1, <1>2, <1>4, <2>1 DEF EmbedChunk
  <1>5. CASE StoreById(n) \/ StoreInWeaviate(n) \/ InsertInMilvus(n)
    <2>1. At(n, "store") /\ Is(n, {"upsert"}) /\ ~ChunkingRaises(n)
      BY <1>0, <1>5 DEF StoreById, StoreInWeaviate, InsertInMilvus, Sound, Routed, VectorTrue, At
    <2>2. node'[n].pc \in {"returned", "raised"}
      BY <1>0, <1>5, Raising, Returning DEF StoreById, StoreInWeaviate, InsertInMilvus, Answered, Upserted, Keeps
    <2>3. node'[n].pc = "raised" => VectorTrue(n)'
      BY DEF VectorTrue
    <2> QED BY <1>5, <2>1, <2>2, <2>3, UpsertStores
  <1>6. CASE StartQuery(n)
    <2>1. CASE Goto(n, "query")
      BY <1>0, <1>1, <1>6, <2>1, Going DEF StartQuery, Keeps, VectorTrue, Is
    <2> QED BY <1>1, <1>2, <1>6, <2>1 DEF StartQuery
  <1>7. CASE Query(n)
    <2>0. index' = index /\ Is(n, {"query"}) /\ ~Is(n, {"upsert"})
      BY <1>0, <1>7 DEF Query, Sound, Routed, At, Is
    <2>1. ASSUME NEW near, near \subseteq Matching(n),
                 Return(n, [texts |-> {TextOf(n, index[i]) : i \in near},
                            tagged |-> \A i \in near : "tag" \in DOMAIN index[i].fields])
          PROVE  VectorTrue(n)'
      <3> DEFINE texts == {TextOf(n, index[i]) : i \in near}
                 tagged == \A i \in near : "tag" \in DOMAIN index[i].fields
      <3>1. node'[n].out = [texts |-> texts, tagged |-> tagged]
        BY <1>0, <2>1, Returning
      <3>2. GivesBack(n, texts) /\ (FilterApplies(n) => tagged)
        BY <2>0, <2>1, QueryReturns
      <3> HIDE DEF texts, tagged
      <3>3. node'[n].out.texts = texts /\ node'[n].out.tagged = tagged
        BY <3>1
      <3>4. GivesBack(n, node[n].out.texts)'
        BY <1>0, <3>2, <3>3 DEF GivesBack, Upserts
      <3> QED BY <2>0, <3>2, <3>3, <3>4 DEF VectorTrue
    <2>2. CASE ~Raise(n)
      <3>1. PICK found \in {f \in SUBSET Matching(n) : Cardinality(f) = Min({n.topK, Cardinality(Matching(n))})} :
               \E near \in IF n.threshold THEN SUBSET found ELSE {found} :
                  Return(n, [texts |-> {TextOf(n, index[i]) : i \in near},
                             tagged |-> \A i \in near : "tag" \in DOMAIN index[i].fields])
        BY <1>7, <2>2 DEF Query
      <3>2. PICK near \in IF n.threshold THEN SUBSET found ELSE {found} :
                  Return(n, [texts |-> {TextOf(n, index[i]) : i \in near},
                             tagged |-> \A i \in near : "tag" \in DOMAIN index[i].fields])
        BY <3>1
      <3>3. near \subseteq Matching(n)
        BY <3>1, <3>2
      <3> QED BY <1>1, <2>0, <2>1, <3>2, <3>3
    <2> QED BY <1>1, <1>2, <2>0, <2>2
  <1> QED
    BY <1>3, <1>4, <1>5, <1>6, <1>7 DEF VectorStep

LEMMA VectorNext == HostInv /\ VectorInv /\ [Next]_vars => VectorInv'
  <1> SUFFICES ASSUME HostInv, VectorInv, [Next]_vars PROVE VectorInv'
    OBVIOUS
  <1>0. cast' = cast
    BY EveryStep, ServiceMoves, HostMoves, WorldMoves DEF Moved, vars, hostVars
  <1>1. ChunkRecords' = ChunkRecords /\ Upserts' = Upserts
    BY <1>0 DEF ChunkRecords, Upserts
  <1>2. ASSUME index' = index PROVE /\ index' \in Seq(ChunkRecords) /\ IdsStay
                                    /\ (\A m \in Upserts : m.provider # "milvus") => OneRecord'
    BY <1>2 DEF VectorInv, IdsStay, OneRecord
  <1>3. ASSUME NEW n \in cast, ServiceSteps(n)
        PROVE  /\ index' \in Seq(ChunkRecords) /\ IdsStay
               /\ (\A m \in Upserts : m.provider # "milvus") => OneRecord'
    <2>1. CASE Is(n, {"upsert", "query"})
      BY <1>3, <2>1, FamilySteps, VectorStepTrue
    <2>2. CASE ~Is(n, {"upsert", "query"})
      BY <1>2, <1>3, <2>2, ServiceMoves
    <2> QED BY <2>1, <2>2
  <1>4. /\ index' \in Seq(ChunkRecords) /\ IdsStay
        /\ (\A m \in Upserts : m.provider # "milvus") => OneRecord'
    BY <1>2, <1>3, EveryStep DEF HostStep, vars
  <1>5. ASSUME NEW m \in cast, Is(m, {"upsert", "query"}) PROVE VectorTrue(m)'
    <2>1. VectorTrue(m)
      BY <1>5 DEF VectorInv
    <2>2. ASSUME node'[m].out = node[m].out,
                 node'[m].pc = node[m].pc \/ (node[m].pc = "returned" /\ node'[m].pc = "completed") \/ node'[m].pc = "failed"
          PROVE  VectorTrue(m)'
      <3>1. node'[m].pc \in {"embed", "store", "returned", "completed"} =>
               node[m].pc \in {"embed", "store", "returned", "completed"}
        BY <2>2
      <3>2. node'[m].pc \in {"returned", "completed"} => node[m].pc \in {"returned", "completed"}
        BY <2>2
      <3>3. (\A id \in node[m].out.ids : \E i \in DOMAIN index : index[i].id = id) =>
               \A id \in node'[m].out.ids : \E i \in DOMAIN index' : index'[i].id = id
        BY <1>4, <2>2 DEF IdsStay
      <3>4. GivesBack(m, node[m].out.texts) => GivesBack(m, node[m].out.texts)'
        BY <1>1, <2>2 DEF GivesBack
      <3>5. (ChunkIds(m) = node[m].out.ids) => (ChunkIds(m) = node[m].out.ids)'
        BY <2>2 DEF ChunkIds, RecordFor
      <3> QED BY <2>1, <2>2, <3>1, <3>2, <3>3, <3>4, <3>5 DEF VectorTrue
    <2>3. CASE ServiceSteps(m)
      BY <1>5, <2>3, FamilySteps, VectorStepTrue
    <2>4. CASE Stored(m)
      BY <2>2, <2>4 DEF Stored, Keeps, At
    <2>5. CASE Restarted(m)
      BY <2>5 DEF Restarted, VectorTrue
    <2>6. CASE node'[m] = node[m]
      BY <2>2, <2>6
    <2> QED BY <2>3, <2>4, <2>5, <2>6, SeenBy, <1>5
  <1> QED
    BY <1>0, <1>1, <1>4, <1>5 DEF VectorInv

LEMMA Quotient ==
    ASSUME NEW a \in Nat, NEW d \in Nat \ {0}
    PROVE  a \div d \in Nat /\ (a \div d) * d <= a /\ ((a \div d) + 1) * d > a
  <1>1. a \div d \in Nat
    OBVIOUS
  <1>2. ((a \div d) + 1) * d > a
    OBVIOUS
  <1>3. (a \div d) * d <= a
    OBVIOUS
  <1> QED
    BY <1>1, <1>2, <1>3

LEMMA Multiples ==
    ASSUME NEW d \in Nat \ {0}, NEW a \in Int, NEW b \in Int, a >= b
    PROVE  a * d \in Int /\ b * d \in Int /\ a * d >= b * d
  <1>1. (a - b) * d \in Nat
    <2>1. a - b \in Nat
      OBVIOUS
    <2> QED BY <2>1
  <1>2. (a - b) * d = a * d - b * d /\ a * d \in Int /\ b * d \in Int
    OBVIOUS
  <1> QED
    BY <1>1, <1>2

\* The window a position is in.
LEMMA WindowOf ==
    ASSUME NEW len \in Nat, NEW size \in Nat \ {0}, NEW overlap \in Nat, overlap < size, NEW p \in 1..len
    PROVE  \E i \in 1..((len + (size - overlap) - 1) \div (size - overlap)) :
              (i - 1) * (size - overlap) + 1 <= p /\ p <= (i - 1) * (size - overlap) + size
  <1> DEFINE step == size - overlap
             i == (p - 1) \div step
             last == (len + step - 1) \div step
  <1>1. step \in Nat \ {0} /\ step <= size
    OBVIOUS
  <1> HIDE DEF step
  <1>2. i \in Nat /\ i * step <= p - 1 /\ (i + 1) * step > p - 1 /\ i * step \in Nat
    <2>1. p - 1 \in Nat
      OBVIOUS
    <2>2. i \in Nat /\ i * step <= p - 1 /\ (i + 1) * step > p - 1
      BY <1>1, <2>1, Quotient
    <2> HIDE DEF i
    <2> QED BY <1>1, <2>2
  <1>3. last \in Nat /\ (last + 1) * step > len + step - 1
    <2>1. len + step - 1 \in Nat
      BY <1>1
    <2> QED BY <1>1, <2>1, Quotient
  <1> HIDE DEF i, last
  <1>4. (i + 1) * step = i * step + step
    BY <1>1, <1>2
  <1>5. i + 1 <= last
    <2>1. SUFFICES ASSUME i >= last PROVE FALSE
      BY <1>2, <1>3
    <2>2. (i + 1) * step >= (last + 1) * step /\ (last + 1) * step \in Int /\ (i + 1) * step \in Int
      BY <1>1, <1>2, <1>3, <2>1, Multiples
    <2>3. i * step + step <= len + step - 1
      BY <1>1, <1>2
    <2> QED BY <1>1, <1>2, <1>3, <1>4, <2>2, <2>3
  <1>6. PICK j \in Int : j = i + 1
    BY <1>2
  <1>7. j \in 1..last /\ (j - 1) * step + 1 <= p /\ p <= (j - 1) * step + size
    <2>1. i * step + 1 <= p /\ p <= i * step + size
      BY <1>1, <1>2, <1>4
    <2>2. j \in 1..last /\ j - 1 = i
      BY <1>2, <1>3, <1>5, <1>6
    <2> QED BY <2>1, <2>2
  <1> QED
    BY <1>7 DEF last, step

\* The windows of a text have each of its characters.
LEMMA WindowsCover ==
    ASSUME NEW text \in Seq(Nat), NEW size \in Nat \ {0}, NEW overlap \in Nat, overlap < size,
           NEW p \in DOMAIN text, text[p] # 0
    PROVE  \E k \in DOMAIN ChunkString(text, size, overlap) :
              text[p] \in ToSet(ChunkString(text, size, overlap)[k].text)
  <1> DEFINE step == size - overlap
             windows == Windows(text, size, overlap)
  <1>1. PICK i \in 1..((Len(text) + step - 1) \div step) :
           (i - 1) * step + 1 <= p /\ p <= (i - 1) * step + size
    <2>1. Len(text) \in Nat /\ p \in 1..Len(text)
      OBVIOUS
    <2> QED BY <2>1, WindowOf
  <1> DEFINE first == (i - 1) * step + 1
             end == Min({(i - 1) * step + size, Len(text)})
  <1>2. i \in DOMAIN windows /\ windows[i] = SubSeq(text, first, end)
    BY <1>1 DEF Windows
  <1>3. first \in Nat \ {0} /\ (i - 1) * step + size \in Nat /\ first <= p
    <2>1. i - 1 \in Nat /\ step \in Nat
      OBVIOUS
    <2>2. (i - 1) * step \in Nat
      BY <2>1
    <2> HIDE DEF step
    <2> QED BY <1>1, <2>2
  <1>4. end \in Nat /\ p <= end /\ end <= Len(text)
    <2> DEFINE a == (i - 1) * step + size
    <2>1. \A x, y \in Int : /\ Min({x, y}) \in Int /\ Min({x, y}) <= y
                            /\ x <= y => Min({x, y}) = x
                            /\ y <= x => Min({x, y}) = y
      BY MinOfTwo
    <2>2. p \in 1..Len(text) /\ Len(text) \in Nat
      OBVIOUS
    <2>3. a \in Nat /\ p <= a
      BY <1>1, <1>3
    <2>4. end = Min({a, Len(text)})
      OBVIOUS
    <2> HIDE DEF a, end
    <2>5. a \in Int /\ Len(text) \in Int /\ p \in Int /\ 1 <= p /\ p <= Len(text)
      BY <2>2, <2>3
    <2>6. Min({a, Len(text)}) \in Nat /\ p <= Min({a, Len(text)}) /\ Min({a, Len(text)}) <= Len(text)
      <3>1. /\ Min({a, Len(text)}) \in Int /\ Min({a, Len(text)}) <= Len(text)
            /\ a <= Len(text) => Min({a, Len(text)}) = a
            /\ Len(text) <= a => Min({a, Len(text)}) = Len(text)
        BY <2>1, <2>5
      <3>2. a <= Len(text) \/ Len(text) <= a
        BY <2>5
      <3> QED BY <2>3, <2>5, <3>1, <3>2
    <2> QED BY <2>4, <2>6
  <1> HIDE DEF first, end
  <1>5. /\ Len(SubSeq(text, first, end)) = end - first + 1
        /\ DOMAIN SubSeq(text, first, end) = 1..(end - first + 1)
        /\ \A j \in 1..(end - first + 1) : SubSeq(text, first, end)[j] = text[first + j - 1]
    BY <1>3, <1>4
  <1>6. p - first + 1 \in DOMAIN windows[i] /\ windows[i][p - first + 1] = text[p]
    <2>1. p - first + 1 \in 1..(end - first + 1) /\ first + (p - first + 1) - 1 = p
      BY <1>3, <1>4
    <2> HIDE DEF windows
    <2> QED BY <1>2, <1>5, <2>1
  <1>7. ~Blank(windows[i]) /\ text[p] \in ToSet(windows[i])
    <2> HIDE DEF windows
    <2> QED BY <1>6 DEF Blank, ToSet
  <1>8. /\ i \in DOMAIN ChunkString(text, size, overlap)
        /\ ChunkString(text, size, overlap)[i].text = windows[i]
    <2>1. ChunkString(text, size, overlap) = [k \in {j \in DOMAIN windows : ~Blank(windows[j])} |-> Chunk(windows[k])]
      BY DEF ChunkString
    <2> HIDE DEF windows, step
    <2>2. i \in {j \in DOMAIN windows : ~Blank(windows[j])}
      BY <1>2, <1>7
    <2> QED BY <2>1, <2>2 DEF Chunk
  <1> QED
    <2> HIDE DEF windows, step
    <2> QED BY <1>7, <1>8

LEMMA VectorInit == Init => VectorInv
  <1> SUFFICES ASSUME Init PROVE VectorInv
    OBVIOUS
  <1>1. index = <<>> /\ \A n \in cast : node[n].pc = "start"
    BY DEF Init, HostInit, Fresh
  <1>2. index \in Seq(ChunkRecords) /\ OneRecord
    BY <1>1 DEF OneRecord
  <1> QED
    BY <1>1, <1>2 DEF VectorInv, VectorTrue

\* Running a node again repeats nothing where the service can tell.
LEMMA NothingIsRepeated == HostInv /\ VectorInv /\ MailInv /\ FileInv => RerunsDoNotDuplicate
  <1> SUFFICES ASSUME HostInv, VectorInv, MailInv, FileInv PROVE RerunsDoNotDuplicate
    OBVIOUS
  <1>1. ASSUME \A n \in Upserts : n.provider # "milvus" PROVE OneRecord
    BY <1>1 DEF VectorInv
  <1>2. ASSUME \A n \in Upserts : n.provider # "milvus",
               NEW i \in DOMAIN index, NEW j \in DOMAIN index, index[i].doc = index[j].doc,
               \A n \in Upserts : \A k \in DOMAIN Chunks(n) : Chunks(n)[k].id = None
        PROVE  i = j
    <2>1. ASSUME NEW r \in ChunkRecords PROVE r.id = <<"hash", r.doc>>
      <3>1. PICK m \in Upserts : \E k \in DOMAIN Chunks(m) : r = RecordFor(m, k)
        BY <2>1 DEF ChunkRecords
      <3>2. PICK k \in DOMAIN Chunks(m) : r = RecordFor(m, k)
        BY <3>1
      <3> QED BY <1>2, <3>2 DEF RecordFor, IdOf
    <2>2. index[i] \in ChunkRecords /\ index[j] \in ChunkRecords
      BY DEF VectorInv
    <2>3. index[i].id = index[j].id
      BY <1>2, <2>1, <2>2
    <2> QED BY <1>1, <1>2, <2>3 DEF OneRecord
  <1>3. RerunOverwrites
    BY <1>1, <1>2 DEF RerunOverwrites
  <1>4. ASSUME NEW n \in cast, Sole(n, {"file", "pdf"}) PROVE Len(drive) <= 1
    <2>1. PICK m \in cast : Is(m, {"file", "pdf"})
      <3> DEFINE all == {m \in cast : Is(m, {"file", "pdf"})}
      <3>1. Cardinality(all) = 1
        BY <1>4 DEF Sole
      <3>2. all # {}
        <4> HIDE DEF all
        <4> QED BY <3>1, FS_EmptySet
      <3> QED BY <3>2
    <2>2. Sole(m, {"file", "pdf"})
      BY <1>4 DEF Sole
    <2> QED BY <2>1, <2>2 DEF FileInv, FileTrue
  <1> QED
    BY <1>3, <1>4 DEF RerunsDoNotDuplicate, MailInv, OneMailPerKey

\* The documents of an upsert that has reported its ids are in the collection.
LEMMA DocumentsAreStored ==
    ASSUME HostInv, VectorInv, NEW n \in Upserts, At(n, "completed"), n.docs.shape = "string",
           n.provider # "weaviate", NEW p \in DOMAIN n.docs.text, n.docs.text[p] # 0
    PROVE  \E i \in DOMAIN index : n.docs.text[p] \in ToSet(index[i].doc)
  <1>0. n \in cast /\ Is(n, {"upsert"}) /\ ~Is(n, {"query"})
    BY DEF Upserts, Upserters, Is
  <1>1. /\ ~ChunkingRaises(n) /\ node[n].out.ids = ChunkIds(n)
        /\ \A id \in node[n].out.ids : \E i \in DOMAIN index : index[i].id = id
    <2>1. VectorTrue(n) /\ node[n].pc = "completed"
      BY <1>0 DEF VectorInv, At, Is
    <2> QED BY <1>0, <2>1 DEF VectorTrue
  <1>2. n.docs.text \in Seq(Nat) /\ n.docs.size \in Int /\ n.docs.overlap \in Int
    BY <1>0, Configured DEF VectorConfig, JiraConfig, OutboundConfig, OutboundKinds, PageKinds, Is, Upserters
  <1>3. n.docs.size \in Nat \ {0} /\ n.docs.overlap \in Nat /\ n.docs.overlap < n.docs.size
    BY <1>1, <1>2 DEF ChunkingRaises
  <1>4. Chunks(n) = ChunkString(n.docs.text, n.docs.size, n.docs.overlap)
    BY <1>1 DEF Chunks
  <1>5. PICK k \in DOMAIN Chunks(n) : n.docs.text[p] \in ToSet(Chunks(n)[k].text)
    BY <1>2, <1>3, <1>4, WindowsCover
  <1>6. Chunks(n)[k].id = None
    <2> DEFINE windows == Windows(n.docs.text, n.docs.size, n.docs.overlap)
    <2>1. Chunks(n) = [i \in {j \in DOMAIN windows : ~Blank(windows[j])} |-> Chunk(windows[i])]
      BY <1>4 DEF ChunkString
    <2> HIDE DEF windows
    <2> QED BY <2>1 DEF Chunk
  <1>7. PICK i \in DOMAIN index : index[i].id = <<"hash", Chunks(n)[k].text>>
    <2>1. RecordFor(n, k).id = <<"hash", Chunks(n)[k].text>> /\ RecordFor(n, k).id \in ChunkIds(n)
      BY <1>6 DEF RecordFor, IdOf, ChunkIds
    <2> QED BY <1>1, <2>1
  <1>8. index[i].doc = Chunks(n)[k].text
    <2>1. index[i] \in ChunkRecords
      BY DEF VectorInv
    <2>2. PICK m \in Upserts : \E c \in DOMAIN Chunks(m) : index[i] = RecordFor(m, c)
      BY <2>1 DEF ChunkRecords
    <2>3. PICK c \in DOMAIN Chunks(m) : index[i] = RecordFor(m, c)
      BY <2>2
    <2>4. IsItem(Chunks(m)[c])
      BY ChunksInPlace
    <2>5. index[i].doc = Chunks(m)[c].text /\ index[i].id = IdOf(Chunks(m)[c], 0)
      BY <2>3 DEF RecordFor
    <2>6. Chunks(m)[c].id = None
      <3>1. SUFFICES ASSUME Chunks(m)[c].id # None PROVE FALSE
        OBVIOUS
      <3>2. index[i].id = Chunks(m)[c].id /\ Chunks(m)[c].id \in {"id"} \X Seq(Nat)
        BY <2>4, <2>5, <3>1 DEF IdOf, IsItem
      <3>3. index[i].id[1] = "hash" /\ index[i].id[1] = "id"
        BY <1>7, <3>2
      <3> QED BY <3>3
    <2>7. index[i].id = <<"hash", Chunks(m)[c].text>>
      BY <2>5, <2>6 DEF IdOf
    <2>8. Chunks(m)[c].text = Chunks(n)[k].text
      BY <1>7, <2>7
    <2> QED BY <2>5, <2>8
  <1> QED
    BY <1>5, <1>7, <1>8

\* What goes into a vector store comes out again.
LEMMA WhatGoesInComesOut == HostInv /\ VectorInv => StoreIsFaithful
  <1> SUFFICES ASSUME HostInv, VectorInv PROVE StoreIsFaithful
    OBVIOUS
  <1>1. ASSUME NEW n \in Upserts, At(n, "completed")
        PROVE  \A id \in node[n].out.ids : \E i \in DOMAIN index : index[i].id = id
    BY <1>1 DEF VectorInv, VectorTrue, Upserts, Upserters, Is, At
  <1>2. ReportedIsStored
    BY <1>1, DocumentsAreStored DEF ReportedIsStored
  <1>3. ReadsBackChunks
    <2>1. ASSUME NEW n \in cast, Is(n, {"query"}), At(n, "completed")
          PROVE  GivesBack(n, node[n].out.texts) /\ (FilterApplies(n) => node[n].out.tagged)
      BY <2>1 DEF VectorInv, VectorTrue, Is, At
    <2> QED BY <2>1 DEF ReadsBackChunks, GivesBack
  <1> QED
    BY <1>2, <1>3 DEF StoreIsFaithful

-----------------------------------------------------------------------------
(* The invariant, and what it says.                                        *)

EachReport ==
    \A n \in cast :
       /\ Is(n, {"page"}) => PageTrue(n)
       /\ Is(n, {"set_property"}) => PropertyTrue(n)
       /\ Is(n, {"arcade"}) => ToolTrue(n)
       /\ Is(n, {"guardrails"}) => ChecksTrue(n)

NodesInv == HostInv /\ JiraInv /\ EachReport /\ GammaInv /\ MailInv /\ FileInv /\ VectorInv

LEMMA NodesInit == Init => NodesInv
  <1> SUFFICES ASSUME Init PROVE NodesInv
    OBVIOUS
  <1>1. HostInv /\ JiraInv
    BY HostInit0, JiraInit
  <1>2. \A n \in cast : node[n].pc = "start"
    BY DEF Init, HostInit, Fresh
  <1>3. gens = <<>> /\ mails = <<>> /\ drive = <<>>
    BY DEF Init
  <1>4. EachReport
    BY <1>2 DEF EachReport, PageTrue, PropertyTrue, ToolTrue, ChecksTrue, At
  <1>5. GammaInv
    BY <1>2, <1>3 DEF GammaInv, GensGrow, GenerationTrue
  <1>6. MailInv
    BY <1>2, <1>3 DEF MailInv, OneMailPerKey
  <1>7. FileInv
    BY <1>2, <1>3 DEF FileInv, FileTrue, At
  <1> QED
    BY <1>1, <1>4, <1>5, <1>6, <1>7, VectorInit DEF NodesInv

LEMMA NodesNext == NodesInv /\ [Next]_vars => NodesInv'
  <1> SUFFICES ASSUME NodesInv, [Next]_vars PROVE NodesInv'
    OBVIOUS
  <1>1. HostInv' /\ JiraInv' /\ GammaInv' /\ MailInv' /\ FileInv' /\ VectorInv'
    BY HostNext, JiraNext, GammaNext, MailNext, FileNext, VectorNext DEF NodesInv
  <1>2. cast' = cast
    BY EveryStep, ServiceMoves, HostMoves, WorldMoves DEF NodesInv, Moved, vars, hostVars
  <1>3. EachReport'
    BY <1>2, PageNext, PropertyNext, ToolNext, ChecksNext DEF NodesInv, EachReport
  <1> QED
    BY <1>1, <1>3 DEF NodesInv

LEMMA NodesKeepInv == Spec => []NodesInv
  BY NodesInit, NodesNext, PTL DEF Spec

\* The local variables and the services have their types.
THEOREM NodeTypesCorrect == Spec => []TypeOK
  <1>1. NodesInv => TypeOK
    BY DEF NodesInv, HostInv, Sound, JiraInv, Page, TypeOK
  <1> QED
    BY <1>1, NodesKeepInv, PTL

\* What a completed node reports is true of the service it acted on, for every
\* cast, every configuration of its nodes and any number of workers that die,
\* requests that are repeated and answers that are lost.
THEOREM ReportsAreTrue == Spec => []ReportIsTrue
  <1>1. ASSUME NodesInv PROVE ReportIsTrue
    <2>1. JiraReportIsTrue /\ PolicyIsKept
      BY <1>1, JiraHolds DEF NodesInv
    <2>2. LabelsReconciled
      BY <1>1 DEF NodesInv, EachReport, PageTrue, LabelsReconciled, At
    <2>3. GuardBlocks
      BY <1>1 DEF NodesInv, EachReport, ChecksTrue, GuardBlocks, At
    <2>4. ASSUME NEW n \in cast, At(n, "completed")
          PROVE  /\ Is(n, {"page"}) => page # None /\ page.version >= node[n].out.version
                 /\ Is(n, {"set_property"}) => prop # None /\ prop.version >= node[n].out.version
      BY <1>1, <2>4 DEF NodesInv, HostInv, EachReport, PageTrue, PropertyTrue, At, Page, Property
    <2>5. ASSUME NEW n \in cast, At(n, "completed")
          PROVE  /\ Is(n, {"gamma"}) => /\ node[n].out.state = "completed" => Generation(n).state = "completed"
                                        /\ node[n].out.url => Generation(n).url
                 /\ Is(n, {"arcade"}) => [by |-> n.id, run |-> node[n].run] \in ran
      BY <1>1, <2>5 DEF NodesInv, EachReport, GammaInv, GenerationTrue, Generation, ToolTrue, At
    <2>6. ASSUME NEW n \in cast, At(n, "completed")
          PROVE  /\ Is(n, {"email"}) => \E i \in DOMAIN mails : mails[i].key = n.key /\ (n.key # None \/ mails[i].by = n.id)
                 /\ Is(n, {"file", "pdf"}) /\ Sole(n, {"file", "pdf"}) =>
                       IF n.provider = "drive" THEN n.body \in ToSet(drive) ELSE disk = n.body
      BY <1>1, <2>6 DEF NodesInv, MailInv, SentOf, FileInv, FileTrue, At
    <2> QED BY <2>1, <2>2, <2>3, <2>4, <2>5, <2>6 DEF ReportIsTrue
  <1> QED
    BY <1>1, NodesKeepInv, PTL

\* A node that runs again after its worker died repeats nothing where the
\* service can tell: one record per chunk in the stores that write by id, one
\* mail per idempotency key, one Drive file when a single node writes it.
THEOREM RerunsRepeatNothing == Spec => []RerunsDoNotDuplicate
  BY NodesKeepInv, NothingIsRepeated, PTL DEF NodesInv

\* What goes into a vector store comes out again, for every document, every
\* size of its windows and every overlap that the executor accepts.
THEOREM StoresAreFaithful == Spec => []StoreIsFaithful
  BY NodesKeepInv, WhatGoesInComesOut, PTL DEF NodesInv

\* An extract returns the first max_issues of the matching issues and says
\* truncated exactly when it left some out, for every limit, every number of
\* issues, every page size and however Jira cuts its pages, so long as a page
\* with a token is not empty.
THEOREM ExtractsAreExact ==
  ASSUME EmptyPages = FALSE
  PROVE  Spec => []ExtractIsExact
  <1>1. Init => ExtractInv
    BY ExtractInit
  <1>2. NodesInv /\ ExtractInv /\ [Next]_vars => ExtractInv'
    BY ExtractNext DEF NodesInv
  <1>3. ExtractInv => ExtractIsExact
    BY DEF ExtractInv, Collects, ExtractIsExact, At
  <1> QED
    BY <1>1, <1>2, <1>3, NodesKeepInv, PTL DEF Spec

\* A node replaces a page or its property only if it has read the version it
\* replaces.
THEOREM NoEditIsLost == Spec => NoLostEdit
  <1> DEFINE Kept(n) ==
               /\ page # None /\ page' # page /\ At(n, "write") /\ ~At(n, "write")' => node[n].saw = page.version
               /\ prop # None /\ prop' # prop /\ At(n, "set") /\ ~At(n, "set")' => node[n].saw = prop.version
  <1>1. ASSUME NodesInv, [Next]_vars, NEW n \in cast PROVE Kept(n)
    <2>0. HostInv /\ Sound(n)
      BY <1>1 DEF NodesInv, HostInv
    <2>1. CASE ServiceSteps(n)
      <3>1. ASSUME page # None, page' # page, At(n, "write") PROVE node[n].saw = page.version
        <4>1. Is(n, {"page"}) /\ page.version \in Nat /\ node[n].saw \in Nat
          BY <2>0, <3>1 DEF Sound, Routed, At, HostInv, Version, Page
        <4>2. PageSteps(n)
          BY <2>0, <2>1, <4>1, FamilySteps DEF Is, PageKinds
        <4>3. CreatePage(n) \/ UpdatePage(n)
          BY <3>1, <4>1, <4>2 DEF PageSteps, StartConfluence, FindPage, ReadLabels, DeleteLabel, AddLabels,
                                  ReadProperty, SetProperty, UnchangedButProp, At, outVars
        <4>4. page.version + 1 = node[n].saw + 1
          BY <3>1, <4>3 DEF CreatePage, UpdatePage
        <4> QED BY <4>1, <4>4
      <3>2. ASSUME prop # None, prop' # prop, At(n, "set") PROVE node[n].saw = prop.version
        <4>1. Is(n, {"set_property"})
          BY <2>0, <3>2 DEF Sound, Routed, At
        <4>2. PageSteps(n)
          BY <2>0, <2>1, <4>1, FamilySteps DEF Is, PageKinds
        <4>3. SetProperty(n)
          BY <3>2, <4>2 DEF PageSteps, StartConfluence, FindPage, CreatePage, UpdatePage, ReadLabels, DeleteLabel,
                            AddLabels, ReadProperty, UnchangedButPage, outVars
        <4> QED BY <3>2, <4>3 DEF SetProperty, Version
      <3> QED BY <3>1, <3>2
    <2>2. CASE node'[n] = node[n]
      BY <2>2 DEF At
    <2>3. CASE UNCHANGED Services
      BY <2>3 DEF Services, outVars
    <2> QED BY <1>1, <2>0, <2>1, <2>2, <2>3, SeenBy
  <1>2. NodesInv /\ [Next]_vars => [\A n \in cast : Kept(n)]_vars
    BY <1>1
  <1> QED
    BY <1>2, NodesKeepInv, PTL DEF Spec, NoLostEdit

=============================================================================
