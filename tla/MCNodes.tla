------------------------------- MODULE MCNodes -------------------------------
EXTENDS NodeEffects

\* Jira agents: what the model may answer in a turn.
Say(tool, key, arg) == [tool |-> tool, key |-> key, arg |-> arg]
Agent(id, policy, minimum, creds, replies) ==
    [id |-> id, kind |-> "jira", policy |-> policy, minimum |-> minimum, creds |-> creds,
     replies |-> replies \cup {<<>>}]
MakeAndComment == <<Say("create", 0, None), Say("comment", 1, None)>>
Extract(id, max, total, creds) ==
    [id |-> id, kind |-> "jira_extract", max |-> max, total |-> total, creds |-> creds]

JiraCasts == {
  {Agent(1, "require_successful_tool_call", 0, {"node"},
         {MakeAndComment, <<Say("transition", 1, "name"), Say("frobnicate", 0, None)>>})},
  {Agent(1, "require_tool_call", 1, {"variables"},
         {<<Say("get", 1, None)>>, <<Say("update", 1, "not json")>>, <<Say("create", 0, None)>>})},
  {Agent(1, "require_successful_tool_call", 2, {"settings"},
         {<<Say("create", 0, None)>>, <<Say("transition", 1, None), Say("update", 1, "json")>>,
          <<Say("search", 0, None), Say("transition", 1, "id")>>})},
  {Agent(1, "best_effort", 1, {}, {MakeAndComment}), Agent(2, "best_effort", 1, {"node"}, {MakeAndComment})}}
    \cup {{Extract(1, max, total, {"node"})} : max \in 1..5, total \in 0..6}
    \cup {{Extract(1, 2, 2, {"variables"})}}

\* Vector stores.
Text1 == <<1, 2, 0, 3, 4, 5, 6>>
Docs(size, overlap) == [shape |-> "string", text |-> Text1, size |-> size, overlap |-> overlap]
Item(id, text, meta) == [id |-> id, text |-> text, meta |-> meta]
Items == [shape |-> "list",
          items |-> <<Item(None, <<1, 2>>, <<>>), Item(None, <<0>>, <<>>),
                      Item(None, <<1, 2>>, [text |-> <<9>>, tag |-> <<8>>])>>]
Named(text) == [shape |-> "list", items |-> <<Item(<<"id", <<7>>>>, text, [tag |-> <<8>>])>>]
Vector(id, kind, provider, docs) ==
    [id |-> id, kind |-> kind, provider |-> provider, docs |-> docs, endpoint |-> TRUE, prompt |-> TRUE,
     embedding |-> "openai", key |-> FALSE, url |-> FALSE, settings |-> {"openai"}, textField |-> None,
     topK |-> 1, threshold |-> FALSE, filter |-> None]
NoDocs == [shape |-> "none"]
Stores == {"pinecone", "weaviate", "milvus", "qdrant", "chroma"}

VectorCasts ==
    {{Vector(1, "upsert", p, Docs(3, 1))} : p \in {"pinecone", "weaviate"}}
    \cup {{Vector(1, "upsert", "qdrant", Docs(size, overlap))} : size \in 0..3, overlap \in -1..2}
    \cup {{Vector(1, "upsert", p, Items),
           [Vector(2, "query", p, NoDocs) EXCEPT !.filter = "object", !.topK = 2]} : p \in Stores}
    \cup {{Vector(1, "upsert", p, Named(<<1>>)), Vector(2, "upsert", p, Named(<<2>>)),
           [Vector(3, "query", p, NoDocs) EXCEPT !.threshold = TRUE, !.textField = "text",
                                                 !.filter = "text"]} : p \in Stores}
    \cup {{[Vector(1, "upsert", "chroma", Items) EXCEPT !.embedding = e, !.key = k, !.url = k]} :
             e \in {"cohere", "pinecone-inference", "custom", "unknown"}, k \in BOOLEAN}
    \cup {{[Vector(1, "upsert", "chroma", d) EXCEPT !.endpoint = e]} :
             d \in {NoDocs, [shape |-> "number"], Items}, e \in BOOLEAN}
    \cup {{[Vector(1, "query", "milvus", NoDocs) EXCEPT !.prompt = FALSE]}}

\* The other services.
Out(id, kind) == [id |-> id, kind |-> kind, configured |-> TRUE, body |-> "b", labels |-> {"x"},
                  export |-> FALSE, key |-> None, to |-> 1, provider |-> "drive", checks |-> {},
                  flagged |-> {}, block |-> TRUE]
Unset(n) == [n EXCEPT !.configured = FALSE]
MCFirstPages == {None, [version |-> 3, body |-> "person", labels |-> {"old", "x"}, by |-> 0]}

OutboundCasts == {
  {Out(1, "page"), [Out(2, "page") EXCEPT !.labels = {"y"}, !.body = "c"]},
  {Out(1, "page"), Out(2, "get_page")},
  {Out(1, "set_property"), [Out(2, "set_property") EXCEPT !.body = "c"], Out(3, "get_property")},
  {Out(1, "gamma")}, {[Out(1, "gamma") EXCEPT !.export = TRUE]},
  {Out(1, "arcade")}, {Unset(Out(1, "arcade"))}, {Unset(Out(1, "page"))},
  {[Out(1, "email") EXCEPT !.key = "k"], [Out(2, "email") EXCEPT !.key = "k"], Out(3, "email")},
  {[Out(1, "email") EXCEPT !.to = 0], [Out(2, "email") EXCEPT !.to = 51]},
  {Out(1, "http"), Unset(Out(2, "http"))},
  {Out(1, "pdf")}, {Out(1, "pdf"), [Out(2, "pdf") EXCEPT !.body = "c"]},
  {[Out(1, "file") EXCEPT !.provider = "local"], [Out(2, "file") EXCEPT !.provider = "local"]},
  {[Out(1, "file") EXCEPT !.provider = "local"]}, {Unset(Out(1, "file"))},
  {[Out(1, "guardrails") EXCEPT !.checks = {"pii", "moderation"}, !.flagged = {"pii", "jailbreak"}]},
  {[Out(1, "guardrails") EXCEPT !.checks = {"pii", "moderation"}, !.flagged = {"pii"}, !.block = FALSE]},
  {[Out(1, "guardrails") EXCEPT !.checks = {"pii"}, !.flagged = {"jailbreak"}]},
  {Out(1, "guardrails")}}

MCCasts == JiraCasts \cup VectorCasts \cup OutboundCasts
=============================================================================
