------------------------------ MODULE Connections ------------------------------
(***************************************************************************)
(* An MCP server that asks for OAuth, the tokens users hold for it and for *)
(* Google Drive, and the nodes that call its tools: agent and mcp.         *)
(*                                                                         *)
(* The identity provider and the MCP server are external: a code is        *)
(* accepted once, a refresh may issue a new refresh token and may or may   *)
(* not accept the one before; the server may keep sessions and forgets     *)
(* them when it restarts.  Tokens are numbered by the order in which the   *)
(* provider issued them; a refresh token number 0 is none.                 *)
(***************************************************************************)
EXTENDS Naturals, FiniteSets

CONSTANTS
    Users,        \* users; the first server is created by any of them
    Callbacks,    \* requests of /oauth/callback being served
    Calls,        \* outbound calls under way, of one turn of the loop at most
    Casts,        \* one per behaviour: who acts, which grants are asked for, whether the
                  \* server is there at first, a bound on its changes, the node's kind
    Cap,          \* max_iterations of the node
    MaxIssued,    \* bound: tokens issued by the identity provider
    MaxFaults     \* bound: requests that die, time out, or server restarts

ASSUME ConnectionsAssumption ==
    /\ \A c \in Casts : /\ c.actors \subseteq Callbacks \cup Calls
                        /\ c.changes \in Nat /\ c.server \in BOOLEAN
    /\ Callbacks \cap Calls = {}
    /\ Cap \in Nat /\ MaxIssued \in Nat \ {0} /\ MaxFaults \in Nat

Mcp(u) == <<"mcp", u>>
Drive(u) == <<"drive", u>>
Grants == {Mcp(u) : u \in Users} \cup {Drive(u) : u \in Users}
Kind(g) == g[1]
Holder(g) == g[2]

NoOne == "no one"
NoGrant == <<"none", NoOne>>
NoToken == [refresh |-> 0, fresh |-> FALSE, stored |-> FALSE]

\* A row stored earlier, whose access token is about to expire.
OldToken == [refresh |-> 1, fresh |-> FALSE, stored |-> TRUE]

VARIABLES
    cast,    \* the callbacks, calls and grants of this behaviour
    server,  \* the McpServer row
    flow,    \* flow[g]: the OAuth state handed out for g
    codes,   \* codes[g]: authorization codes the provider would still accept
    issued,  \* issued[g]: the newest token of g at the provider
    tok,     \* tok[g]: the stored token row
    cb,      \* cb[b]: callback being served
    call,    \* call[c]: outbound call
    node,    \* the mcp node: its caller, the server as it was resolved, the loop
    remote,  \* the MCP server: whether it needs a session, whether it has ours
    faults,  \* faults so far
    raced,   \* grants written by two requests at once
    lost     \* grants whose newest token was never stored

vars == <<cast, server, flow, codes, issued, tok, cb, call, node, remote, faults, raced, lost>>

IdleCallback == [pc |-> "idle", grant |-> NoGrant, got |-> 0]
IdleCall == [pc |-> "idle", phase |-> "first", grant |-> NoGrant, read |-> 0, got |-> 0,
             effects |-> 0]

ServerType == [there : BOOLEAN, owner : Users, shared : BOOLEAN, config : BOOLEAN,
               changes : Nat, deleted : BOOLEAN, status : {"untested", "connected", "error"}]
TokenType == [refresh : 0..MaxIssued, fresh : BOOLEAN, stored : BOOLEAN]
CallbackType == [pc : {"idle", "found", "valid", "consumed", "granted"},
                 grant : Grants \cup {NoGrant}, got : 0..MaxIssued]
CallType == [pc : {"idle", "token", "fallback", "refresh", "store", "send", "ok", "failed"},
             phase : {"first", "init", "retry"}, grant : Grants \cup {NoGrant},
             read : 0..MaxIssued, got : 0..MaxIssued, effects : Nat]
NodeType == [pc : {"idle", "list", "tool", "think", "tools", "format", "done", "failed"},
             user : Users \cup {NoOne}, owner : Users \cup {NoOne}, shared : BOOLEAN,
             turns : 0..(Cap + 1), session : BOOLEAN]

TypeOK ==
    /\ cast \in Casts
    /\ server \in ServerType
    /\ flow \in [Grants -> {"none", "open", "expired"}]
    /\ codes \in [Grants -> 0..1]
    /\ issued \in [Grants -> 0..MaxIssued]
    /\ tok \in [Grants -> TokenType]
    /\ cb \in [Callbacks -> CallbackType]
    /\ call \in [Calls -> CallType]
    /\ node \in NodeType
    /\ remote \in [stateful : BOOLEAN, session : BOOLEAN]
    /\ faults \in 0..MaxFaults
    /\ raced \subseteq Grants /\ lost \subseteq Grants

Init ==
    /\ cast \in Casts
    /\ server \in [there : {cast.server}, owner : Users, shared : BOOLEAN, config : {cast.server},
                   changes : {0}, deleted : {FALSE}, status : {"untested"}]
    /\ flow = [g \in Grants |-> "none"]
    /\ codes = [g \in Grants |-> 0]
    /\ tok \in IF cast.grants # {} THEN {[g \in Grants |-> NoToken]}
               ELSE {[g \in Grants |-> IF Holder(g) = u THEN OldToken ELSE NoToken] : u \in Users}
    /\ issued = [g \in Grants |-> tok[g].refresh]
    /\ cb = [b \in Callbacks |-> IdleCallback]
    /\ call = [c \in Calls |-> IdleCall]
    /\ node = [pc |-> "idle", user |-> NoOne, owner |-> NoOne, shared |-> FALSE, turns |-> 0,
               session |-> FALSE]
    /\ remote \in [stateful : BOOLEAN, session : {FALSE}]
    /\ faults = 0
    /\ raced = {} /\ lost = {}

Fault == faults < MaxFaults /\ faults' = faults + 1

\* Who is about to write the token row of g with what the provider gave.
Writers(g) == {b \in Callbacks : cb[b].grant = g /\ cb[b].pc = "granted"}
              \cup {c \in Calls : call[c].grant = g /\ call[c].pc \in {"refresh", "store"}}

-----------------------------------------------------------------------------
\* mcp_servers.py.

ServerOthers == <<cast, flow, codes, issued, tok, cb, call, node, remote, faults, raced, lost>>

\* The configuration may come later; a deleted server does not come back.
CreateServer(u) ==
    /\ ~server.there /\ ~server.deleted /\ cast.changes > 0
    /\ \E shared, config \in BOOLEAN :
        server' = [server EXCEPT !.there = TRUE, !.owner = u, !.shared = shared, !.config = config]
    /\ UNCHANGED ServerOthers

Change(row) ==
    /\ server.there /\ server.changes < cast.changes
    /\ server' = [row EXCEPT !.changes = @ + 1]
    /\ UNCHANGED ServerOthers

\* By the owner, of a server whose authType is oauth.
UpdateOauthConfig == ~server.config /\ Change([server EXCEPT !.config = TRUE])

AssignOwner(u) == u # server.owner /\ Change([server EXCEPT !.owner = u])

SetShared == Change([server EXCEPT !.shared = ~@])

\* Tokens and states of a deleted server stay behind.
DeleteServer == Change([server EXCEPT !.there = FALSE, !.deleted = TRUE])

\* test_mcp_connection: initialize, tools/list, then the row is updated.
TestConnection ==
    \E s \in {"connected", "error"} : Change([server EXCEPT !.status = s])

ServerStep ==
    \/ UpdateOauthConfig \/ SetShared \/ DeleteServer \/ TestConnection
    \/ \E u \in Users : CreateServer(u) \/ AssignOwner(u)

-----------------------------------------------------------------------------
\* The authorization flow.

FlowOthers == <<cast, server, call, node, remote>>

MayAuthorize(g) ==
    cast.actors \cap Callbacks # {} /\ g \in cast.grants /\ flow[g] # "open" /\ issued[g] < MaxIssued

\* build_authorize_url reaps the expired states of everyone and stores a new one.
StatesWith(g) ==
    [h \in Grants |-> IF h = g THEN "open"
                      ELSE IF Kind(h) = "mcp" /\ flow[h] = "expired" THEN "none" ELSE flow[h]]

\* For Drive the state is a sealed value that carries the user and its expiry.
SealedState(g) == [flow EXCEPT ![g] = "open"]

Consented(g) ==
    /\ codes' = [codes EXCEPT ![g] = 1]
    /\ UNCHANGED <<FlowOthers, issued, tok, cb, faults, raced, lost>>

\* The user then consents.
OauthAuthorize(u) ==
    /\ MayAuthorize(Mcp(u)) /\ server.there /\ server.config
    /\ flow' = StatesWith(Mcp(u))
    /\ Consented(Mcp(u))

DriveAuthorize(u) ==
    /\ MayAuthorize(Drive(u))
    /\ flow' = SealedState(Drive(u))
    /\ Consented(Drive(u))

Expire(g) ==
    /\ flow[g] = "open"
    /\ flow' = [flow EXCEPT ![g] = "expired"]
    /\ UNCHANGED <<FlowOthers, codes, issued, tok, cb, faults, raced, lost>>

CallbackOthers == <<FlowOthers, faults>>

CallbackAt(b, pc) == cb' = [cb EXCEPT ![b].pc = pc]

Begin(b, g, pc) ==
    /\ b \in cast.actors /\ cb[b].pc = "idle"
    /\ cb' = [cb EXCEPT ![b] = [IdleCallback EXCEPT !.pc = pc, !.grant = g]]
    /\ UNCHANGED <<CallbackOthers, flow, codes, issued, tok, raced, lost>>

\* oauth_callback looks the state and the server up.
OauthCallback(b, u) == flow[Mcp(u)] # "none" /\ server.there /\ Begin(b, Mcp(u), "found")

\* The Drive callback opens the sealed state; nothing marks it as used.
DriveCallback(b, u) == flow[Drive(u)] = "open" /\ Begin(b, Drive(u), "consumed")

\* _validate_and_consume_state reads again and checks the expiry ...
OauthValidate(b) ==
    /\ cb[b].pc = "found"
    /\ CallbackAt(b, IF flow[cb[b].grant] = "open" THEN "valid" ELSE "idle")
    /\ UNCHANGED <<CallbackOthers, flow, codes, issued, tok, raced, lost>>

\* ... and deletes the row by its state, which may be gone by now.
OauthConsume(b) ==
    /\ cb[b].pc = "valid"
    /\ flow' = [flow EXCEPT ![cb[b].grant] = "none"]
    /\ CallbackAt(b, "consumed")
    /\ UNCHANGED <<CallbackOthers, codes, issued, tok, raced, lost>>

\* The provider takes a code once.
Exchange(b) ==
    LET g == cb[b].grant
    IN  /\ cb[b].pc = "consumed"
        /\ issued[g] < MaxIssued
        /\ IF codes[g] = 0
           THEN CallbackAt(b, "idle") /\ UNCHANGED <<codes, issued, raced>>
           ELSE /\ codes' = [codes EXCEPT ![g] = 0]
                /\ issued' = [issued EXCEPT ![g] = @ + 1]
                /\ cb' = [cb EXCEPT ![b].pc = "granted", ![b].got = issued[g] + 1]
                /\ raced' = IF Writers(g) # {} THEN raced \cup {g} ELSE raced
        /\ UNCHANGED <<CallbackOthers, flow, tok, lost>>

OauthExchange(b) == Kind(cb[b].grant) = "mcp" /\ Exchange(b)

\* The Drive code then asks for the account's address; when that fails, or the
\* answer to the exchange is lost, or the upsert raises, the tokens that were
\* issued are dropped, as when the process dies.
DriveExchange(b) == Kind(cb[b].grant) = "drive" /\ Exchange(b)

\* The row is upserted, with a refresh token or without.
Upsert(b, g) ==
    /\ cb[b].pc = "granted" /\ cb[b].grant = g
    /\ \E refresh \in {0, cb[b].got} :
        tok' = [tok EXCEPT ![g] = [refresh |-> refresh, fresh |-> TRUE, stored |-> TRUE]]
    /\ lost' = IF g \in raced THEN lost ELSE lost \ {g}
    /\ CallbackAt(b, "idle")
    /\ UNCHANGED <<CallbackOthers, flow, codes, issued, raced>>

OauthUpsert(b, u) == Upsert(b, Mcp(u))

DriveUpsert(b, u) == Upsert(b, Drive(u))

CallbackDies(b) ==
    /\ Fault
    /\ cb[b].pc # "idle"
    /\ lost' = IF cb[b].pc = "granted" THEN lost \cup {cb[b].grant} ELSE lost
    /\ CallbackAt(b, "idle")
    /\ UNCHANGED <<FlowOthers, flow, codes, issued, tok, raced>>

\* oauth_disconnect.
Disconnect(u) ==
    /\ cast.actors \cap Callbacks # {}
    /\ tok[Mcp(u)].stored
    /\ tok' = [tok EXCEPT ![Mcp(u)] = NoToken]
    /\ UNCHANGED <<FlowOthers, flow, codes, issued, cb, faults, raced, lost>>

\* Time passes: the access token is within a minute of its expiry.
Age(g) ==
    /\ tok[g].fresh
    /\ tok' = [tok EXCEPT ![g].fresh = FALSE]
    /\ UNCHANGED <<FlowOthers, flow, codes, issued, cb, faults, raced, lost>>

FlowStep ==
    \/ \E g \in Grants : Expire(g) \/ Age(g)
    \/ \E u \in Users : OauthAuthorize(u) \/ DriveAuthorize(u) \/ Disconnect(u)
    \/ \E b \in Callbacks :
        \/ \E u \in Users :
            OauthCallback(b, u) \/ DriveCallback(b, u) \/ OauthUpsert(b, u) \/ DriveUpsert(b, u)
        \/ OauthValidate(b) \/ OauthConsume(b) \/ OauthExchange(b) \/ DriveExchange(b)
        \/ CallbackDies(b)

-----------------------------------------------------------------------------
\* The mcp node: resolve the server and its tools, then the agentic loop.

LoopOthers == <<cast, server, flow, codes, cb>>

UserCanUse(u) == server.owner = u \/ server.shared

NoCalls == [c \in Calls |-> IdleCall]
Ended(c) == call[c].pc \in {"idle", "ok", "failed"}

Start(cs) == call' = [c \in Calls |-> IF c \in cs THEN [IdleCall EXCEPT !.pc = "token"] ELSE IdleCall]

NodeOthers == <<LoopOthers, issued, tok, remote, faults, raced, lost>>

\* The row is read and checked once, then tools/list is asked for.
Resolve(u, kind) ==
    /\ node.pc = "idle" /\ \A c \in Calls : Ended(c)
    /\ cast.kind = kind /\ server.there /\ UserCanUse(u)
    /\ node' = [node EXCEPT !.pc = "list", !.user = u, !.owner = server.owner,
                            !.shared = server.shared]
    /\ \E c \in cast.actors \cap Calls : Start({c})
    /\ UNCHANGED NodeOthers

\* resolve_mcp_tools_for_node, resolve_mcp_tools_by_names, resolve_single_mcp_tool.
ResolveForNode(u) == Resolve(u, "agent")
ResolveByNames(u) == Resolve(u, "mcp")
ResolveSingle(u) == Resolve(u, "tool")

NodeListed ==
    /\ node.pc = "list" /\ \A c \in Calls : Ended(c)
    /\ IF ~ \E c \in Calls : call[c].pc = "ok"
       THEN node' = [node EXCEPT !.pc = "failed"] /\ call' = NoCalls
       ELSE IF cast.kind = "tool"
       THEN node' = [node EXCEPT !.pc = "tool"] /\ \E c \in cast.actors \cap Calls : Start({c})
       ELSE node' = [node EXCEPT !.pc = "think"] /\ call' = NoCalls
    /\ UNCHANGED NodeOthers

\* Deterministic mode: the one call's failure is the node's.
ToolReturns ==
    /\ node.pc = "tool" /\ \A c \in Calls : Ended(c)
    /\ node' = [node EXCEPT !.pc = IF \E c \in Calls : call[c].pc = "failed" THEN "failed" ELSE "done"]
    /\ call' = NoCalls
    /\ UNCHANGED NodeOthers

\* A response without tool calls; an agent node may still put it into its format.
NodeAnswers ==
    /\ node.pc = "think" /\ node.turns < Cap + 1
    /\ \E pc \in {"done"} \cup (IF cast.kind = "agent" THEN {"format"} ELSE {}) :
        node' = [node EXCEPT !.pc = pc]
    /\ UNCHANGED <<NodeOthers, call>>

FormatOutput ==
    /\ node.pc = "format"
    /\ \E pc \in {"done", "failed"} : node' = [node EXCEPT !.pc = pc]
    /\ UNCHANGED <<NodeOthers, call>>

\* The tool calls of one response run side by side.
NodeCallsTools ==
    /\ node.pc = "think" /\ node.turns < Cap + 1
    /\ node' = [node EXCEPT !.pc = "tools", !.turns = @ + 1]
    /\ \E cs \in SUBSET (cast.actors \cap Calls) \ {{}} : Start(cs)
    /\ UNCHANGED NodeOthers

\* A call that failed is a message to the model like any other.
NodeToolsReturn ==
    /\ node.pc = "tools" /\ \A c \in Calls : Ended(c)
    /\ node' = [node EXCEPT !.pc = "think"]
    /\ call' = NoCalls
    /\ UNCHANGED NodeOthers

NodeExceeds ==
    /\ node.pc = "think" /\ node.turns >= Cap + 1
    /\ node' = [node EXCEPT !.pc = "failed"]
    /\ UNCHANGED <<NodeOthers, call>>

-----------------------------------------------------------------------------
\* One outbound call.

CallAt(c, pc) == call' = [call EXCEPT ![c].pc = pc]

\* The Google Drive poll and the picker ask for a token and make no MCP request.
DriveBegin(c, u) ==
    /\ c \in cast.actors /\ Drive(u) \in cast.grants
    /\ node.pc = "idle" /\ Ended(c)
    /\ call' = [call EXCEPT ![c] = [IdleCall EXCEPT !.pc = "token", !.grant = Drive(u)]]
    /\ UNCHANGED <<NodeOthers, node>>

ForDrive(c) == Kind(call[c].grant) = "drive"

FindTokenFor(u) == {g \in {Mcp(u)} : tok[g].stored}

UseToken(c, grants) ==
    /\ IF grants = {}
       THEN CallAt(c, "failed")
       ELSE \E g \in grants :
            call' = [call EXCEPT ![c].grant = g,
                        ![c].read = tok[g].refresh,
                        ![c].pc = IF tok[g].fresh THEN "send"
                                  ELSE IF tok[g].refresh = 0 THEN "failed" ELSE "refresh"]
    /\ UNCHANGED <<NodeOthers, node>>

\* get_valid_access_token, asked for before every request: the caller's own
\* token, or one more look, for the owner's, when the server is shared.
McpToken(c) ==
    /\ call[c].pc = "token" /\ ~ForDrive(c)
    /\ IF FindTokenFor(node.user) = {} /\ node.shared /\ node.user # node.owner
       THEN CallAt(c, "fallback") /\ UNCHANGED <<NodeOthers, node>>
       ELSE UseToken(c, FindTokenFor(node.user))

McpFallbackReread(c) == call[c].pc = "fallback" /\ UseToken(c, FindTokenFor(server.owner))

\* The server is the row the node resolved, whatever has become of it.
McpFallback(c) == call[c].pc = "fallback" /\ UseToken(c, FindTokenFor(node.owner))

DriveToken(c) ==
    /\ call[c].pc = "token" /\ ForDrive(c)
    /\ UseToken(c, {g \in {call[c].grant} : tok[g].stored})

\* The provider takes its newest refresh token, perhaps the one before as well,
\* and perhaps answers with a new one.
Refresh(c) ==
    LET g == call[c].grant
    IN  /\ call[c].pc = "refresh"
        /\ raced' = IF Writers(g) \ {c} # {} THEN raced \cup {g} ELSE raced
        /\ \/ /\ call[c].read + 1 >= issued[g] /\ issued[g] < MaxIssued
              /\ issued' = [issued EXCEPT ![g] = @ + 1]
              /\ call' = [call EXCEPT ![c].pc = "store", ![c].got = issued[g] + 1]
           \/ /\ call[c].read = issued[g]
              /\ call' = [call EXCEPT ![c].pc = "store", ![c].got = 0]
              /\ UNCHANGED issued
           \/ /\ call[c].read # issued[g]
              /\ CallAt(c, "failed")
              /\ UNCHANGED issued
        /\ UNCHANGED <<LoopOthers, tok, node, remote, faults, lost>>

McpRefresh(c) == ~ForDrive(c) /\ Refresh(c)

DriveRefresh(c) == ForDrive(c) /\ Refresh(c)

\* The POST times out, before the provider has seen it or after it has issued a
\* token, its answer cannot be read, or the update of the row raises: what was
\* issued is known to no one.
RefreshRaises(c) ==
    /\ Fault
    /\ call[c].pc \in {"refresh", "store"}
    /\ lost' = IF call[c].pc = "store" /\ call[c].got # 0 THEN lost \cup {call[c].grant} ELSE lost
    /\ CallAt(c, "failed")
    /\ UNCHANGED <<LoopOthers, issued, tok, node, remote, raced>>

\* An update by id, never an insert; the row may be gone.
UpdateToken(c, refresh) ==
    /\ call[c].pc = "store"
    /\ IF tok[call[c].grant].stored
       THEN /\ tok' = [tok EXCEPT ![call[c].grant].fresh = TRUE, ![call[c].grant].refresh = refresh]
            /\ CallAt(c, "send")
       ELSE CallAt(c, "failed") /\ UNCHANGED tok
    /\ UNCHANGED <<LoopOthers, issued, node, remote, faults, raced, lost>>

McpStoreKeepsOld(c) == ~ForDrive(c) /\ UpdateToken(c, tok[call[c].grant].refresh)

McpStoreUpserts(c) ==
    LET g == call[c].grant
    IN  /\ call[c].pc = "store" /\ ~ForDrive(c)
        /\ tok' = [tok EXCEPT ![g] = [refresh |-> IF call[c].got # 0 THEN call[c].got ELSE call[c].read,
                                      fresh |-> TRUE, stored |-> TRUE]]
        /\ CallAt(c, "send")
        /\ UNCHANGED <<LoopOthers, issued, node, remote, faults, raced, lost>>

\* Without a new refresh token the MCP code writes back the one it read ...
McpStore(c) == ~ForDrive(c) /\ UpdateToken(c, IF call[c].got # 0 THEN call[c].got ELSE call[c].read)

\* ... and the Drive code leaves the column alone.
DriveStore(c) ==
    /\ ForDrive(c)
    /\ UpdateToken(c, IF call[c].got # 0 THEN call[c].got ELSE tok[call[c].grant].refresh)

Executed(c) == IF call[c].phase = "init" \/ ForDrive(c) THEN 0 ELSE 1

Accepts(c) == ForDrive(c) \/ call[c].phase = "init" \/ ~remote.stateful
              \/ (node.session /\ remote.session)

\* _rpc: the request is carried out; after `initialize` the method is sent again.
CallSend(c) ==
    /\ call[c].pc = "send" /\ Accepts(c)
    /\ IF call[c].phase = "init"
       THEN /\ call' = [call EXCEPT ![c].phase = "retry", ![c].pc = "token"]
            /\ node' = [node EXCEPT !.session = remote.stateful]
            /\ remote' = [remote EXCEPT !.session = remote.stateful]
       ELSE /\ \E pc \in {"ok", "failed"} :
                call' = [call EXCEPT ![c].pc = pc, ![c].effects = @ + Executed(c)]
            /\ UNCHANGED <<node, remote>>
    /\ UNCHANGED <<LoopOthers, issued, tok, faults, raced, lost>>

\* A server that has no session of ours refuses; when it says that it wants to be
\* initialized first, the client does that, once, whether or not it has a session
\* id.
CallRejected(c) ==
    /\ call[c].pc = "send" /\ ~Accepts(c)
    /\ \/ /\ call[c].phase = "first"
          /\ call' = [call EXCEPT ![c].phase = "init", ![c].pc = "token"]
       \/ CallAt(c, "failed")
    /\ UNCHANGED <<NodeOthers, node>>

CallTimesOutRetried(c) ==
    /\ Fault
    /\ call[c].pc = "send"
    /\ \E ran \in BOOLEAN :
        call' = [call EXCEPT ![c].pc = IF call[c].phase = "first" THEN "token" ELSE "failed",
                             ![c].phase = "retry",
                             ![c].effects = IF ran /\ Accepts(c) THEN @ + Executed(c) ELSE @]
    /\ UNCHANGED <<LoopOthers, issued, tok, node, remote, raced, lost>>

\* A timed out request may have been carried out; it is not repeated.
CallTimesOut(c) ==
    /\ Fault
    /\ call[c].pc = "send"
    /\ \E ran \in BOOLEAN :
        call' = [call EXCEPT ![c].pc = "failed",
                             ![c].effects = IF ran /\ Accepts(c) THEN @ + Executed(c) ELSE @]
    /\ UNCHANGED <<LoopOthers, issued, tok, node, remote, raced, lost>>

\* The process dies with everything it had under way.
WorkerDies ==
    /\ Fault
    /\ \E c \in Calls : ~Ended(c)
    /\ lost' = lost \cup {call[c].grant : c \in {d \in Calls : call[d].pc = "store" /\ call[d].got # 0}}
    /\ call' = NoCalls
    /\ node' = [node EXCEPT !.pc = IF @ = "idle" THEN @ ELSE "failed"]
    /\ UNCHANGED <<LoopOthers, issued, tok, remote, raced>>

RemoteRestarts ==
    /\ Fault
    /\ remote.session
    /\ remote' = [remote EXCEPT !.session = FALSE]
    /\ UNCHANGED <<LoopOthers, issued, tok, call, node, raced, lost>>

NodeStep ==
    \/ NodeListed \/ ToolReturns \/ NodeAnswers \/ FormatOutput
    \/ NodeCallsTools \/ NodeToolsReturn \/ NodeExceeds
    \/ \E c \in Calls :
        \/ McpToken(c) \/ McpFallback(c) \/ McpRefresh(c) \/ McpStore(c)
        \/ DriveToken(c) \/ DriveRefresh(c) \/ DriveStore(c)
        \/ CallSend(c) \/ CallRejected(c)

Next ==
    \/ ServerStep
    \/ FlowStep
    \/ NodeStep
    \/ \E u \in Users :
        ResolveForNode(u) \/ ResolveByNames(u) \/ ResolveSingle(u) \/ \E c \in Calls : DriveBegin(c, u)
    \/ \E c \in Calls : CallTimesOut(c) \/ RefreshRaises(c)
    \/ WorkerDies
    \/ RemoteRestarts

Spec == Init /\ [][Next]_vars

-----------------------------------------------------------------------------
\* Properties.

\* refresh_token and get_valid_drive_access_token keep the refresh token that
\* the provider will accept, whether or not it issues a new one, unless two
\* requests wrote the row at once (raced) or the newest token was issued and never
\* stored: the provider's answer was lost, the update of the row raised, or the
\* process died in between (lost).
RefreshTokenIsCurrent ==
    \A g \in Grants \ (raced \cup lost) :
        tok[g].refresh # 0 /\ Writers(g) = {} => tok[g].refresh = issued[g]

\* oauth_disconnect is final: a token row comes back only from a completed
\* authorization, never from a refresh that was under way.
RowsComeFromGrants ==
    [][\A g \in Grants : ~tok[g].stored /\ tok'[g].stored =>
        \E b \in Callbacks : cb[b].grant = g /\ cb[b].pc = "granted" /\ cb'[b].pc = "idle"]_vars

\* _rpc's one retry: a tool call is carried out once at most.
ToolCallRunsOnce == \A c \in Calls : call[c].effects <= 1

\* _user_can_use and the service-account fallback: a call made for one user
\* carries the token of another only if, when the node resolved the server, that
\* other user owned it and it was shared, however owner and sharing change later.
TokenOfTheRightUser ==
    \A c \in Calls :
        /\ call[c].pc \in {"refresh", "store", "send"} /\ ~ForDrive(c)
        /\ Holder(call[c].grant) # node.user
        => node.shared /\ Holder(call[c].grant) = node.owner

\* mcp/oauth.py:138, "Find state row, check expiry, delete it (one-shot)": no two
\* callbacks get past the check with one state.
StateIsOneShot ==
    \A a, b \in Callbacks :
        a # b /\ cb[a].grant = cb[b].grant /\ Kind(cb[a].grant) = "mcp"
        => ~(cb[a].pc \in {"valid", "consumed", "granted"} /\ cb[b].pc \in {"valid", "consumed", "granted"})

=============================================================================
