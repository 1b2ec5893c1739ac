-------------------------- MODULE ConnectionsProofs --------------------------
(* The properties of Connections for any number of users, callbacks, calls,  *)
(* tokens and faults.                                                        *)
EXTENDS Connections, TLAPS

\* Between asking for a token and the answer of the server.
Active(c) == call[c].pc \in {"token", "fallback", "refresh", "store", "send"}

\* The node has resolved its server before it calls it, and waits for the calls
\* of a turn before the next; a call is carried out only when it ends.
NodeKnows == node.pc # "idle" => node.user \in Users /\ node.owner \in Users
CallsOfNode == \A c \in Calls : Active(c) /\ ~ForDrive(c) => node.pc # "idle"
ThinksAlone == node.pc = "think" => \A c \in Calls : ~Active(c)
CarriedOut ==
    \A c \in Calls : /\ Active(c) => call[c].effects = 0
                     /\ call[c].effects \in {0, 1}

\* A call or a callback that has the answer of the provider, or asks for it,
\* knows whose token it is about.
GrantsNamed ==
    /\ \A c \in Calls : call[c].pc \in {"refresh", "store", "send"} => call[c].grant \in Grants
    /\ \A b \in Callbacks : cb[b].pc # "idle" => cb[b].grant \in Grants

\* The second look is for the owner's token, and only when the server is shared.
Falls(c) == call[c].pc = "fallback" => node.shared /\ ~ForDrive(c)
FallsBack == \A c \in Calls : Falls(c)

CallInv == NodeKnows /\ CallsOfNode /\ ThinksAlone /\ CarriedOut /\ GrantsNamed /\ FallsBack

\* Who holds an answer of the provider that is not stored yet.
HoldsCb(b, g) == cb[b].pc = "granted" /\ cb[b].grant = g
HoldsCall(c, g) == call[c].pc = "store" /\ call[c].grant = g

NoRowNoToken == \A g \in Grants : ~tok[g].stored => tok[g].refresh = 0

\* Unless two requests wrote at once, at most one request holds an answer, and
\* it is the newest the provider gave: a new refresh token, or none because the
\* one that was read is still good.
OneHolder(g) ==
    /\ \A a, b \in Callbacks : HoldsCb(a, g) /\ HoldsCb(b, g) => a = b
    /\ \A c, d \in Calls : HoldsCall(c, g) /\ HoldsCall(d, g) => c = d
    /\ \A b \in Callbacks, c \in Calls : ~(HoldsCb(b, g) /\ HoldsCall(c, g))
HolderIsNewest(g) ==
    /\ \A b \in Callbacks : HoldsCb(b, g) => cb[b].got = issued[g]
    /\ \A c \in Calls : HoldsCall(c, g) =>
         \/ call[c].got # 0 /\ call[c].got = issued[g]
         \/ call[c].got = 0 /\ call[c].read = issued[g]

\* The row has the newest refresh token, unless its holder is about to write it.
Nobody(g) ==
    /\ \A b \in Callbacks : ~HoldsCb(b, g)
    /\ \A c \in Calls : ~HoldsCall(c, g)
RowIsNewest(g) ==
    \/ tok[g].refresh = 0
    \/ tok[g].refresh = issued[g]
RowIsKept(g) ==
    /\ Nobody(g) => RowIsNewest(g)
    /\ \A c \in Calls : HoldsCall(c, g) /\ call[c].got = 0 => RowIsNewest(g)

HoldInv ==
    /\ NoRowNoToken
    /\ \A g \in Grants : g \notin raced => OneHolder(g) /\ HolderIsNewest(g)
    /\ \A g \in Grants : g \notin raced /\ g \notin lost => RowIsKept(g)

Inv == TypeOK /\ CallInv /\ HoldInv /\ TokenOfTheRightUser

-----------------------------------------------------------------------------
\* Grants.

LEMMA GrantFacts ==
    /\ \A u \in Users : Mcp(u) \in Grants /\ Drive(u) \in Grants
    /\ \A u : Kind(Mcp(u)) = "mcp" /\ Holder(Mcp(u)) = u
    /\ \A u : Kind(Drive(u)) = "drive"
    /\ Kind(NoGrant) = "none"
BY DEF Grants, Mcp, Drive, Kind, Holder, NoGrant

LEMMA Bounds ==
    /\ MaxIssued \in Nat \ {0} /\ Cap \in Nat /\ MaxFaults \in Nat
    /\ Callbacks \cap Calls = {}
    /\ 0 \in 0..MaxIssued /\ 1 \in 0..MaxIssued
<1>1. MaxIssued \in Nat \ {0} /\ Cap \in Nat /\ MaxFaults \in Nat /\ Callbacks \cap Calls = {}
  BY ConnectionsAssumption
<1> QED
  BY <1>1

LEMMA InitInv == Init => Inv
<1> SUFFICES ASSUME Init PROVE Inv
  OBVIOUS
<1>0. MaxIssued \in Nat \ {0} /\ Cap \in Nat /\ MaxFaults \in Nat /\ cast.server \in BOOLEAN
  BY ConnectionsAssumption DEF Init
<1>1. tok \in [Grants -> {NoToken, OldToken}]
  <2>1. CASE cast.grants # {}
    BY <2>1 DEF Init
  <2>2. CASE cast.grants = {}
    <3>1. PICK u \in Users : tok = [g \in Grants |-> IF Holder(g) = u THEN OldToken ELSE NoToken]
      BY <2>2 DEF Init
    <3> QED
      BY <3>1
  <2> QED
    BY <2>1, <2>2
<1>2. /\ NoToken \in TokenType /\ OldToken \in TokenType
      /\ NoToken.refresh = 0 /\ OldToken.stored = TRUE
  BY <1>0 DEF NoToken, OldToken, TokenType
<1>3. /\ \A g \in Grants : tok[g] = NoToken \/ tok[g] = OldToken
      /\ tok \in [Grants -> TokenType] /\ NoRowNoToken
  <2>1. \A g \in Grants : tok[g] = NoToken \/ tok[g] = OldToken
    BY <1>1
  <2>2. tok \in [Grants -> TokenType]
    BY <1>1, <1>2, <2>1
  <2> QED
    BY <1>2, <2>1, <2>2 DEF NoRowNoToken
<1>4. issued \in [Grants -> 0..MaxIssued] /\ \A g \in Grants : issued[g] = tok[g].refresh
  <2>1. \A g \in Grants : tok[g].refresh \in 0..MaxIssued
    BY <1>3 DEF TokenType
  <2> QED
    BY <2>1 DEF Init
<1>5. server \in ServerType
  <2>1. /\ server = [there |-> server.there, owner |-> server.owner, shared |-> server.shared,
                     config |-> server.config, changes |-> server.changes,
                     deleted |-> server.deleted, status |-> server.status]
        /\ server.there = cast.server /\ server.config = cast.server /\ server.owner \in Users
        /\ server.shared \in BOOLEAN /\ server.changes = 0 /\ server.deleted = FALSE
        /\ server.status = "untested"
    BY DEF Init
  <2>2. server.there \in BOOLEAN /\ server.config \in BOOLEAN /\ server.deleted \in BOOLEAN
    BY <1>0, <2>1
  <2> QED
    BY <2>1, <2>2 DEF ServerType
<1>6. IdleCallback \in CallbackType /\ IdleCallback.pc = "idle"
  BY <1>0 DEF IdleCallback, CallbackType
<1>7. IdleCall \in CallType /\ IdleCall.pc = "idle" /\ IdleCall.effects = 0
  BY <1>0 DEF IdleCall, CallType
<1>8. /\ cb \in [Callbacks -> CallbackType] /\ \A b \in Callbacks : cb[b].pc = "idle"
      /\ call \in [Calls -> CallType] /\ \A c \in Calls : call[c].pc = "idle" /\ call[c].effects = 0
  BY <1>6, <1>7 DEF Init
<1>9. node \in NodeType /\ node.pc = "idle"
  BY <1>0 DEF Init, NodeType
<1>10. remote \in [stateful : BOOLEAN, session : BOOLEAN]
  BY DEF Init
<1>11. TypeOK
  BY <1>0, <1>3, <1>4, <1>5, <1>8, <1>9, <1>10 DEF Init, TypeOK
<1>12. CallInv /\ TokenOfTheRightUser
  BY <1>8, <1>9 DEF CallInv, NodeKnows, CallsOfNode, ThinksAlone, CarriedOut, GrantsNamed, Active,
                    FallsBack, Falls, TokenOfTheRightUser
<1>13. HoldInv
  BY <1>3, <1>4, <1>8 DEF HoldInv, OneHolder, HolderIsNewest, RowIsKept, RowIsNewest, HoldsCb,
                          HoldsCall
<1> QED
  BY <1>11, <1>12, <1>13 DEF Inv

-----------------------------------------------------------------------------
\* Steps that leave the holders alone.

SameHolders ==
    /\ \A b \in Callbacks : cb'[b] = cb[b] \/ (cb[b].pc # "granted" /\ cb'[b].pc # "granted")
    /\ \A c \in Calls : call'[c] = call[c] \/ (call[c].pc # "store" /\ call'[c].pc # "store")
RowsOnlyAge ==
    \A g \in Grants : /\ tok'[g].refresh \in {0, tok[g].refresh}
                      /\ ~tok'[g].stored => tok'[g].refresh = 0

LEMMA HoldKept ==
    ASSUME HoldInv, SameHolders, RowsOnlyAge, UNCHANGED <<issued, raced, lost>>
    PROVE  HoldInv'
<1> USE DEF HoldsCb, HoldsCall
<1>1. NoRowNoToken'
  BY DEF NoRowNoToken, RowsOnlyAge
<1>2. ASSUME NEW g \in Grants, g \notin raced
      PROVE  OneHolder(g)' /\ HolderIsNewest(g)'
  BY <1>2 DEF HoldInv, OneHolder, HolderIsNewest, SameHolders
<1>3. ASSUME NEW g \in Grants, g \notin raced, g \notin lost
      PROVE  RowIsKept(g)'
  <2>1. RowIsKept(g)
    BY <1>3 DEF HoldInv
  <2>2. RowIsNewest(g) => RowIsNewest(g)'
    BY DEF RowIsNewest, RowsOnlyAge
  <2>3. Nobody(g)' => Nobody(g)
    BY DEF Nobody, SameHolders
  <2> QED
    BY <2>1, <2>2, <2>3 DEF RowIsKept, SameHolders
<1> QED
  BY <1>1, <1>2, <1>3 DEF HoldInv

\* The rows of a step that does not touch them.
LEMMA RowsSame ==
    ASSUME HoldInv, tok' = tok PROVE RowsOnlyAge
BY DEF HoldInv, NoRowNoToken, RowsOnlyAge

\* A step of the callbacks or of the rows: the calls go on as they were.
LEMMA CallsKept ==
    ASSUME CallInv, TokenOfTheRightUser, UNCHANGED <<call, node>>,
           \A b \in Callbacks : cb'[b].pc # "idle" => cb'[b].grant \in Grants
    PROVE  CallInv' /\ TokenOfTheRightUser'
BY DEF CallInv, NodeKnows, CallsOfNode, ThinksAlone, CarriedOut, GrantsNamed, Active, ForDrive,
       FallsBack, Falls, TokenOfTheRightUser

\* mcp_servers.py.
LEMMA ServerInv == ASSUME Inv, ServerStep PROVE Inv'
<1>1. UNCHANGED ServerOthers
  BY DEF ServerStep, UpdateOauthConfig, AssignOwner, SetShared, DeleteServer, TestConnection,
         CreateServer, Change
<1>2. server' \in ServerType
  <2>0. server \in ServerType
    BY DEF Inv, TypeOK
  <2>1. ASSUME NEW row \in ServerType, Change(row) PROVE server' \in ServerType
    BY <2>1 DEF Change, ServerType
  <2>2. CASE UpdateOauthConfig
    <3>1. [server EXCEPT !.config = TRUE] \in ServerType
      BY <2>0 DEF ServerType
    <3> QED
      BY <2>1, <2>2, <3>1 DEF UpdateOauthConfig
  <2>3. CASE SetShared
    <3>1. [server EXCEPT !.shared = ~server.shared] \in ServerType
      BY <2>0 DEF ServerType
    <3> QED
      BY <2>1, <2>3, <3>1 DEF SetShared
  <2>4. CASE DeleteServer
    <3>1. [server EXCEPT !.there = FALSE, !.deleted = TRUE] \in ServerType
      BY <2>0 DEF ServerType
    <3> QED
      BY <2>1, <2>4, <3>1 DEF DeleteServer
  <2>5. CASE TestConnection
    <3>1. PICK s \in {"connected", "error"} : Change([server EXCEPT !.status = s])
      BY <2>5 DEF TestConnection
    <3>2. [server EXCEPT !.status = s] \in ServerType
      BY <2>0 DEF ServerType
    <3> QED
      BY <2>1, <3>1, <3>2
  <2>6. ASSUME NEW u \in Users, CreateServer(u) PROVE server' \in ServerType
    BY <2>0, <2>6 DEF CreateServer, ServerType
  <2>7. ASSUME NEW u \in Users, AssignOwner(u) PROVE server' \in ServerType
    <3>1. [server EXCEPT !.owner = u] \in ServerType
      BY <2>0 DEF ServerType
    <3> QED
      BY <2>1, <2>7, <3>1 DEF AssignOwner
  <2> QED
    BY <2>2, <2>3, <2>4, <2>5, <2>6, <2>7 DEF ServerStep
<1>3. TypeOK'
  BY <1>1, <1>2 DEF Inv, TypeOK, ServerOthers
<1>4. HoldInv'
  BY <1>1, HoldKept, RowsSame DEF Inv, ServerOthers, SameHolders
<1>5. CallInv' /\ TokenOfTheRightUser'
  BY <1>1, CallsKept DEF Inv, CallInv, GrantsNamed, ServerOthers
<1> QED
  BY <1>3, <1>4, <1>5 DEF Inv

-----------------------------------------------------------------------------
\* The authorization flow.

\* A callback moves on without an answer of the provider.
LEMMA CallbackMoves ==
    ASSUME Inv, NEW b \in Callbacks, cb[b].pc # "granted",
           cb'[b].pc # "granted", cb'[b].pc # "idle" => cb'[b].grant \in Grants,
           \A a \in Callbacks : a # b => cb'[a] = cb[a],
           UNCHANGED <<issued, tok, call, node, raced, lost>>
    PROVE  CallInv' /\ HoldInv' /\ TokenOfTheRightUser'
<1>1. SameHolders
  BY DEF SameHolders
<1>2. \A a \in Callbacks : cb'[a].pc # "idle" => cb'[a].grant \in Grants
  BY DEF Inv, CallInv, GrantsNamed
<1>3. HoldInv'
  BY <1>1, HoldKept, RowsSame DEF Inv
<1>4. CallInv' /\ TokenOfTheRightUser'
  BY <1>2, CallsKept DEF Inv
<1> QED
  BY <1>3, <1>4

LEMMA CallbackPc ==
    ASSUME TypeOK, NEW b \in Callbacks,
           NEW pc \in {"idle", "found", "valid", "consumed", "granted"},
           cb' = [cb EXCEPT ![b].pc = pc]
    PROVE  /\ cb' \in [Callbacks -> CallbackType]
           /\ cb'[b].pc = pc /\ cb'[b].grant = cb[b].grant /\ cb'[b].got = cb[b].got
           /\ \A a \in Callbacks : a # b => cb'[a] = cb[a]
BY DEF TypeOK, CallbackType

\* Handing out a state, its expiry, and the callback up to the exchange.
LEMMA FlowOpens ==
    ASSUME Inv,
           \/ \E g \in Grants : Expire(g)
           \/ \E u \in Users : OauthAuthorize(u) \/ DriveAuthorize(u)
    PROVE  Inv'
<1>1. flow' \in [Grants -> {"none", "open", "expired"}] /\ codes' \in [Grants -> 0..1]
  <2>1. flow \in [Grants -> {"none", "open", "expired"}] /\ codes \in [Grants -> 0..1]
    BY DEF Inv, TypeOK
  <2>2. ASSUME NEW g \in Grants, Expire(g)
        PROVE  flow' \in [Grants -> {"none", "open", "expired"}] /\ codes' \in [Grants -> 0..1]
    BY <2>1, <2>2 DEF Expire
  <2>3. ASSUME NEW u \in Users, OauthAuthorize(u)
        PROVE  flow' \in [Grants -> {"none", "open", "expired"}] /\ codes' \in [Grants -> 0..1]
    <3>1. flow' \in [Grants -> {"none", "open", "expired"}]
      BY <2>1, <2>3 DEF OauthAuthorize, StatesWith
    <3>2. codes' = [codes EXCEPT ![Mcp(u)] = 1]
      BY <2>3 DEF OauthAuthorize, Consented
    <3> QED
      BY <2>1, <3>1, <3>2, GrantFacts
  <2>4. ASSUME NEW u \in Users, DriveAuthorize(u)
        PROVE  flow' \in [Grants -> {"none", "open", "expired"}] /\ codes' \in [Grants -> 0..1]
    <3>1. flow' = [flow EXCEPT ![Drive(u)] = "open"] /\ codes' = [codes EXCEPT ![Drive(u)] = 1]
      BY <2>4 DEF DriveAuthorize, SealedState, Consented
    <3> QED
      BY <2>1, <3>1, GrantFacts
  <2> QED
    BY <2>2, <2>3, <2>4
<1>2. UNCHANGED <<cast, server, call, node, remote, issued, tok, cb, faults, raced, lost>>
  BY DEF Expire, OauthAuthorize, DriveAuthorize, Consented, FlowOthers
<1>3. TypeOK'
  BY <1>1, <1>2 DEF Inv, TypeOK
<1>4. HoldInv'
  BY <1>2, HoldKept, RowsSame DEF Inv, SameHolders
<1>5. CallInv' /\ TokenOfTheRightUser'
  BY <1>2, CallsKept DEF Inv, CallInv, GrantsNamed
<1> QED
  BY <1>3, <1>4, <1>5 DEF Inv

LEMMA BeginInv ==
    ASSUME Inv, NEW b \in Callbacks, NEW g \in Grants, NEW pc \in {"found", "consumed"},
           Begin(b, g, pc)
    PROVE  Inv'
<1> DEFINE v == [IdleCallback EXCEPT !.pc = pc, !.grant = g]
<1>1. v \in CallbackType /\ v.pc = pc /\ v.grant = g
  BY Bounds DEF IdleCallback, CallbackType
<1>2. cb' = [cb EXCEPT ![b] = v] /\ cb[b].pc # "granted" /\ cb \in [Callbacks -> CallbackType]
  BY DEF Begin, Inv, TypeOK
<1> HIDE DEF v
<1>5. /\ cb' \in [Callbacks -> CallbackType] /\ cb'[b] = v
      /\ \A a \in Callbacks : a # b => cb'[a] = cb[a]
  BY <1>1, <1>2
<1>3. UNCHANGED <<cast, server, call, node, remote, faults, flow, codes, issued, tok, raced, lost>>
  BY DEF Begin, CallbackOthers, FlowOthers
<1>4. CallInv' /\ HoldInv' /\ TokenOfTheRightUser'
  BY <1>1, <1>2, <1>3, <1>5, CallbackMoves
<1> QED
  BY <1>3, <1>4, <1>5 DEF Inv, TypeOK

\* The check and the use of a state, a code that is refused, and a callback
\* that dies before it has an answer.
LEMMA CallbackGoesOn ==
    ASSUME Inv, NEW b \in Callbacks, cb[b].pc # "granted",
           \/ OauthValidate(b) \/ OauthConsume(b) \/ CallbackDies(b)
           \/ Exchange(b) /\ codes[cb[b].grant] = 0
    PROVE  Inv'
<1>1. TypeOK /\ GrantsNamed /\ cb[b].pc # "idle"
  BY DEF Inv, CallInv, OauthValidate, OauthConsume, CallbackDies, Exchange
<1>2. PICK pc \in {"idle", "valid", "consumed"} : cb' = [cb EXCEPT ![b].pc = pc]
  BY DEF OauthValidate, OauthConsume, CallbackDies, Exchange, CallbackAt
<1>3. /\ cb' \in [Callbacks -> CallbackType]
      /\ cb'[b].pc = pc /\ cb'[b].grant = cb[b].grant
      /\ \A a \in Callbacks : a # b => cb'[a] = cb[a]
  BY <1>1, <1>2, CallbackPc
<1>4. UNCHANGED <<cast, server, call, node, remote, codes, issued, tok, raced, lost>>
  BY DEF OauthValidate, OauthConsume, CallbackDies, Exchange, CallbackOthers, FlowOthers
<1>5. flow' \in [Grants -> {"none", "open", "expired"}] /\ faults' \in 0..MaxFaults
  BY <1>1, ConnectionsAssumption
     DEF TypeOK, OauthValidate, OauthConsume, CallbackDies, Exchange, CallbackOthers, Fault
<1>6. CallInv' /\ HoldInv' /\ TokenOfTheRightUser'
  BY <1>1, <1>3, <1>4, CallbackMoves DEF GrantsNamed
<1> QED
  BY <1>1, <1>3, <1>4, <1>5, <1>6 DEF Inv, TypeOK

\* The provider answers a callback: whoever else was about to write the row
\* makes the grant raced.
LEMMA ExchangeInv ==
    ASSUME Inv, NEW b \in Callbacks, Exchange(b), codes[cb[b].grant] # 0
    PROVE  Inv'
<1> PICK g : g = cb[b].grant
  OBVIOUS
<1>0. TypeOK /\ HoldInv /\ cb[b].pc = "consumed" /\ g \in Grants
  BY DEF Inv, CallInv, GrantsNamed, Exchange
<1>1. /\ codes' = [codes EXCEPT ![g] = 0]
      /\ issued[g] < MaxIssued
      /\ issued' = [issued EXCEPT ![g] = issued[g] + 1]
      /\ cb' = [cb EXCEPT ![b].pc = "granted", ![b].got = issued[g] + 1]
      /\ raced' = IF Writers(g) # {} THEN raced \cup {g} ELSE raced
  BY DEF Exchange
<1>2. UNCHANGED <<cast, server, call, node, remote, faults, flow, tok, lost>>
  BY DEF Exchange, CallbackOthers, FlowOthers
<1>3. issued[g] \in 0..MaxIssued /\ issued[g] + 1 \in 0..MaxIssued
  BY <1>0, <1>1, ConnectionsAssumption DEF TypeOK
<1>4. /\ issued' \in [Grants -> 0..MaxIssued] /\ issued'[g] = issued[g] + 1
      /\ \A h \in Grants : h # g => issued'[h] = issued[h]
  BY <1>0, <1>1, <1>3 DEF TypeOK
<1>5. cb[b] \in CallbackType /\ cb \in [Callbacks -> CallbackType]
  BY <1>0 DEF TypeOK
<1>6. /\ cb' \in [Callbacks -> CallbackType]
      /\ cb'[b].pc = "granted" /\ cb'[b].got = issued[g] + 1 /\ cb'[b].grant = g
      /\ \A a \in Callbacks : a # b => cb'[a] = cb[a]
  BY <1>1, <1>3, <1>5 DEF CallbackType
<1>7. TypeOK'
  BY <1>0, <1>1, <1>2, <1>4, <1>6 DEF TypeOK
<1>8. CallInv' /\ TokenOfTheRightUser'
  BY <1>0, <1>2, <1>6, CallsKept DEF Inv, CallInv, GrantsNamed
<1>9. ASSUME NEW h \in Grants, h \notin raced'
      PROVE  /\ OneHolder(h)' /\ HolderIsNewest(h)'
             /\ h \notin lost => RowIsKept(h)'
  <2>1. h \notin raced
    BY <1>1, <1>9
  <2>2. CASE h # g
    <3>1. \A a \in Callbacks : HoldsCb(a, h)' <=> HoldsCb(a, h)
      BY <1>0, <1>6, <2>2 DEF HoldsCb
    <3>2. \A c \in Calls : HoldsCall(c, h)' <=> HoldsCall(c, h)
      BY <1>2 DEF HoldsCall
    <3>3. \A a \in Callbacks : HoldsCb(a, h) => cb'[a] = cb[a]
      BY <1>0, <1>6 DEF HoldsCb
    <3>4. OneHolder(h)' /\ HolderIsNewest(h)'
      BY <1>0, <1>2, <1>4, <2>1, <2>2, <3>1, <3>2, <3>3 DEF HoldInv, OneHolder, HolderIsNewest
    <3>5. h \notin lost => RowIsKept(h)'
      BY <1>0, <1>2, <1>4, <2>1, <2>2, <3>1, <3>2 DEF HoldInv, RowIsKept, RowIsNewest, Nobody
    <3> QED
      BY <3>4, <3>5
  <2>3. CASE h = g
    <3>1. Writers(g) = {}
      BY <1>1, <1>9, <2>3
    <3>2. /\ \A a \in Callbacks : ~HoldsCb(a, g)
          /\ \A c \in Calls : ~HoldsCall(c, g)
      BY <3>1 DEF Writers, HoldsCb, HoldsCall
    <3>3. \A a \in Callbacks : HoldsCb(a, g)' <=> a = b
      BY <1>6, <3>2 DEF HoldsCb
    <3>4. \A c \in Calls : ~HoldsCall(c, g)'
      BY <1>2, <3>2 DEF HoldsCall
    <3> QED
      BY <1>4, <1>6, <2>3, <3>3, <3>4 DEF OneHolder, HolderIsNewest, RowIsKept, Nobody
  <2> QED
    BY <2>2, <2>3
<1>10. HoldInv'
  BY <1>0, <1>2, <1>9 DEF HoldInv, NoRowNoToken
<1> QED
  BY <1>7, <1>8, <1>10 DEF Inv

\* The only holder writes the row; a grant that was lost is found again.
LEMMA UpsertInv ==
    ASSUME Inv, NEW b \in Callbacks, NEW g \in Grants, Upsert(b, g)
    PROVE  Inv'
<1>0. TypeOK /\ HoldInv /\ HoldsCb(b, g)
  BY DEF Inv, Upsert, HoldsCb
<1>1. PICK refresh \in {0, cb[b].got} :
        tok' = [tok EXCEPT ![g] = [refresh |-> refresh, fresh |-> TRUE, stored |-> TRUE]]
  BY DEF Upsert
<1>2. refresh \in 0..MaxIssued
  BY <1>0, Bounds DEF TypeOK, CallbackType
<1>3. /\ tok' \in [Grants -> TokenType]
      /\ tok'[g].refresh = refresh /\ tok'[g].stored = TRUE
      /\ \A h \in Grants : h # g => tok'[h] = tok[h]
  BY <1>0, <1>1, <1>2 DEF TypeOK, TokenType
<1>4. /\ cb' \in [Callbacks -> CallbackType] /\ cb'[b].pc = "idle"
      /\ \A a \in Callbacks : a # b => cb'[a] = cb[a]
  BY <1>0, CallbackPc DEF Upsert, CallbackAt
<1>5. /\ UNCHANGED <<cast, server, call, node, remote, faults, flow, codes, issued, raced>>
      /\ lost' = IF g \in raced THEN lost ELSE lost \ {g}
  BY DEF Upsert, CallbackOthers, FlowOthers
<1>6. TypeOK'
  BY <1>0, <1>3, <1>4, <1>5 DEF TypeOK
<1>7. CallInv' /\ TokenOfTheRightUser'
  BY <1>4, <1>5, CallsKept DEF Inv, CallInv, GrantsNamed
<1>8. NoRowNoToken'
  BY <1>0, <1>3 DEF HoldInv, NoRowNoToken
<1>9. \A h \in Grants : /\ \A a \in Callbacks : HoldsCb(a, h)' <=> HoldsCb(a, h) /\ a # b
                        /\ \A a \in Callbacks : HoldsCb(a, h)' => cb'[a] = cb[a]
                        /\ \A c \in Calls : HoldsCall(c, h)' <=> HoldsCall(c, h)
  BY <1>4, <1>5 DEF HoldsCb, HoldsCall
<1>10. ASSUME NEW h \in Grants, h \notin raced
       PROVE  OneHolder(h)' /\ HolderIsNewest(h)'
  BY <1>0, <1>5, <1>9, <1>10 DEF HoldInv, OneHolder, HolderIsNewest
<1>11. ASSUME NEW h \in Grants, h \notin raced, h \notin lost'
       PROVE  RowIsKept(h)'
  <2>1. CASE h = g
    <3>1. tok'[g].refresh = 0 \/ tok'[g].refresh = issued'[g]
      BY <1>0, <1>1, <1>3, <1>5, <1>11, <2>1 DEF HoldInv, HolderIsNewest
    <3> QED
      BY <2>1, <3>1 DEF RowIsKept, RowIsNewest
  <2>2. CASE h # g
    <3>1. RowIsKept(h)
      BY <1>0, <1>5, <1>11, <2>2 DEF HoldInv
    <3>2. Nobody(h)' => Nobody(h)
      BY <1>0, <1>9, <2>2 DEF Nobody, HoldsCb
    <3>3. RowIsNewest(h) => RowIsNewest(h)'
      BY <1>3, <1>5, <2>2 DEF RowIsNewest
    <3> QED
      BY <1>5, <1>9, <3>1, <3>2, <3>3 DEF RowIsKept
  <2> QED
    BY <2>1, <2>2
<1>12. HoldInv'
  BY <1>5, <1>8, <1>10, <1>11 DEF HoldInv
<1> QED
  BY <1>6, <1>7, <1>12 DEF Inv

\* A callback that dies with an answer in hand loses it.
LEMMA CallbackLoses ==
    ASSUME Inv, NEW b \in Callbacks, CallbackDies(b), cb[b].pc = "granted"
    PROVE  Inv'
<1>0. TypeOK /\ HoldInv /\ cb[b].grant \in Grants
  BY DEF Inv, CallInv, GrantsNamed
<1>1. /\ UNCHANGED <<cast, server, call, node, remote, flow, codes, issued, tok, raced>>
      /\ lost' = lost \cup {cb[b].grant}
  BY DEF CallbackDies, FlowOthers
<1>2. /\ cb' \in [Callbacks -> CallbackType] /\ cb'[b].pc = "idle"
      /\ \A a \in Callbacks : a # b => cb'[a] = cb[a]
  BY <1>0, CallbackPc DEF CallbackDies, CallbackAt
<1>3. faults' \in 0..MaxFaults
  BY <1>0, Bounds DEF TypeOK, CallbackDies, Fault
<1>4. TypeOK'
  BY <1>0, <1>1, <1>2, <1>3 DEF TypeOK
<1>5. CallInv' /\ TokenOfTheRightUser'
  BY <1>1, <1>2, CallsKept DEF Inv, CallInv, GrantsNamed
<1>6. \A h \in Grants : /\ \A a \in Callbacks : HoldsCb(a, h)' <=> HoldsCb(a, h) /\ a # b
                        /\ \A a \in Callbacks : HoldsCb(a, h)' => cb'[a] = cb[a]
                        /\ \A c \in Calls : HoldsCall(c, h)' <=> HoldsCall(c, h)
  BY <1>1, <1>2 DEF HoldsCb, HoldsCall
<1>7. ASSUME NEW h \in Grants, h \notin raced
      PROVE  OneHolder(h)' /\ HolderIsNewest(h)'
  BY <1>0, <1>1, <1>6, <1>7 DEF HoldInv, OneHolder, HolderIsNewest
<1>8. ASSUME NEW h \in Grants, h \notin raced, h \notin lost'
      PROVE  RowIsKept(h)'
  <2>1. RowIsKept(h) /\ ~HoldsCb(b, h)
    BY <1>0, <1>1, <1>8 DEF HoldInv, HoldsCb
  <2> QED
    BY <1>1, <1>6, <2>1 DEF RowIsKept, RowIsNewest, Nobody
<1>9. HoldInv'
  BY <1>0, <1>1, <1>7, <1>8 DEF HoldInv, NoRowNoToken
<1> QED
  BY <1>4, <1>5, <1>9 DEF Inv

\* oauth_disconnect, and the clock.
LEMMA RowInv ==
    ASSUME Inv, (\E g \in Grants : Age(g)) \/ (\E u \in Users : Disconnect(u))
    PROVE  Inv'
<1>0. TypeOK /\ HoldInv
  BY DEF Inv
<1>1. UNCHANGED <<cast, server, call, node, remote, flow, codes, issued, cb, faults, raced, lost>>
  BY DEF Age, Disconnect, FlowOthers
<1>2. tok' \in [Grants -> TokenType] /\ RowsOnlyAge
  <2>1. ASSUME NEW g \in Grants, Age(g) PROVE tok' \in [Grants -> TokenType] /\ RowsOnlyAge
    <3>1. tok' = [tok EXCEPT ![g].fresh = FALSE] /\ tok \in [Grants -> TokenType]
      BY <1>0, <2>1 DEF Age, TypeOK
    <3>2. /\ tok' \in [Grants -> TokenType]
          /\ \A h \in Grants : tok'[h].refresh = tok[h].refresh /\ tok'[h].stored = tok[h].stored
      BY <3>1 DEF TokenType
    <3> QED
      BY <1>0, <3>2 DEF HoldInv, NoRowNoToken, RowsOnlyAge
  <2>2. ASSUME NEW u \in Users, Disconnect(u) PROVE tok' \in [Grants -> TokenType] /\ RowsOnlyAge
    <3>1. tok' = [tok EXCEPT ![Mcp(u)] = NoToken] /\ tok \in [Grants -> TokenType]
      BY <1>0, <2>2 DEF Disconnect, TypeOK
    <3>2. NoToken \in TokenType /\ NoToken.refresh = 0
      BY Bounds DEF NoToken, TokenType
    <3>3. /\ tok' \in [Grants -> TokenType]
          /\ \A h \in Grants : tok'[h] = tok[h] \/ tok'[h] = NoToken
      BY <3>1, <3>2
    <3> QED
      BY <1>0, <3>2, <3>3 DEF HoldInv, NoRowNoToken, RowsOnlyAge
  <2> QED
    BY <2>1, <2>2
<1>3. TypeOK'
  BY <1>0, <1>1, <1>2 DEF TypeOK
<1>4. HoldInv'
  BY <1>0, <1>1, <1>2, HoldKept DEF SameHolders
<1>5. CallInv' /\ TokenOfTheRightUser'
  BY <1>1, CallsKept DEF Inv, CallInv, GrantsNamed
<1> QED
  BY <1>3, <1>4, <1>5 DEF Inv

LEMMA FlowInv == ASSUME Inv, FlowStep PROVE Inv'
<1>1. ASSUME NEW b \in Callbacks, Exchange(b) PROVE Inv'
  <2>1. cb[b].pc # "granted"
    BY <1>1 DEF Exchange
  <2> QED
    BY <1>1, <2>1, ExchangeInv, CallbackGoesOn
<1>2. ASSUME NEW b \in Callbacks, CallbackDies(b) PROVE Inv'
  BY <1>2, CallbackLoses, CallbackGoesOn
<1>3. ASSUME NEW b \in Callbacks, OauthValidate(b) \/ OauthConsume(b) PROVE Inv'
  <2>1. cb[b].pc # "granted"
    BY <1>3 DEF OauthValidate, OauthConsume
  <2> QED
    BY <1>3, <2>1, CallbackGoesOn
<1>4. ASSUME NEW b \in Callbacks, NEW u \in Users,
             OauthCallback(b, u) \/ DriveCallback(b, u) \/ OauthUpsert(b, u) \/ DriveUpsert(b, u)
      PROVE  Inv'
  BY <1>4, BeginInv, UpsertInv, GrantFacts
     DEF OauthCallback, DriveCallback, OauthUpsert, DriveUpsert
<1> QED
  BY <1>1, <1>2, <1>3, <1>4, FlowOpens, RowInv DEF FlowStep, OauthExchange, DriveExchange

-----------------------------------------------------------------------------
\* The node.

LEMMA IdleCallFacts ==
    /\ IdleCall \in CallType /\ IdleCall.pc = "idle" /\ IdleCall.effects = 0
    /\ [IdleCall EXCEPT !.pc = "token"] \in CallType
    /\ [IdleCall EXCEPT !.pc = "token"].pc = "token"
    /\ [IdleCall EXCEPT !.pc = "token"].effects = 0
BY Bounds DEF IdleCall, CallType

\* The calls of a turn begin, or are forgotten, when none is under way.
LEMMA CallsRestart ==
    ASSUME Inv, \A c \in Calls : ~Active(c), node' \in NodeType, NodeKnows',
           \/ (\E cs : Start(cs)) /\ node'.pc \notin {"idle", "think"}
           \/ call' = NoCalls,
           UNCHANGED <<issued, tok, cb, raced, lost>>
    PROVE  /\ call' \in [Calls -> CallType]
           /\ CallInv' /\ HoldInv' /\ TokenOfTheRightUser'
<1>1. /\ call' \in [Calls -> CallType]
      /\ \A c \in Calls : /\ call'[c].effects = 0
                          /\ \/ call'[c].pc = "idle"
                             \/ call'[c].pc = "token" /\ node'.pc \notin {"idle", "think"}
  <2>1. CASE call' = NoCalls
    BY <2>1, IdleCallFacts DEF NoCalls
  <2>2. CASE (\E cs : Start(cs)) /\ node'.pc \notin {"idle", "think"}
    <3>1. PICK cs : Start(cs)
      BY <2>2
    <3> DEFINE t == [IdleCall EXCEPT !.pc = "token"]
    <3>2. call' = [c \in Calls |-> IF c \in cs THEN t ELSE IdleCall]
      BY <3>1 DEF Start
    <3>3. t \in CallType /\ t.pc = "token" /\ t.effects = 0
      BY IdleCallFacts
    <3> HIDE DEF t
    <3> QED
      BY <2>2, <3>2, <3>3, IdleCallFacts
  <2> QED
    BY <2>1, <2>2
<1>2. CallInv'
  BY <1>1 DEF Inv, CallInv, CallsOfNode, ThinksAlone, CarriedOut, GrantsNamed, FallsBack, Falls, Active
<1>3. TokenOfTheRightUser'
  BY <1>1 DEF TokenOfTheRightUser
<1>4. SameHolders
  BY <1>1 DEF SameHolders, Active
<1>5. HoldInv'
  BY <1>4, HoldKept, RowsSame DEF Inv
<1> QED
  BY <1>1, <1>2, <1>3, <1>5

LEMMA NodePc ==
    ASSUME node \in NodeType,
           NEW pc \in {"idle", "list", "tool", "think", "tools", "format", "done", "failed"}
    PROVE  /\ [node EXCEPT !.pc = pc] \in NodeType
           /\ [node EXCEPT !.pc = pc].pc = pc
           /\ [node EXCEPT !.pc = pc].user = node.user
           /\ [node EXCEPT !.pc = pc].owner = node.owner
           /\ [node EXCEPT !.pc = pc].shared = node.shared
BY DEF NodeType

LEMMA ResolveInv ==
    ASSUME Inv, NEW u \in Users, NEW kind, Resolve(u, kind)
    PROVE  Inv'
<1>1. /\ node' = [node EXCEPT !.pc = "list", !.user = u, !.owner = server.owner,
                              !.shared = server.shared]
      /\ \E cs : Start(cs)
      /\ \A c \in Calls : ~Active(c)
      /\ UNCHANGED <<cast, server, flow, codes, cb, issued, tok, remote, faults, raced, lost>>
  BY DEF Resolve, Ended, Active, NodeOthers, LoopOthers
<1>2. server.owner \in Users /\ server.shared \in BOOLEAN /\ node \in NodeType
  BY DEF Inv, TypeOK, ServerType
<1>3. node' \in NodeType /\ node'.pc = "list" /\ node'.user = u /\ node'.owner = server.owner
  BY <1>1, <1>2 DEF NodeType
<1>4. NodeKnows'
  BY <1>2, <1>3 DEF NodeKnows
<1>5. call' \in [Calls -> CallType] /\ CallInv' /\ HoldInv' /\ TokenOfTheRightUser'
  BY <1>1, <1>3, <1>4, CallsRestart
<1> QED
  BY <1>1, <1>3, <1>5 DEF Inv, TypeOK

\* A turn is over: the answers are read and the next calls are made, or none.
LEMMA TurnInv ==
    ASSUME Inv, NodeListed \/ ToolReturns \/ NodeToolsReturn
    PROVE  Inv'
<1>1. /\ \A c \in Calls : ~Active(c)
      /\ UNCHANGED <<cast, server, flow, codes, cb, issued, tok, remote, faults, raced, lost>>
      /\ node.pc # "idle" /\ node \in NodeType /\ NodeKnows
  BY DEF NodeListed, ToolReturns, NodeToolsReturn, Ended, Active, NodeOthers, LoopOthers,
         Inv, TypeOK, CallInv
<1>2. PICK pc \in {"tool", "think", "done", "failed"} :
        /\ node' = [node EXCEPT !.pc = pc]
        /\ \/ (\E cs : Start(cs)) /\ pc = "tool"
           \/ call' = NoCalls
  BY DEF NodeListed, ToolReturns, NodeToolsReturn
<1>3. /\ node' \in NodeType /\ node'.pc = pc /\ node'.user = node.user /\ node'.owner = node.owner
  BY <1>1, <1>2, NodePc
<1>4. NodeKnows'
  BY <1>1, <1>3 DEF NodeKnows
<1>5. call' \in [Calls -> CallType] /\ CallInv' /\ HoldInv' /\ TokenOfTheRightUser'
  BY <1>1, <1>2, <1>3, <1>4, CallsRestart
<1> QED
  BY <1>1, <1>3, <1>5 DEF Inv, TypeOK

LEMMA CallsToolsInv ==
    ASSUME Inv, NodeCallsTools PROVE Inv'
<1>1. /\ \A c \in Calls : ~Active(c)
      /\ UNCHANGED <<cast, server, flow, codes, cb, issued, tok, remote, faults, raced, lost>>
      /\ node.pc = "think" /\ node \in NodeType /\ NodeKnows
      /\ node' = [node EXCEPT !.pc = "tools", !.turns = node.turns + 1] /\ node.turns < Cap + 1
      /\ \E cs : Start(cs)
  BY DEF NodeCallsTools, NodeOthers, LoopOthers, Inv, TypeOK, CallInv, ThinksAlone
<1>2. node.turns + 1 \in 0..(Cap + 1)
  BY <1>1, Bounds DEF NodeType
<1>3. /\ node' \in NodeType /\ node'.pc = "tools"
      /\ node'.user = node.user /\ node'.owner = node.owner
  BY <1>1, <1>2 DEF NodeType
<1>4. NodeKnows'
  BY <1>1, <1>3 DEF NodeKnows
<1>5. call' \in [Calls -> CallType] /\ CallInv' /\ HoldInv' /\ TokenOfTheRightUser'
  BY <1>1, <1>3, <1>4, CallsRestart
<1> QED
  BY <1>1, <1>3, <1>5 DEF Inv, TypeOK

\* The model answers, the answer is formatted, or the turns are used up.
LEMMA AnswerInv ==
    ASSUME Inv, NodeAnswers \/ FormatOutput \/ NodeExceeds PROVE Inv'
<1>1. /\ UNCHANGED <<cast, server, flow, codes, cb, issued, tok, remote, faults, raced, lost, call>>
      /\ node.pc # "idle" /\ node \in NodeType /\ NodeKnows
  BY DEF NodeAnswers, FormatOutput, NodeExceeds, NodeOthers, LoopOthers, Inv, TypeOK, CallInv
<1>2. PICK pc \in {"format", "done", "failed"} : node' = [node EXCEPT !.pc = pc]
  BY DEF NodeAnswers, FormatOutput, NodeExceeds
<1>3. /\ node' \in NodeType /\ node'.pc = pc
      /\ node'.user = node.user /\ node'.owner = node.owner /\ node'.shared = node.shared
  BY <1>1, <1>2, NodePc
<1>4. CallInv'
  BY <1>1, <1>3 DEF Inv, CallInv, NodeKnows, CallsOfNode, ThinksAlone, CarriedOut, GrantsNamed,
                    FallsBack, Falls, Active, ForDrive
<1>5. TokenOfTheRightUser'
  BY <1>1, <1>3 DEF Inv, TokenOfTheRightUser, ForDrive
<1>6. HoldInv'
  BY <1>1, HoldKept, RowsSame DEF Inv, SameHolders
<1> QED
  BY <1>1, <1>3, <1>4, <1>5, <1>6 DEF Inv, TypeOK

-----------------------------------------------------------------------------
\* One call.

RightToken(c) ==
    call[c].pc \in {"refresh", "store", "send"} /\ ~ForDrive(c) /\ Holder(call[c].grant) # node.user
    => node.shared /\ Holder(call[c].grant) = node.owner

\* A call that goes on as the invariants ask for leaves the others theirs; the
\* node may learn its session.
LEMMA CallMoves ==
    ASSUME Inv, NEW c \in Calls, \A d \in Calls : d # c => call'[d] = call[d],
           node' = node \/ node' = [node EXCEPT !.session = node'.session], cb' = cb,
           Active(c)' => call'[c].effects = 0, call'[c].effects \in {0, 1},
           Active(c)' /\ ~ForDrive(c)' => node.pc # "idle",
           Active(c)' => node.pc # "think",
           call'[c].pc \in {"refresh", "store", "send"} => call'[c].grant \in Grants,
           RightToken(c)', Falls(c)'
    PROVE  CallInv' /\ TokenOfTheRightUser'
<1>1. /\ node'.pc = node.pc /\ node'.user = node.user
      /\ node'.owner = node.owner /\ node'.shared = node.shared
  BY DEF Inv, TypeOK, NodeType
<1>2. NodeKnows' /\ CallsOfNode' /\ ThinksAlone'
  BY <1>1 DEF Inv, CallInv, NodeKnows, CallsOfNode, ThinksAlone, Active, ForDrive
<1>3. CarriedOut' /\ GrantsNamed'
  BY DEF Inv, CallInv, CarriedOut, GrantsNamed, Active
<1>4. TokenOfTheRightUser'
  BY <1>1 DEF Inv, TokenOfTheRightUser, RightToken, ForDrive
<1>5. FallsBack'
  BY <1>1 DEF Inv, CallInv, FallsBack, Falls, ForDrive
<1> QED
  BY <1>2, <1>3, <1>4, <1>5 DEF CallInv

\* Only the pc of a call changes.
LEMMA CallPc ==
    ASSUME TypeOK, NEW c \in Calls,
           NEW pc \in {"idle", "token", "fallback", "refresh", "store", "send", "ok", "failed"},
           CallAt(c, pc)
    PROVE  /\ call' \in [Calls -> CallType]
           /\ call'[c].pc = pc /\ call'[c].grant = call[c].grant
           /\ call'[c].effects = call[c].effects
           /\ \A d \in Calls : d # c => call'[d] = call[d]
BY DEF TypeOK, CallType, CallAt

\* What is known of a call that is under way.
LEMMA ActiveFacts ==
    ASSUME Inv, NEW c \in Calls, Active(c)
    PROVE  /\ call[c].effects = 0 /\ node.pc # "think"
           /\ ~ForDrive(c) => node.pc # "idle" /\ node.user \in Users /\ node.owner \in Users
           /\ call[c].pc \notin {"token", "fallback"} => call[c].grant \in Grants
           /\ RightToken(c) /\ Falls(c)
BY DEF Inv, CallInv, CarriedOut, ThinksAlone, CallsOfNode, NodeKnows, GrantsNamed, FallsBack, Active,
       RightToken, TokenOfTheRightUser

LEMMA DriveBeginInv ==
    ASSUME Inv, NEW c \in Calls, NEW u \in Users, DriveBegin(c, u) PROVE Inv'
<1>1. /\ UNCHANGED <<cast, server, flow, codes, cb, issued, tok, remote, faults, raced, lost, node>>
      /\ node.pc = "idle" /\ ~Active(c)
      /\ call' = [call EXCEPT ![c] = [IdleCall EXCEPT !.pc = "token", !.grant = Drive(u)]]
      /\ call \in [Calls -> CallType]
  BY DEF DriveBegin, NodeOthers, LoopOthers, Ended, Active, Inv, TypeOK
<1> DEFINE v == [IdleCall EXCEPT !.pc = "token", !.grant = Drive(u)]
<1>2. v \in CallType /\ v.pc = "token" /\ v.grant = Drive(u) /\ v.effects = 0
  BY Bounds, GrantFacts DEF IdleCall, CallType
<1>3. call' = [call EXCEPT ![c] = v]
  BY <1>1
<1> HIDE DEF v
<1>4. /\ call' \in [Calls -> CallType] /\ call'[c] = v
      /\ \A d \in Calls : d # c => call'[d] = call[d]
  BY <1>1, <1>2, <1>3
<1>5. ForDrive(c)'
  BY <1>2, <1>4, GrantFacts DEF ForDrive
<1>6. CallInv' /\ TokenOfTheRightUser'
  BY <1>1, <1>2, <1>4, <1>5, CallMoves DEF Active, RightToken, Falls
<1>7. HoldInv'
  BY <1>1, <1>2, <1>4, HoldKept, RowsSame DEF Inv, SameHolders, Active
<1> QED
  BY <1>1, <1>4, <1>6, <1>7 DEF Inv, TypeOK

\* A token that is found is an mcp token of whom it was looked for.
LEMMA FindFacts ==
    ASSUME NEW u \in Users, NEW g \in FindTokenFor(u)
    PROVE  g \in Grants /\ Kind(g) = "mcp" /\ Holder(g) = u
BY GrantFacts DEF FindTokenFor

\* The grants a call may use, as the node resolved them.
MayUse(c, g) ==
    /\ g \in Grants
    /\ Kind(g) = "drive" <=> ForDrive(c)
    /\ ~ForDrive(c) => Holder(g) = node.user \/ (node.shared /\ Holder(g) = node.owner)

LEMMA UseInv ==
    ASSUME Inv, NEW c \in Calls, call[c].pc \in {"token", "fallback"},
           NEW STATE grants, UseToken(c, grants), \A g \in grants : MayUse(c, g)
    PROVE  Inv'
<1>1. /\ UNCHANGED <<cast, server, flow, codes, cb, issued, tok, remote, faults, raced, lost, node>>
      /\ Active(c) /\ TypeOK
  BY DEF UseToken, NodeOthers, LoopOthers, Active, Inv
<1>2. CASE grants = {}
  <2>1. /\ call' \in [Calls -> CallType]
        /\ call'[c].pc = "failed" /\ call'[c].effects = call[c].effects
        /\ \A d \in Calls : d # c => call'[d] = call[d]
    BY <1>1, <1>2, CallPc DEF UseToken
  <2>2. CallInv' /\ TokenOfTheRightUser'
    BY <1>1, <2>1, ActiveFacts, CallMoves DEF Active, RightToken, Falls
  <2>3. HoldInv'
    BY <1>1, <2>1, HoldKept, RowsSame DEF Inv, SameHolders
  <2> QED
    BY <1>1, <2>1, <2>2, <2>3 DEF Inv, TypeOK
<1>3. CASE grants # {}
  <2>1. PICK g \in grants, pc \in {"send", "failed", "refresh"} :
          call' = [call EXCEPT ![c].grant = g, ![c].read = tok[g].refresh, ![c].pc = pc]
    BY <1>3 DEF UseToken
  <2>2. /\ g \in Grants /\ (Kind(g) = "drive" <=> ForDrive(c))
        /\ ~ForDrive(c) => Holder(g) = node.user \/ (node.shared /\ Holder(g) = node.owner)
    BY DEF MayUse
  <2>3. call[c] \in CallType /\ call \in [Calls -> CallType] /\ tok[g].refresh \in 0..MaxIssued
    BY <1>1, <2>2 DEF TypeOK, TokenType
  <2>4. /\ call' \in [Calls -> CallType]
        /\ call'[c].pc = pc /\ call'[c].grant = g /\ call'[c].effects = call[c].effects
        /\ \A d \in Calls : d # c => call'[d] = call[d]
    BY <2>1, <2>2, <2>3 DEF CallType
  <2>5. RightToken(c)' /\ (ForDrive(c)' <=> ForDrive(c))
    BY <1>1, <2>2, <2>4 DEF RightToken, ForDrive
  <2>6. CallInv' /\ TokenOfTheRightUser'
    BY <1>1, <2>2, <2>4, <2>5, ActiveFacts, CallMoves DEF Active, Falls
  <2>7. HoldInv'
    BY <1>1, <2>4, HoldKept, RowsSame DEF Inv, SameHolders
  <2> QED
    BY <1>1, <2>4, <2>6, <2>7 DEF Inv, TypeOK
<1> QED
  BY <1>2, <1>3

\* The caller has no token and the server is shared: one more look.
LEMMA FallsBackInv ==
    ASSUME Inv, NEW c \in Calls, call[c].pc = "token", ~ForDrive(c), node.shared,
           CallAt(c, "fallback"), UNCHANGED <<NodeOthers, node>>
    PROVE  Inv'
<1>1. /\ UNCHANGED <<cast, server, flow, codes, cb, issued, tok, remote, faults, raced, lost, node>>
      /\ Active(c) /\ TypeOK
  BY DEF NodeOthers, LoopOthers, Active, Inv
<1>2. /\ call' \in [Calls -> CallType] /\ call'[c].grant = call[c].grant
      /\ call'[c].pc = "fallback" /\ call'[c].effects = call[c].effects
      /\ \A d \in Calls : d # c => call'[d] = call[d]
  BY <1>1, CallPc
<1>3. CallInv' /\ TokenOfTheRightUser'
  BY <1>1, <1>2, ActiveFacts, CallMoves DEF Active, RightToken, Falls, ForDrive
<1>4. HoldInv'
  BY <1>1, <1>2, HoldKept, RowsSame DEF Inv, SameHolders
<1> QED
  BY <1>1, <1>2, <1>3, <1>4 DEF Inv, TypeOK

LEMMA TokenInv ==
    ASSUME Inv, NEW c \in Calls, McpToken(c) \/ McpFallback(c) \/ DriveToken(c) PROVE Inv'
<1>1. CASE McpToken(c)
  <2>1. call[c].pc = "token" /\ ~ForDrive(c) /\ node.user \in Users
    BY <1>1, ActiveFacts DEF McpToken, Active
  <2>2. CASE node.shared /\ CallAt(c, "fallback") /\ UNCHANGED <<NodeOthers, node>>
    BY <2>1, <2>2, FallsBackInv
  <2>3. CASE UseToken(c, FindTokenFor(node.user))
    <3>1. \A g \in FindTokenFor(node.user) : MayUse(c, g)
      BY <2>1, FindFacts DEF MayUse
    <3> QED
      BY <2>1, <2>3, <3>1, UseInv
  <2> QED
    BY <1>1, <2>2, <2>3 DEF McpToken
<1>2. CASE McpFallback(c)
  <2>1. call[c].pc = "fallback" /\ UseToken(c, FindTokenFor(node.owner)) /\ Active(c)
    BY <1>2 DEF McpFallback, Active
  <2>2. ~ForDrive(c) /\ node.shared /\ node.owner \in Users
    BY <2>1, ActiveFacts DEF Falls
  <2>3. \A g \in FindTokenFor(node.owner) : MayUse(c, g)
    BY <2>2, FindFacts DEF MayUse
  <2> QED
    BY <2>1, <2>3, UseInv
<1>3. CASE DriveToken(c)
  <2>1. /\ call[c].pc = "token" /\ ForDrive(c)
        /\ UseToken(c, {g \in {call[c].grant} : tok[g].stored})
    BY <1>3 DEF DriveToken
  <2>2. call[c].grant \in Grants
    BY <2>1, GrantFacts DEF ForDrive, Inv, TypeOK, CallType
  <2>3. \A g \in {h \in {call[c].grant} : tok[h].stored} : MayUse(c, g)
    BY <2>1, <2>2 DEF ForDrive, MayUse
  <2> QED
    BY <2>1, <2>3, UseInv
<1> QED
  BY <1>1, <1>2, <1>3

\* The request itself, a rejection, a timeout.
LEMMA SendInv ==
    ASSUME Inv, NEW c \in Calls, CallSend(c) \/ CallRejected(c) \/ CallTimesOut(c) PROVE Inv'
<1>1. /\ UNCHANGED <<cast, server, flow, codes, cb, issued, tok, raced, lost>>
      /\ call[c].pc = "send" /\ Active(c) /\ TypeOK
  BY DEF CallSend, CallRejected, CallTimesOut, NodeOthers, LoopOthers, Active, Inv
<1>2. Executed(c) \in {0, 1} /\ call[c].effects = 0 /\ call[c] \in CallType
      /\ call \in [Calls -> CallType]
  BY <1>1, ActiveFacts DEF Executed, TypeOK
<1>3. PICK pc \in {"ok", "failed", "token"}, phase \in {"first", "init", "retry"}, n \in {0, 1} :
        /\ call' = [call EXCEPT ![c].pc = pc, ![c].phase = phase, ![c].effects = n]
        /\ pc = "token" => n = 0
  <2>1. CASE CallSend(c)
    <3>1. CASE call[c].phase = "init"
      <4>1. call' = [call EXCEPT ![c].pc = "token", ![c].phase = "retry", ![c].effects = 0]
        BY <1>2, <2>1, <3>1 DEF CallSend, CallType
      <4> QED
        BY <4>1
    <3>2. CASE call[c].phase # "init"
      <4>1. PICK pc \in {"ok", "failed"} :
              call' = [call EXCEPT ![c].pc = pc, ![c].effects = call[c].effects + Executed(c)]
        BY <2>1, <3>2 DEF CallSend
      <4>2. call[c].effects + Executed(c) \in {0, 1}
        BY <1>2
      <4>3. call' = [call EXCEPT ![c].pc = pc, ![c].phase = call[c].phase,
                                 ![c].effects = call[c].effects + Executed(c)]
        BY <1>2, <4>1 DEF CallType
      <4>4. call[c].phase \in {"first", "init", "retry"}
        BY <1>2 DEF CallType
      <4> QED
        BY <4>2, <4>3, <4>4
    <3> QED
      BY <3>1, <3>2
  <2>2. CASE CallRejected(c)
    <3>1. CASE CallAt(c, "failed")
      <4>1. call' = [call EXCEPT ![c].pc = "failed", ![c].phase = call[c].phase, ![c].effects = 0]
        BY <1>2, <3>1 DEF CallAt, CallType
      <4>2. call[c].phase \in {"first", "init", "retry"}
        BY <1>2 DEF CallType
      <4> QED
        BY <4>1, <4>2
    <3>2. CASE ~CallAt(c, "failed")
      <4>1. call' = [call EXCEPT ![c].pc = "token", ![c].phase = "init", ![c].effects = 0]
        BY <1>2, <2>2, <3>2 DEF CallRejected, CallType
      <4> QED
        BY <4>1
    <3> QED
      BY <3>1, <3>2
  <2>3. CASE CallTimesOut(c)
    <3>1. PICK n : /\ call' = [call EXCEPT ![c].pc = "failed", ![c].effects = n]
                   /\ n = call[c].effects \/ n = call[c].effects + Executed(c)
      BY <2>3 DEF CallTimesOut
    <3>2. n \in {0, 1}
      BY <1>2, <3>1
    <3>3. call' = [call EXCEPT ![c].pc = "failed", ![c].phase = call[c].phase, ![c].effects = n]
      BY <1>2, <3>1 DEF CallType
    <3>4. call[c].phase \in {"first", "init", "retry"}
      BY <1>2 DEF CallType
    <3> QED
      BY <3>2, <3>3, <3>4
  <2> QED
    BY <2>1, <2>2, <2>3
<1>4. /\ call' \in [Calls -> CallType]
      /\ call'[c].pc = pc /\ call'[c].grant = call[c].grant /\ call'[c].effects = n
      /\ \A d \in Calls : d # c => call'[d] = call[d]
  <2> DEFINE v == [call[c] EXCEPT !.pc = pc, !.phase = phase, !.effects = n]
  <2>1. n \in Nat
    OBVIOUS
  <2>2. v \in CallType /\ v.pc = pc /\ v.grant = call[c].grant /\ v.effects = n
    BY <1>2, <2>1 DEF CallType
  <2>3. call' = [call EXCEPT ![c] = v]
    BY <1>3
  <2> HIDE DEF v
  <2> QED
    BY <1>2, <2>2, <2>3
<1>5. /\ remote' \in [stateful : BOOLEAN, session : BOOLEAN]
      /\ faults' \in 0..MaxFaults
  <2>1. remote' = remote \/ remote' = [remote EXCEPT !.session = remote.stateful]
    BY DEF CallSend, CallRejected, CallTimesOut, NodeOthers
  <2>2. faults' = faults \/ Fault
    BY DEF CallSend, CallRejected, CallTimesOut, NodeOthers
  <2> QED
    BY <1>1, <2>1, <2>2, Bounds DEF TypeOK, Fault
<1>6. node' = node \/ node' = [node EXCEPT !.session = remote.stateful]
  BY DEF CallSend, CallRejected, CallTimesOut, NodeOthers
<1>7. /\ node' \in NodeType
      /\ node' = node \/ node' = [node EXCEPT !.session = node'.session]
  BY <1>1, <1>6 DEF TypeOK, NodeType
<1>8. CallInv' /\ TokenOfTheRightUser'
  <2>1. ForDrive(c)' <=> ForDrive(c)
    BY <1>4 DEF ForDrive
  <2>2. RightToken(c)'
    BY <1>3, <1>4 DEF RightToken
  <2> QED
    BY <1>1, <1>3, <1>4, <1>7, <2>1, <2>2, ActiveFacts, CallMoves DEF Active, Falls
<1>9. HoldInv'
  BY <1>1, <1>3, <1>4, HoldKept, RowsSame DEF Inv, SameHolders
<1> QED
  BY <1>1, <1>4, <1>5, <1>7, <1>8, <1>9 DEF Inv, TypeOK

\* The provider answers a refresh, or refuses it.
LEMMA RefreshInv ==
    ASSUME Inv, NEW c \in Calls, Refresh(c) PROVE Inv'
<1> PICK g : g = call[c].grant
  OBVIOUS
<1>0. /\ TypeOK /\ HoldInv /\ call[c].pc = "refresh" /\ Active(c) /\ g \in Grants
      /\ call[c].effects = 0 /\ call[c] \in CallType /\ call \in [Calls -> CallType]
      /\ issued[g] \in 0..MaxIssued /\ call[c].read \in 0..MaxIssued
  BY ActiveFacts DEF Inv, Refresh, Active, TypeOK, CallType
<1>1. UNCHANGED <<cast, server, flow, codes, cb, tok, node, remote, faults, lost>>
  BY DEF Refresh, LoopOthers
<1>2. raced' = IF Writers(g) \ {c} # {} THEN raced \cup {g} ELSE raced
  BY DEF Refresh
<1>3. PICK pc \in {"store", "failed"}, got \in 0..MaxIssued :
        /\ call' = [call EXCEPT ![c].pc = pc, ![c].got = got]
        /\ \/ pc = "store" /\ got = issued[g] + 1 /\ issued' = [issued EXCEPT ![g] = issued[g] + 1]
           \/ pc = "store" /\ got = 0 /\ call[c].read = issued[g] /\ issued' = issued
           \/ pc = "failed" /\ issued' = issued
  <2>1. CASE /\ issued[g] < MaxIssued
             /\ issued' = [issued EXCEPT ![g] = issued[g] + 1]
             /\ call' = [call EXCEPT ![c].pc = "store", ![c].got = issued[g] + 1]
    <3>1. issued[g] + 1 \in 0..MaxIssued
      BY <1>0, <2>1, Bounds
    <3> QED
      BY <2>1, <3>1
  <2>2. CASE /\ call[c].read = issued[g] /\ issued' = issued
             /\ call' = [call EXCEPT ![c].pc = "store", ![c].got = 0]
    BY <2>2, Bounds
  <2>3. CASE CallAt(c, "failed") /\ issued' = issued
    <3>1. call[c].got \in 0..MaxIssued
      BY <1>0 DEF CallType
    <3>2. call' = [call EXCEPT ![c].pc = "failed", ![c].got = call[c].got]
      BY <1>0, <2>3 DEF CallAt, CallType
    <3> QED
      BY <2>3, <3>1, <3>2
  <2> QED
    BY <2>1, <2>2, <2>3 DEF Refresh
<1>4. /\ call' \in [Calls -> CallType]
      /\ call'[c].pc = pc /\ call'[c].got = got /\ call'[c].grant = g
      /\ call'[c].read = call[c].read /\ call'[c].effects = 0
      /\ \A d \in Calls : d # c => call'[d] = call[d]
  BY <1>0, <1>3 DEF CallType
<1>5. /\ issued' \in [Grants -> 0..MaxIssued]
      /\ \A h \in Grants : h # g => issued'[h] = issued[h]
      /\ issued'[g] = issued[g] \/ got = issued'[g]
  BY <1>0, <1>3 DEF TypeOK
<1>6. TypeOK'
  BY <1>0, <1>1, <1>2, <1>4, <1>5 DEF TypeOK
<1>7. CallInv' /\ TokenOfTheRightUser'
  <2>1. ForDrive(c)' <=> ForDrive(c)
    BY <1>4 DEF ForDrive
  <2>2. RightToken(c)'
    BY <1>0, <1>1, <1>4, <2>1, ActiveFacts DEF RightToken
  <2> QED
    BY <1>0, <1>1, <1>3, <1>4, <2>1, <2>2, ActiveFacts, CallMoves DEF Active, Falls
<1>8. ASSUME NEW h \in Grants, h # g
      PROVE  /\ \A b \in Callbacks : HoldsCb(b, h)' <=> HoldsCb(b, h)
             /\ \A d \in Calls : HoldsCall(d, h)' <=> HoldsCall(d, h)
             /\ \A d \in Calls : HoldsCall(d, h) => call'[d] = call[d]
  BY <1>0, <1>1, <1>4, <1>8 DEF HoldsCb, HoldsCall
<1>9. ASSUME NEW h \in Grants, h \notin raced', h # g
      PROVE  /\ OneHolder(h)' /\ HolderIsNewest(h)'
             /\ h \notin lost => RowIsKept(h)'
  <2>1. h \notin raced /\ issued'[h] = issued[h]
    BY <1>2, <1>5, <1>9
  <2>2. OneHolder(h)' /\ HolderIsNewest(h)'
    BY <1>0, <1>1, <1>8, <1>9, <2>1 DEF HoldInv, OneHolder, HolderIsNewest
  <2>3. h \notin lost => RowIsKept(h)'
    BY <1>0, <1>1, <1>8, <1>9, <2>1 DEF HoldInv, RowIsKept, RowIsNewest, Nobody
  <2> QED
    BY <2>2, <2>3
<1>10. ASSUME g \notin raced'
       PROVE  /\ OneHolder(g)' /\ HolderIsNewest(g)'
              /\ g \notin lost => RowIsKept(g)'
  <2>1. Writers(g) \subseteq {c} /\ g \notin raced
    BY <1>2, <1>10
  <2>2. Nobody(g)
    BY <1>0, <2>1, Bounds DEF Writers, Nobody, HoldsCb, HoldsCall
  <2>3. /\ \A b \in Callbacks : ~HoldsCb(b, g)'
        /\ \A d \in Calls : HoldsCall(d, g)' <=> d = c /\ pc = "store"
    BY <1>1, <1>4, <2>2 DEF Nobody, HoldsCb, HoldsCall
  <2>4. OneHolder(g)'
    BY <2>3 DEF OneHolder
  <2>5. HolderIsNewest(g)'
    BY <1>0, <1>3, <1>4, <1>5, <2>3 DEF HolderIsNewest, TypeOK
  <2>6. ASSUME g \notin lost PROVE RowIsKept(g)'
    <3>1. RowIsNewest(g)
      BY <1>0, <2>1, <2>2, <2>6 DEF HoldInv, RowIsKept
    <3>2. CASE issued' = issued
      BY <1>1, <3>1, <3>2 DEF RowIsKept, RowIsNewest
    <3>3. CASE issued' # issued
      <4>1. pc = "store" /\ got # 0
        BY <1>0, <1>3, <3>3
      <4> QED
        BY <1>4, <2>3, <4>1 DEF RowIsKept, Nobody
    <3> QED
      BY <3>2, <3>3
  <2> QED
    BY <2>4, <2>5, <2>6
<1>11. HoldInv'
  BY <1>0, <1>1, <1>9, <1>10 DEF HoldInv, NoRowNoToken
<1> QED
  BY <1>6, <1>7, <1>11 DEF Inv

\* The holder updates the row, if it is still there.
LEMMA StoreInv ==
    ASSUME Inv, NEW c \in Calls, NEW refresh, UpdateToken(c, refresh),
           \/ refresh = IF call[c].got # 0 THEN call[c].got ELSE call[c].read
           \/ refresh = IF call[c].got # 0 THEN call[c].got ELSE tok[call[c].grant].refresh
    PROVE  Inv'
<1> PICK g : g = call[c].grant
  OBVIOUS
<1>0. /\ TypeOK /\ HoldInv /\ call[c].pc = "store" /\ Active(c) /\ g \in Grants
      /\ HoldsCall(c, g) /\ call[c].effects = 0 /\ call[c] \in CallType
  BY ActiveFacts DEF Inv, UpdateToken, Active, TypeOK, HoldsCall
<1>1. UNCHANGED <<cast, server, flow, codes, cb, issued, node, remote, faults, raced, lost>>
  BY DEF UpdateToken, LoopOthers
<1>2. tok \in [Grants -> TokenType] /\ tok[g] \in TokenType /\ tok[g].refresh \in 0..MaxIssued
      /\ refresh \in 0..MaxIssued
  BY <1>0 DEF TypeOK, TokenType, CallType
<1>3. PICK pc \in {"send", "failed"} : CallAt(c, pc)
  BY DEF UpdateToken
<1>4. /\ call' \in [Calls -> CallType]
      /\ call'[c].pc = pc /\ call'[c].grant = g /\ call'[c].effects = 0
      /\ \A d \in Calls : d # c => call'[d] = call[d]
  BY <1>0, <1>3, CallPc
<1>5. /\ tok' \in [Grants -> TokenType]
      /\ \A h \in Grants : tok'[h].stored = tok[h].stored
      /\ \A h \in Grants : h # g => tok'[h].refresh = tok[h].refresh
      /\ tok[g].stored => tok'[g].refresh = refresh
      /\ ~tok[g].stored => tok'[g].refresh = 0
  <2>1. CASE tok[g].stored
    <3>1. tok' = [tok EXCEPT ![g].fresh = TRUE, ![g].refresh = refresh]
      BY <2>1 DEF UpdateToken
    <3> QED
      BY <1>0, <1>2, <2>1, <3>1 DEF TokenType
  <2>2. CASE ~tok[g].stored
    <3>1. tok' = tok
      BY <2>2 DEF UpdateToken
    <3> QED
      BY <1>0, <1>2, <2>2, <3>1 DEF HoldInv, NoRowNoToken
  <2> QED
    BY <2>1, <2>2
<1>6. TypeOK'
  BY <1>0, <1>1, <1>4, <1>5 DEF TypeOK
<1>7. CallInv' /\ TokenOfTheRightUser'
  <2>1. ForDrive(c)' <=> ForDrive(c)
    BY <1>4 DEF ForDrive
  <2>2. RightToken(c)'
    BY <1>0, <1>1, <1>4, <2>1, ActiveFacts DEF RightToken
  <2> QED
    BY <1>0, <1>1, <1>3, <1>4, <2>1, <2>2, ActiveFacts, CallMoves DEF Active, Falls
<1>8. NoRowNoToken'
  BY <1>0, <1>5 DEF HoldInv, NoRowNoToken
<1>9. ASSUME NEW h \in Grants
      PROVE  /\ \A b \in Callbacks : HoldsCb(b, h)' <=> HoldsCb(b, h)
             /\ \A d \in Calls : HoldsCall(d, h)' <=> HoldsCall(d, h) /\ d # c
             /\ \A d \in Calls : HoldsCall(d, h)' => call'[d] = call[d]
  BY <1>1, <1>3, <1>4 DEF HoldsCb, HoldsCall
<1>10. ASSUME NEW h \in Grants, h \notin raced
       PROVE  OneHolder(h)' /\ HolderIsNewest(h)'
  BY <1>0, <1>1, <1>9, <1>10 DEF HoldInv, OneHolder, HolderIsNewest
<1>11. ASSUME NEW h \in Grants, h \notin raced, h \notin lost
       PROVE  RowIsKept(h)'
  <2>1. RowIsKept(h) /\ HolderIsNewest(h)
    BY <1>0, <1>11 DEF HoldInv
  <2>2. CASE h # g
    <3>1. ~HoldsCall(c, h)
      BY <2>2 DEF HoldsCall
    <3> QED
      BY <1>1, <1>5, <1>9, <2>1, <2>2, <3>1 DEF RowIsKept, RowIsNewest, Nobody
  <2>3. CASE h = g
    <3>1. CASE ~tok[g].stored
      BY <1>5, <2>3, <3>1 DEF RowIsKept, RowIsNewest
    <3>2. CASE tok[g].stored
      <4>1. refresh = 0 \/ refresh = issued[g]
        <5>1. CASE call[c].got # 0
          BY <1>0, <2>1, <2>3, <5>1 DEF HolderIsNewest
        <5>2. CASE call[c].got = 0
          <6>1. call[c].read = issued[g]
            BY <1>0, <2>1, <2>3, <5>2 DEF HolderIsNewest
          <6>2. tok[g].refresh = 0 \/ tok[g].refresh = issued[g]
            BY <1>0, <2>1, <2>3, <5>2 DEF RowIsKept, RowIsNewest
          <6> QED
            BY <5>2, <6>1, <6>2
        <5> QED
          BY <5>1, <5>2
      <4> QED
        BY <1>1, <1>5, <2>3, <3>2, <4>1 DEF RowIsKept, RowIsNewest
    <3> QED
      BY <3>1, <3>2
  <2> QED
    BY <2>2, <2>3
<1>12. HoldInv'
  BY <1>1, <1>8, <1>10, <1>11 DEF HoldInv
<1> QED
  BY <1>6, <1>7, <1>12 DEF Inv

\* A refresh raises: what the provider issued is lost.
LEMMA RefreshRaisesInv ==
    ASSUME Inv, NEW c \in Calls, RefreshRaises(c) PROVE Inv'
<1> PICK g : g = call[c].grant
  OBVIOUS
<1>0. /\ TypeOK /\ HoldInv /\ call[c].pc \in {"refresh", "store"} /\ Active(c) /\ g \in Grants
      /\ call[c].effects = 0 /\ CallAt(c, "failed") /\ Fault
  BY ActiveFacts DEF Inv, RefreshRaises, Active
<1>1. /\ UNCHANGED <<cast, server, flow, codes, cb, issued, tok, node, remote, raced>>
      /\ lost' = IF call[c].pc = "store" /\ call[c].got # 0 THEN lost \cup {g} ELSE lost
  BY DEF RefreshRaises, LoopOthers
<1>2. /\ call' \in [Calls -> CallType]
      /\ call'[c].pc = "failed" /\ call'[c].effects = 0
      /\ \A d \in Calls : d # c => call'[d] = call[d]
  BY <1>0, CallPc
<1>3. faults' \in 0..MaxFaults /\ lost' \subseteq Grants /\ lost \subseteq lost'
  BY <1>0, <1>1, Bounds DEF TypeOK, Fault
<1>4. TypeOK'
  BY <1>0, <1>1, <1>2, <1>3 DEF TypeOK
<1>5. CallInv' /\ TokenOfTheRightUser'
  BY <1>0, <1>1, <1>2, CallMoves DEF Active, RightToken, Falls
<1>6. ASSUME NEW h \in Grants
      PROVE  /\ \A b \in Callbacks : HoldsCb(b, h)' <=> HoldsCb(b, h)
             /\ \A d \in Calls : HoldsCall(d, h)' <=> HoldsCall(d, h) /\ d # c
             /\ \A d \in Calls : HoldsCall(d, h)' => call'[d] = call[d]
  BY <1>1, <1>2 DEF HoldsCb, HoldsCall
<1>7. ASSUME NEW h \in Grants, h \notin raced
      PROVE  OneHolder(h)' /\ HolderIsNewest(h)'
  BY <1>0, <1>1, <1>6, <1>7 DEF HoldInv, OneHolder, HolderIsNewest
<1>8. ASSUME NEW h \in Grants, h \notin raced, h \notin lost'
      PROVE  RowIsKept(h)'
  <2>1. RowIsKept(h)
    BY <1>0, <1>3, <1>8 DEF HoldInv
  <2>2. HoldsCall(c, h) => call[c].got = 0
    BY <1>0, <1>1, <1>8 DEF HoldsCall
  <2> QED
    BY <1>1, <1>6, <2>1, <2>2 DEF RowIsKept, RowIsNewest, Nobody
<1>9. HoldInv'
  BY <1>0, <1>1, <1>7, <1>8 DEF HoldInv, NoRowNoToken
<1> QED
  BY <1>4, <1>5, <1>9 DEF Inv

\* The process dies: the new refresh tokens of its calls are lost.
LEMMA WorkerDiesInv == ASSUME Inv, WorkerDies PROVE Inv'
<1>0. TypeOK /\ HoldInv /\ GrantsNamed
  BY DEF Inv, CallInv
<1>1. /\ UNCHANGED <<cast, server, flow, codes, cb, issued, tok, remote, raced>>
      /\ lost' = lost \cup {call[c].grant : c \in {d \in Calls : call[d].pc = "store" /\ call[d].got # 0}}
      /\ call' = NoCalls
      /\ Fault
  BY DEF WorkerDies, LoopOthers
<1>2. /\ call' \in [Calls -> CallType]
      /\ \A c \in Calls : call'[c].pc = "idle" /\ call'[c].effects = 0
  BY <1>1, IdleCallFacts DEF NoCalls
<1>3. PICK pc \in {"idle", "failed"} :
        node' = [node EXCEPT !.pc = pc] /\ (pc = "idle" <=> node.pc = "idle")
  BY DEF WorkerDies
<1>4. /\ node' \in NodeType /\ node'.pc = pc
      /\ node'.user = node.user /\ node'.owner = node.owner /\ node'.shared = node.shared
  BY <1>0, <1>3, NodePc DEF TypeOK
<1>5. faults' \in 0..MaxFaults
  BY <1>0, <1>1, Bounds DEF TypeOK, Fault
<1>6. lost' \subseteq Grants
  BY <1>0, <1>1 DEF TypeOK, GrantsNamed
<1>7. TypeOK'
  BY <1>0, <1>1, <1>2, <1>4, <1>5, <1>6 DEF TypeOK
<1>8. CallInv' /\ TokenOfTheRightUser'
  BY <1>1, <1>2, <1>3, <1>4
     DEF Inv, CallInv, NodeKnows, CallsOfNode, ThinksAlone, CarriedOut, GrantsNamed, Active,
         FallsBack, Falls, TokenOfTheRightUser
<1>9. ASSUME NEW h \in Grants
      PROVE  /\ \A b \in Callbacks : HoldsCb(b, h)' <=> HoldsCb(b, h)
             /\ \A d \in Calls : ~HoldsCall(d, h)'
  BY <1>1, <1>2 DEF HoldsCb, HoldsCall
<1>10. ASSUME NEW h \in Grants, h \notin raced
       PROVE  OneHolder(h)' /\ HolderIsNewest(h)'
  BY <1>0, <1>1, <1>9, <1>10 DEF HoldInv, OneHolder, HolderIsNewest
<1>11. ASSUME NEW h \in Grants, h \notin raced, h \notin lost'
       PROVE  RowIsKept(h)'
  <2>1. RowIsKept(h) /\ \A d \in Calls : HoldsCall(d, h) => call[d].got = 0
    BY <1>0, <1>1, <1>11 DEF HoldInv, HoldsCall
  <2> QED
    BY <1>1, <1>9, <2>1 DEF RowIsKept, RowIsNewest, Nobody
<1>12. HoldInv'
  BY <1>0, <1>1, <1>10, <1>11 DEF HoldInv, NoRowNoToken
<1> QED
  BY <1>7, <1>8, <1>12 DEF Inv

LEMMA QuietInv == ASSUME Inv, RemoteRestarts \/ UNCHANGED vars PROVE Inv'
<1>1. UNCHANGED <<cast, server, flow, codes, cb, issued, tok, call, node, raced, lost>>
  BY DEF RemoteRestarts, LoopOthers, vars
<1>2. remote' \in [stateful : BOOLEAN, session : BOOLEAN] /\ faults' \in 0..MaxFaults
  <2>1. remote' = remote \/ remote' = [remote EXCEPT !.session = FALSE]
    BY DEF RemoteRestarts, vars
  <2>2. faults' = faults \/ Fault
    BY DEF RemoteRestarts, vars
  <2>3. remote \in [stateful : BOOLEAN, session : BOOLEAN]
    BY DEF Inv, TypeOK
  <2>4. [remote EXCEPT !.session = FALSE] \in [stateful : BOOLEAN, session : BOOLEAN]
    BY <2>3
  <2>5. faults' \in 0..MaxFaults
    BY <2>2, Bounds DEF Inv, TypeOK, Fault
  <2> QED
    BY <2>1, <2>3, <2>4, <2>5
<1>3. HoldInv'
  BY <1>1, HoldKept, RowsSame DEF Inv, SameHolders
<1>4. CallInv' /\ TokenOfTheRightUser'
  BY <1>1, CallsKept DEF Inv, CallInv, GrantsNamed
<1> QED
  BY <1>1, <1>2, <1>3, <1>4 DEF Inv, TypeOK

LEMMA NextInv == Inv /\ [Next]_vars => Inv'
<1> SUFFICES ASSUME Inv, [Next]_vars PROVE Inv'
  OBVIOUS
<1>1. ASSUME NEW c \in Calls, McpStore(c) \/ DriveStore(c) PROVE Inv'
  BY <1>1, StoreInv DEF McpStore, DriveStore
<1>2. ASSUME NEW c \in Calls, McpRefresh(c) \/ DriveRefresh(c) PROVE Inv'
  BY <1>2, RefreshInv DEF McpRefresh, DriveRefresh
<1>3. CASE NodeStep
  BY <1>1, <1>2, <1>3, TurnInv, CallsToolsInv, AnswerInv, TokenInv, SendInv DEF NodeStep
<1>4. ASSUME NEW u \in Users, ResolveForNode(u) \/ ResolveByNames(u) \/ ResolveSingle(u) PROVE Inv'
  BY <1>4, ResolveInv DEF ResolveForNode, ResolveByNames, ResolveSingle
<1> QED
  BY <1>3, <1>4, ServerInv, FlowInv, DriveBeginInv, SendInv, RefreshRaisesInv, WorkerDiesInv, QuietInv
     DEF Next

-----------------------------------------------------------------------------
\* The values that the server row, the token rows and the requests take.
THEOREM ConnectionTypesCorrect == Spec => []TypeOK
<1>1. Inv => TypeOK
  BY DEF Inv
<1> QED
  BY <1>1, InitInv, NextInv, PTL DEF Spec

\* However callbacks, refreshes, disconnects, lost answers and deaths interleave,
\* the stored refresh token is the newest one the provider issued, unless two
\* requests wrote the row at once, or the newest was issued and never stored: the
\* provider's answer was lost, the write of the row raised, or the process died.
THEOREM RefreshTokenStaysCurrent == Spec => []RefreshTokenIsCurrent
<1>1. Inv => RefreshTokenIsCurrent
  <2> SUFFICES ASSUME Inv, NEW g \in Grants, g \notin raced, g \notin lost,
                      tok[g].refresh # 0, Writers(g) = {}
               PROVE  tok[g].refresh = issued[g]
    BY DEF RefreshTokenIsCurrent
  <2>1. Nobody(g)
    BY DEF Writers, Nobody, HoldsCb, HoldsCall
  <2> QED
    BY <2>1 DEF Inv, HoldInv, RowIsKept, RowIsNewest
<1> QED
  BY <1>1, InitInv, NextInv, PTL DEF Spec

\* For any number of concurrent tool calls, rejections, restarts and timeouts,
\* _rpc has the server carry out a tool call once at most.
THEOREM ToolCallsRunOnce == Spec => []ToolCallRunsOnce
<1>1. Inv => ToolCallRunsOnce
  BY DEF Inv, CallInv, CarriedOut, ToolCallRunsOnce
<1> QED
  BY <1>1, InitInv, NextInv, PTL DEF Spec

\* Whatever becomes of the server's owner and sharing while a node runs, every
\* request carries the caller's token or, when the server was shared as the
\* node resolved it, that of the owner it had then.
THEOREM TokensOfTheRightUser == Spec => []TokenOfTheRightUser
<1>1. Inv => TokenOfTheRightUser
  BY DEF Inv
<1> QED
  BY <1>1, InitInv, NextInv, PTL DEF Spec

\* The action property: only an upsert of a callback brings a row into being.
LEMMA RowsFromUpserts ==
    ASSUME Inv, [Next]_vars, NEW g \in Grants, ~tok[g].stored, tok'[g].stored
    PROVE  \E b \in Callbacks : cb[b].grant = g /\ cb[b].pc = "granted" /\ cb'[b].pc = "idle"
<1>0. tok \in [Grants -> TokenType] /\ cb \in [Callbacks -> CallbackType] /\ TypeOK
  BY DEF Inv, TypeOK
<1>1. tok' # tok
  OBVIOUS
<1>2. ASSUME NEW b \in Callbacks, NEW h \in Grants, Upsert(b, h)
      PROVE  cb[b].grant = g /\ cb[b].pc = "granted" /\ cb'[b].pc = "idle"
  <2>1. h = g
    BY <1>0, <1>2 DEF Upsert
  <2>2. cb'[b].pc = "idle"
    BY <1>0, <1>2, CallbackPc DEF Upsert, CallbackAt
  <2> QED
    BY <1>2, <2>1, <2>2 DEF Upsert
<1>3. ASSUME NEW h \in Grants, Age(h) PROVE FALSE
  BY <1>0, <1>3 DEF Age, TokenType
<1>4. ASSUME NEW u \in Users, Disconnect(u) PROVE FALSE
  BY <1>0, <1>4 DEF Disconnect, NoToken
<1>5. ASSUME NEW c \in Calls, NEW refresh, UpdateToken(c, refresh) PROVE FALSE
  BY <1>0, <1>5 DEF UpdateToken, TokenType
<1>6. \/ (\E b \in Callbacks, h \in Grants : Upsert(b, h))
      \/ (\E h \in Grants : Age(h)) \/ (\E u \in Users : Disconnect(u))
      \/ (\E c \in Calls : McpStore(c) \/ DriveStore(c))
  <2>1. CASE FlowStep
    BY <1>1, <2>1, GrantFacts
       DEF FlowStep, Expire, OauthAuthorize, DriveAuthorize, Consented, OauthCallback, DriveCallback,
           Begin, OauthUpsert, DriveUpsert, OauthValidate, OauthConsume, OauthExchange,
           DriveExchange, Exchange, CallbackDies
  <2>2. CASE NodeStep
    BY <1>1, <2>2
       DEF NodeStep, NodeListed, ToolReturns, NodeAnswers, FormatOutput, NodeCallsTools,
           NodeToolsReturn, NodeExceeds, McpToken, McpFallback, McpRefresh, DriveToken, DriveRefresh,
           UseToken, Refresh, CallSend, CallRejected, NodeOthers
  <2>3. ~ServerStep
    BY <1>1 DEF ServerStep, UpdateOauthConfig, AssignOwner, SetShared, DeleteServer,
                TestConnection, CreateServer, Change, ServerOthers
  <2> QED
    BY <1>1, <2>1, <2>2, <2>3
       DEF Next, ResolveForNode, ResolveByNames, ResolveSingle, Resolve, DriveBegin, CallTimesOut,
           RefreshRaises, WorkerDies, RemoteRestarts, NodeOthers, LoopOthers, vars
<1> QED
  BY <1>2, <1>3, <1>4, <1>5, <1>6 DEF McpStore, DriveStore

\* After oauth_disconnect a token row comes back only from a callback that has
\* completed an authorization, whatever refreshes were under way.
THEOREM RowsComeFromCallbacks == Spec => RowsComeFromGrants
<1>1. Inv /\ [Next]_vars =>
        [\A g \in Grants : ~tok[g].stored /\ tok'[g].stored =>
           \E b \in Callbacks : cb[b].grant = g /\ cb[b].pc = "granted" /\ cb'[b].pc = "idle"]_vars
  BY RowsFromUpserts
<1> QED
  BY <1>1, InitInv, NextInv, PTL DEF Spec, RowsComeFromGrants
==============================================================================
