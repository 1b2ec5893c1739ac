---------------------------- MODULE ProviderKeys ----------------------------
(***************************************************************************)
(* The API key of one LLM or tool provider: the row that administrators    *)
(* write (src/api/admin_llm_keys.py), the copy in the Settings of every    *)
(* running instance that the executors read, and the boot-time sync        *)
(* (src/security/key_sync.py).                                             *)
(***************************************************************************)
EXTENDS Accounts

CONSTANTS
    Instances,    \* running instances of the API
    MaxBoots      \* bound on restarts

VARIABLES
    llm,          \* the encrypted key in llm_api_keys, or None
    env,          \* the key in the deployment's environment, or None
    setting,      \* each instance's settings.<provider>_api_key
    boots         \* restarts so far

keyVars == <<llm, env, setting, boots>>

LlmOps == {"put_llm_key", "delete_llm_key"}
KeyValues == {None, "k1", "k2", "k3"}

\* upsert_llm_key and delete_llm_key look the row up before they write.
FindLlmKey(r) ==
    /\ At(r, "role")
    /\ r.op \in LlmOps
    /\ IF r.op = "delete_llm_key" /\ llm = None THEN Goto(r, "refused")
       ELSE GotoSeeing(r, "found", IF llm = None THEN "create" ELSE "update")
    /\ UNCHANGED <<cast, users, keys, tokens, keyVars>>

\* upsert_llm_key: create fails on the unique provider; an update of a row
\* that has gone meanwhile returns None.
StoreLlmKey(r) ==
    /\ At(r, "found")
    /\ r.op = "put_llm_key"
    /\ IF req[r].saw = "create" /\ llm # None THEN Goto(r, "error") /\ UNCHANGED llm
       ELSE IF req[r].saw = "update" /\ llm = None
            THEN GotoSeeing(r, "stored", "no row") /\ UNCHANGED llm
       ELSE llm' = r.arg /\ Goto(r, "stored")
    /\ UNCHANGED <<cast, users, keys, tokens, env, setting, boots>>

\* delete_llm_key: deleting a row that has gone meanwhile returns None.
DeleteLlmKey(r) ==
    /\ At(r, "found")
    /\ r.op = "delete_llm_key"
    /\ llm' = None
    /\ Goto(r, "stored")
    /\ UNCHANGED <<cast, users, keys, tokens, env, setting, boots>>

ApplySettingPutOnly(r) ==
    /\ At(r, "stored")
    /\ setting' = IF r.op = "put_llm_key" THEN [setting EXCEPT ![r.at] = r.arg] ELSE setting
    /\ Goto(r, IF req[r].saw = "no row" THEN "error" ELSE "ok")
    /\ UNCHANGED <<cast, users, keys, tokens, llm, env, boots>>

\* The handler resumes on its instance: the running Settings follow, and the
\* answer is built from the row (an exception when there is none).
ApplySetting(r) ==
    /\ At(r, "stored")
    /\ setting' = [setting EXCEPT ![r.at] = IF r.op = "put_llm_key" THEN r.arg ELSE None]
    /\ Goto(r, IF req[r].saw = "no row" THEN "error" ELSE "ok")
    /\ UNCHANGED <<cast, users, keys, tokens, llm, env, boots>>

\* sync_llm_keys_from_db: the environment wins, the row fills an empty field.
Synced == IF env # None THEN env ELSE llm

\* An instance restarts: its requests are gone, its Settings are rebuilt.
Boot(i) ==
    /\ boots < MaxBoots
    /\ boots' = boots + 1
    /\ setting' = [setting EXCEPT ![i] = Synced]
    /\ req' = [r \in cast |-> IF r.op \in LlmOps /\ r.at = i
                                  /\ req[r].pc \notin Final \cup {"idle"}
                              THEN [req[r] EXCEPT !.pc = "dead"] ELSE req[r]]
    /\ UNCHANGED <<cast, users, keys, tokens, llm, env>>

KeyStep(r) == FindLlmKey(r) \/ StoreLlmKey(r) \/ DeleteLlmKey(r) \/ ApplySetting(r)

KeyTypeOK ==
    /\ llm \in KeyValues
    /\ env \in {None, "k3"}
    /\ setting \in [Instances -> KeyValues]
    /\ boots \in 0..MaxBoots
=============================================================================
