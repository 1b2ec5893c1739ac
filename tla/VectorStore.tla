----------------------------- MODULE VectorStore -----------------------------
(***************************************************************************)
(* The vector-db node (src/executors/vector_db.py), the embedding          *)
(* providers (src/vectordb/embedding.py) and the five vector stores        *)
(* (src/vectordb/providers/), on one collection.                           *)
(*                                                                         *)
(* A text is a sequence of characters: 0 is white space, and the           *)
(* characters of a document are otherwise distinct.                        *)
(***************************************************************************)
EXTENDS NodeHost, FiniteSetsExt, SequencesExt

VARIABLE index       \* the collection: records [id, doc, fields]

Upserters == {"upsert"}
Providers == {"pinecone", "qdrant", "weaviate", "milvus", "chroma"}

\* The configuration of the two operations.  An id of the caller's is no hash.
IsItem(x) == x.id = None \/ x.id \in {"id"} \X Seq(Nat)
VectorConfig(n) ==
    /\ Is(n, {"upsert", "query"}) /\ n.provider \in Providers
    /\ Is(n, Upserters) =>
          /\ n.docs.shape = "string" => n.docs.text \in Seq(Nat) /\ {n.docs.size, n.docs.overlap} \subseteq Int
          /\ n.docs.shape = "list" =>
                LET items == n.docs.items IN
                Len(items) \in Nat /\ DOMAIN items = 1..Len(items) /\ \A i \in DOMAIN items : IsItem(items[i])

Blank(text) == \A i \in DOMAIN text : text[i] = 0

-----------------------------------------------------------------------------
(* Documents and chunks.                                                   *)

\* _chunk_string: windows of size characters begin every size - overlap.
Windows(text, size, overlap) ==
    LET step == size - overlap IN
    [i \in 1..((Len(text) + step - 1) \div step) |->
        SubSeq(text, (i - 1) * step + 1, Min({(i - 1) * step + size, Len(text)}))]

\* Documents become chunks: a function on the places they have among the windows
\* or items, in whose order they are embedded and sent.
Chunk(text) == [id |-> None, text |-> text, meta |-> <<>>]

\* Blank windows are skipped.
ChunkString(text, size, overlap) ==
    LET windows == Windows(text, size, overlap) IN
    [i \in {k \in DOMAIN windows : ~Blank(windows[k])} |-> Chunk(windows[i])]

\* A size or an overlap out of range, or documents of another shape: neither a
\* text nor a list, or a list with an item that is neither a text nor a record.
ChunkingRaises(n) ==
    \/ n.docs.shape \notin {"string", "list", "none"}
    \/ n.docs.shape = "string" /\ (n.docs.size <= 0 \/ n.docs.overlap < 0 \/ n.docs.overlap >= n.docs.size)

\* _coerce_to_chunks: a string is cut up, the items of a list that have text
\* are taken as they are, nothing gives nothing.
Chunks(n) ==
    CASE ChunkingRaises(n) \/ n.docs.shape = "none" -> <<>>
      [] ~ChunkingRaises(n) /\ n.docs.shape = "string" -> ChunkString(n.docs.text, n.docs.size, n.docs.overlap)
      [] n.docs.shape = "list" -> [i \in {k \in DOMAIN n.docs.items : ~Blank(n.docs.items[k].text)} |-> n.docs.items[i]]

-----------------------------------------------------------------------------
(* Embedding.                                                              *)

\* _embed: the node's key, or the one in the settings for its provider.
EmbeddingKey(n) == n.key \/ n.embedding \in n.settings

\* embed_text_openai_compatible: a custom provider needs its base URL.
EmbedsOpenAi(n) == n.embedding = "openai" \/ (n.embedding = "custom" /\ n.url)
\* embed_text_cohere and embed_text_pinecone_inference: always have one.
EmbedsCohere(n) == n.embedding = "cohere"
EmbedsPinecone(n) == n.embedding = "pinecone-inference"

\* embed_text: an unknown provider raises.
CanEmbed(n) ==
    /\ EmbeddingKey(n)
    /\ EmbedsOpenAi(n) \/ EmbedsCohere(n) \/ EmbedsPinecone(n)

-----------------------------------------------------------------------------
(* The stores.  fields is what the store keeps beside the vector: the      *)
(* metadata, a function from field names, with the text under text_field.  *)

TextField(n) == IF n.textField = None THEN "text" ELSE n.textField
\* The first of these fields that is there; the empty text without any.
FirstOf(fields, keys) ==
    LET there == {i \in DOMAIN keys : keys[i] \in DOMAIN fields} IN
    IF there = {} THEN <<>> ELSE fields[keys[Min(there)]]
Under(key, value) == [k \in {key} |-> value]
\* f, with g where f is silent.
Filled(f, g) == [k \in DOMAIN f \cup DOMAIN g |-> IF k \in DOMAIN f THEN f[k] ELSE g[k]]

RandomId(chunk, run) == IF chunk.id # None THEN chunk.id ELSE <<"uuid", run, chunk.text>>

\* The caller's id, or one computed from the text alone.
IdOf(chunk, run) == IF chunk.id # None THEN chunk.id ELSE <<"hash", chunk.text>>

\* Writing by id what was taken of what was sent: the last record under an id is
\* the one that stays.
Overwrite(stored, sent, took) ==
    LET ids == {sent[i].id : i \in took}
        last(id) == sent[Max({i \in took : sent[i].id = id})] IN
    SetToSeq({stored[i] : i \in {k \in DOMAIN stored : stored[k].id \notin ids}} \cup {last(id) : id \in ids})

\* pinecone.upsert: the text wins over a metadata field of the same name.
PineconeFields(n, chunk) == Filled(Under(TextField(n), chunk.text), chunk.meta)
\* qdrant.upsert
QdrantFields(n, chunk) == Filled(Under(TextField(n), chunk.text), chunk.meta)
\* weaviate.upsert
WeaviateFields(n, chunk) == Filled(Under(TextField(n), chunk.text), chunk.meta)
\* milvus.upsert: metadata is added with setdefault.
MilvusFields(n, chunk) == Filled(Under(TextField(n), chunk.text), chunk.meta)
\* chroma.upsert: the text is the document, the metadata stays as it is.
ChromaFields(n, chunk) ==
    IF DOMAIN chunk.meta = {} THEN Under("_source", <<0>>) ELSE chunk.meta

FieldsOf(n, chunk) ==
    CASE n.provider = "pinecone" -> PineconeFields(n, chunk)
      [] n.provider = "qdrant"   -> QdrantFields(n, chunk)
      [] n.provider = "weaviate" -> WeaviateFields(n, chunk)
      [] n.provider = "milvus"   -> MilvusFields(n, chunk)
      [] n.provider = "chroma"   -> ChromaFields(n, chunk)

\* The records for the chunks, place by place.
Sent(n) ==
    [i \in DOMAIN Chunks(n) |->
        [id |-> IdOf(Chunks(n)[i], node[n].run), doc |-> Chunks(n)[i].text,
         fields |-> FieldsOf(n, Chunks(n)[i])]]

\* What a query reads as the text of a record, store by store.
PineconeText(n, r) == FirstOf(r.fields, <<TextField(n), "content">>)
QdrantText(n, r) == FirstOf(r.fields, <<TextField(n), "content", "page_content">>)
WeaviateText(n, r) == FirstOf(r.fields, <<TextField(n), "content", "page_content">>)
MilvusText(n, r) == FirstOf(r.fields, <<TextField(n), "content">>)
ChromaText(n, r) ==
    IF n.textField # None /\ n.textField \in DOMAIN r.fields THEN r.fields[n.textField] ELSE r.doc

TextOf(n, r) ==
    CASE n.provider = "pinecone" -> PineconeText(n, r)
      [] n.provider = "qdrant"   -> QdrantText(n, r)
      [] n.provider = "weaviate" -> WeaviateText(n, r)
      [] n.provider = "milvus"   -> MilvusText(n, r)
      [] n.provider = "chroma"   -> ChromaText(n, r)

-----------------------------------------------------------------------------
(* upsert.                                                                 *)

\* _run_upsert: configuration, the documents expression, the chunks.
StartUpsert(n) ==
    /\ At(n, "start")
    /\ Is(n, {"upsert"})
    /\ IF n.endpoint /\ ~ChunkingRaises(n) /\ DOMAIN Chunks(n) # {}
       THEN Become(n, [node[n] EXCEPT !.pc = "embed", !.saw = DOMAIN Chunks(n)])
       ELSE Raise(n)
    /\ UNCHANGED <<cast, deaths, index>>

\* One chunk after the other is embedded; one failure and nothing is written.
\* saw has the places of those that are still to come.
EmbedChunk(n) ==
    /\ At(n, "embed")
    /\ Is(n, {"upsert"})
    /\ \/ /\ CanEmbed(n)
          /\ LET rest == node[n].saw \ {Min(node[n].saw)} IN
             Become(n, [node[n] EXCEPT !.saw = rest, !.pc = IF rest = {} THEN "store" ELSE "embed"])
       \/ Raise(n)
    /\ UNCHANGED <<cast, deaths, index>>

\* The node reports the ids of what was taken, or the answer is lost.
Upserted(n, ids) == Return(n, [ids |-> ids])
Answered(n, ids) == Upserted(n, ids) \/ Raise(n)
SentIds(n) == {Sent(n)[i].id : i \in DOMAIN Sent(n)}

\* pinecone, qdrant and chroma write by id and take all or nothing.
StoreById(n) ==
    /\ At(n, "store")
    /\ n.provider \in {"pinecone", "qdrant", "chroma"}
    /\ \/ index' = Overwrite(index, Sent(n), DOMAIN Sent(n)) /\ Answered(n, SentIds(n))
       \/ Raise(n) /\ UNCHANGED index
    /\ UNCHANGED <<cast, deaths>>

FirstIds(n, took) ==
    {Sent(n)[i].id : i \in {k \in DOMAIN Sent(n) : Cardinality({j \in DOMAIN Sent(n) : j <= k}) <= Cardinality(took)}}

\* weaviate answers object by object; results are matched by position.  (Of an
\* answer that is no list every id is reported: taken to mean that all are stored.)
IdsTaken(n, took) == {Sent(n)[i].id : i \in took}

StoreInWeaviate(n) ==
    /\ At(n, "store")
    /\ n.provider = "weaviate"
    /\ \/ \E took \in SUBSET DOMAIN Sent(n) :
             index' = Overwrite(index, Sent(n), took) /\ Answered(n, IdsTaken(n, took))
       \/ Raise(n) /\ UNCHANGED index
    /\ UNCHANGED <<cast, deaths>>

\* milvus inserts: records under an id that is there already are added to it.
\* A failure that comes as HTTP 200 with a code raises like any other.
InsertInMilvus(n) ==
    LET places == SetToSeq(DOMAIN Sent(n)) IN
    /\ At(n, "store")
    /\ n.provider = "milvus"
    /\ \/ index' = index \o [k \in DOMAIN places |-> Sent(n)[places[k]]] /\ Answered(n, SentIds(n))
       \/ Raise(n) /\ UNCHANGED index
    /\ UNCHANGED <<cast, deaths>>

-----------------------------------------------------------------------------
(* query.                                                                  *)

\* _run_query: configuration, then the prompt is embedded.
StartQuery(n) ==
    /\ At(n, "start")
    /\ Is(n, {"query"})
    /\ IF n.endpoint /\ n.prompt /\ CanEmbed(n) THEN Goto(n, "query") \/ Raise(n)
       ELSE Raise(n)
    /\ UNCHANGED <<cast, deaths, index>>

\* The filter as the store applies it: one that is not a JSON object is left
\* out, and milvus leaves it out always.
FilterApplies(n) == n.filter = "object" /\ n.provider # "milvus"
Matching(n) ==
    {i \in DOMAIN index : ~FilterApplies(n) \/ "tag" \in DOMAIN index[i].fields}

\* At most top_k records come back; a threshold above zero drops some more.
Query(n) ==
    /\ At(n, "query")
    /\ \/ \E found \in {f \in SUBSET Matching(n) : Cardinality(f) = Min({n.topK, Cardinality(Matching(n))})} :
          \E near \in IF n.threshold THEN SUBSET found ELSE {found} :
             Return(n, [texts |-> {TextOf(n, index[i]) : i \in near},
                        tagged |-> \A i \in near : "tag" \in DOMAIN index[i].fields])
       \/ Raise(n)
    /\ UNCHANGED <<cast, deaths, index>>

-----------------------------------------------------------------------------
VectorStep(n) ==
    \/ StartUpsert(n) \/ EmbedChunk(n)
    \/ StoreById(n) \/ StoreInWeaviate(n) \/ InsertInMilvus(n)
    \/ StartQuery(n) \/ Query(n)

Upserts == {n \in cast : Is(n, Upserters)}

\* A node that is run again after its worker died, or another node with the
\* same content, does not store a chunk twice: without an id of the caller's a
\* chunk has one record (the "stable hash" of the providers).  Milvus, which
\* is sent inserts, is left out here and is the subject of
\* RerunOverwritesEverywhere.
OneRecord == \A i, j \in DOMAIN index : index[i].id = index[j].id => i = j
RerunOverwrites ==
    (\A n \in Upserts : n.provider # "milvus") =>
       /\ OneRecord
       /\ \A i, j \in DOMAIN index :
             /\ index[i].doc = index[j].doc
             /\ \A n \in Upserts : \A k \in DOMAIN Chunks(n) : Chunks(n)[k].id = None
             => i = j

\* The same of Milvus, whose ids are hashed from the text "so re-upserts are
\* stable".
RerunOverwritesEverywhere == OneRecord

\* A completed upsert reports ids that are in the store, only those, and the
\* store holds the text of the documents under them from the first character
\* to the last (weaviate may have refused some objects, which are then not
\* reported).
ReportedIsStored ==
    \A n \in Upserts : At(n, "completed") =>
       /\ \A id \in node[n].out.ids : \E i \in DOMAIN index : index[i].id = id
       /\ n.docs.shape = "string" /\ n.provider # "weaviate" =>
             \A p \in DOMAIN n.docs.text :
                n.docs.text[p] # 0 => \E i \in DOMAIN index : n.docs.text[p] \in ToSet(index[i].doc)

\* Nodes that agree on the store and its text field, and whose chunks have no
\* field of that name that chroma would take for the text.
SameCollection(n, m) ==
    /\ n.provider = m.provider /\ TextField(n) = TextField(m)
    /\ n.provider = "chroma" => n.textField = None \/ \A k \in DOMAIN Chunks(m) :
                                                      n.textField \notin DOMAIN ChromaFields(m, Chunks(m)[k])

\* What a query returns as text is the text of a chunk that an upsert sent,
\* whatever the metadata beside it is called, and a filter that the store
\* applies is respected.
ReadsBackChunks ==
    \A n \in cast : Is(n, {"query"}) /\ At(n, "completed") =>
       /\ (\A m \in Upserts : SameCollection(n, m)) =>
             \A text \in node[n].out.texts : \E m \in Upserts : \E k \in DOMAIN Chunks(m) : Chunks(m)[k].text = text
       /\ FilterApplies(n) => node[n].out.tagged

\* What goes into a vector store comes out again: reported ids are stored, the
\* documents are there in full, and a query gives their texts back.
StoreIsFaithful == ReportedIsStored /\ ReadsBackChunks
=============================================================================
