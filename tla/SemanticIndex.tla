---------------------------- MODULE SemanticIndex ----------------------------
(***************************************************************************)
(* Semantic retrieval of an inspection: the inspection process asks the    *)
(* p40-retrieval service for an index of the state of the repository,      *)
(* uploads what the service lacks in batches, and searches.                *)
(*                                                                         *)
(*   workers/rag-compression/gpu_client.py           ensure, search        *)
(*   workers/rag-compression/inspection_pipeline.py  sync manifest, plan   *)
(*   workers/gpu-service/main.py    RetrievalServiceAdapter                *)
(*                                                                         *)
(* The service handles requests concurrently (ThreadingHTTPServer) and     *)
(* locks nothing: a record in memory, the files of an index and the file   *)
(* of vectors are changed by whoever comes.  A step ends where a request   *)
(* waits for the embedding runtime, changes a file, or is answered.        *)
(*                                                                         *)
(* Abstractions.  A document stands for its id, its text and its vector    *)
(* (an edited chunk has a new id); a fingerprint stands for a state of the *)
(* repository.  One model, one shard of the vector file.  The file of a    *)
(* whole index is never written, since every record has what               *)
(* _can_reconstruct_index_from_status asks for; segments, scores and the   *)
(* older formats of the files are left out.  A request whose client has    *)
(* given up is not modelled: a client is killed between two requests.      *)
(***************************************************************************)
EXTENDS Naturals, Sequences, FiniteSets, Functions

CONSTANTS
    Clients,     \* inspections that run at the same time
    Fps,         \* index fingerprints: the states of the repository
    Docs,        \* [Fps -> Seq of documents], in the order of the chunks
    BatchSize,   \* documents in an upload request
    Faiss,       \* TRUE: FAISS is installed; FALSE: NumPy alone
    Faults,      \* what may go wrong: "restart" (of the service), "loss" (the
                 \* same, on a node without its cache directory), "kill" (of
                 \* an inspection), "embed" (a call of the runtime fails)
    MaxFaults    \* bound: faults

Doc == UNION {Range(Docs[f]) : f \in Fps}

\* The documents of s that are not in gone, in their order: the k-th of them is
\* the one with k of those that are kept up to it.
Without(s, gone) ==
    LET kept == {i \in DOMAIN s : s[i] \notin gone}
    IN [k \in 1 .. Cardinality(kept) |->
            s[CHOOSE i \in kept : Cardinality({j \in kept : j <= i}) = k]]

NoFp == "none"

ASSUME SemanticAssumption ==
    /\ Docs \in [Fps -> Seq(Doc)] /\ \A f \in Fps : Docs[f] # <<>> /\ IsInjective(Docs[f])
    /\ BatchSize \in Nat \ {0} /\ Faiss \in BOOLEAN
    /\ MaxFaults \in Nat /\ NoFp \notin Fps
    /\ Faults \subseteq {"restart", "loss", "kill", "embed"}

VARIABLES
    status,    \* the status file of each index: whether ready, the ids
    rows,      \* the matrix (or FAISS) file of each index
    alias,     \* the alias file of each index
    shard,     \* the documents in the file of vectors
    index,     \* indexes: the records in memory
    found,     \* _search_indexes: what a search has loaded from the files
    vectors,   \* _vector_cache
    shardMem,  \* _vector_cache_files; {} when nothing was loaded
    manifest,  \* the semantic sync manifest of the clients
    client,    \* the inspections, each with the request it has under way
    faults

files == <<status, rows, alias>>
memory == <<index, found>>
store == <<shard, vectors, shardMem>>
vars == <<status, rows, alias, shard, index, found, vectors, shardMem, manifest, client, faults>>

NoFile == [kind |-> "none", ready |-> FALSE, ids |-> <<>>]
StatusFile(ready, ids) == [kind |-> "file", ready |-> ready, ids |-> ids]

\* A record of indexes; rows is the search state prepared from its documents.
NoRecord == [kind |-> "none", ready |-> FALSE, docs |-> <<>>, rows |-> <<>>]
Record(ready, docs) == [kind |-> "record", ready |-> ready, docs |-> docs, rows |-> <<>>]

Idle == [pc |-> "idle", fp |-> NoFp, base |-> NoFp, plan |-> <<>>, removed |-> {}, first |-> FALSE,
         reused |-> FALSE, own |-> NoRecord, missing |-> {}, persisted |-> {}, copy |-> NoFile,
         answer |-> {}, out |-> "none"]

Init ==
    /\ status = [f \in Fps |-> NoFile] /\ rows = [f \in Fps |-> <<>>] /\ alias = [f \in Fps |-> NoFp]
    /\ index = [f \in Fps |-> NoRecord] /\ found = [f \in Fps |-> [ids |-> <<>>, rows |-> <<>>]]
    /\ shard = {} /\ vectors = {} /\ shardMem = {}
    /\ manifest = NoFp
    /\ client = [c \in Clients |-> Idle]
    /\ faults = 0

-----------------------------------------------------------------------------
(* What the service reads.                                                 *)

\* The fingerprints met from f on, when a reader goes on from those in pass to
\* where their alias leads, and gives up when it meets one again.
Chain(f, pass) ==
    {g \in Fps : \A S \in SUBSET Fps :
                    f \in S /\ (\A h \in S \cap pass : alias[h] \in S) => g \in S}
Ends(f, pass) == Chain(f, pass) \ pass

\* _load_status_cache: the file, or that of the source of the alias.
StatusOf(f) ==
    LET ends == Ends(f, {g \in Fps : status[g] = NoFile /\ alias[g] # NoFp})
    IN IF ends = {} THEN NoFile ELSE status[CHOOSE g \in ends : TRUE]

\* _load_matrix_cache follows the alias, _load_faiss_cache does not.
RowsOf(f) ==
    LET ends == Ends(f, {g \in Fps : rows[g] = <<>> /\ alias[g] # NoFp /\ ~Faiss})
    IN IF ends = {} THEN <<>> ELSE rows[CHOOSE g \in ends : TRUE]

\* _load_vector_cache_file: the shard is read once, then its copy is used.
LoadedShard == IF shardMem = {} THEN shard ELSE shardMem

\* _get_vector_cache
KnownVectors == vectors \cup LoadedShard

\* _get_index: in memory, or rebuilt from the status file and the vectors.
IndexOf(f) ==
    IF index[f] # NoRecord THEN index[f]
    ELSE IF /\ status[f].ready /\ status[f].ids # <<>>
            /\ Range(status[f].ids) \subseteq KnownVectors
         THEN Record(TRUE, status[f].ids)
    ELSE NoRecord

\* _load_cache: an alias leads to an index file that does not exist, and goes.
Aliased(f) == LET pass == {g \in Fps : alias[g] # NoFp} IN Chain(f, pass) \cap pass
LoadIndex(f) ==
    /\ index[f] = NoRecord
    /\ alias' = [g \in Fps |-> IF g \in Aliased(f) THEN NoFp ELSE alias[g]]
    /\ IF status[f].ready
       THEN /\ shardMem' = LoadedShard
            /\ vectors' = KnownVectors
       ELSE UNCHANGED <<shardMem, vectors>>

\* _get_index_status and index_status
IsReady(f) ==
    IF index[f] # NoRecord THEN index[f].ready /\ Len(index[f].docs) = Len(Docs[f])
    ELSE StatusOf(f).ready /\ Len(StatusOf(f).ids) = Len(Docs[f])

-----------------------------------------------------------------------------
(* The inspection: gpu_semantic_retrieval, ensure_semantic_index.          *)

At(c, pc) == client[c].pc = pc
Then(c, local) == client' = [client EXCEPT ![c] = local]
Goto(c, pc) == [client[c] EXCEPT !.pc = pc]
End(c, out) == Then(c, [Idle EXCEPT !.fp = client[c].fp, !.out = out])
ServiceAlone == UNCHANGED <<files, memory, store, faults>>

\* The batches of an upload; one that carries removals or a base may be empty.
Batches(docs, carries) ==
    LET n == (Len(docs) + BatchSize - 1) \div BatchSize IN
    IF n = 0 /\ carries THEN << <<>> >>
    ELSE [i \in 1 .. n |-> SubSeq(docs, (i - 1) * BatchSize + 1,
                                  IF i = n THEN Len(docs) ELSE i * BatchSize)]

\* _load_semantic_sync_manifest, _semantic_sync_plan
Begin(c, f) ==
    /\ At(c, "idle")
    /\ Then(c, [Idle EXCEPT !.pc = "status", !.fp = f, !.base = IF manifest = f THEN NoFp ELSE manifest])
    /\ UNCHANGED manifest /\ ServiceAlone

FullUpload(c) ==
    [Goto(c, "open") EXCEPT !.base = NoFp, !.removed = {}, !.first = TRUE,
                            !.plan = Batches(Docs[client[c].fp], FALSE)]

\* Mutant: the removed documents are not named.
MutantDeltaUpload(c) ==
    LET old == Range(Docs[client[c].base]) IN
    [Goto(c, "open") EXCEPT
        !.first = TRUE, !.plan = Batches(Without(Docs[client[c].fp], old), TRUE)]

DeltaUpload(c) ==
    LET new == Docs[client[c].fp]
        old == Range(Docs[client[c].base])
    IN [Goto(c, "open") EXCEPT !.first = TRUE, !.removed = old \ Range(new),
                               !.plan = Batches(Without(new, old), TRUE)]

CheckStatus(c) ==
    /\ At(c, "status")
    /\ Then(c, IF IsReady(client[c].fp) THEN Goto(c, "manifest")
               ELSE IF client[c].base = NoFp THEN FullUpload(c) ELSE DeltaUpload(c))
    /\ UNCHANGED manifest /\ ServiceAlone

CheckFinalized(c) ==
    /\ At(c, "finalized")
    /\ IF IsReady(client[c].fp) THEN Then(c, Goto(c, "manifest")) ELSE End(c, "degraded")
    /\ UNCHANGED manifest /\ ServiceAlone

WriteManifest(c) ==
    /\ At(c, "manifest")
    /\ manifest' = client[c].fp
    /\ Then(c, Goto(c, "search"))
    /\ ServiceAlone

\* Mutant: the upload ends with the delta although there was no base.
MutantAccepted(c, reused) ==
    LET rest == Tail(client[c].plan)
        after == [client[c] EXCEPT !.own = NoRecord, !.copy = NoFile, !.removed = {}, !.first = FALSE]
    IN IF rest # <<>>
       THEN [after EXCEPT !.pc = "open", !.plan = rest, !.reused = reused]
       ELSE [after EXCEPT !.pc = "finalized", !.plan = <<>>, !.reused = FALSE]

\* A batch was accepted: the next one, or all documents if the base was of no use.
Accepted(c, reused) ==
    LET rest == Tail(client[c].plan)
        after == [client[c] EXCEPT !.own = NoRecord, !.copy = NoFile, !.removed = {}, !.first = FALSE]
    IN IF rest # <<>>
       THEN [after EXCEPT !.pc = "open", !.plan = rest, !.reused = reused]
       ELSE IF client[c].base # NoFp /\ ~reused
       THEN [after EXCEPT !.pc = "open", !.plan = Batches(Docs[client[c].fp], FALSE),
                          !.first = TRUE, !.base = NoFp, !.reused = FALSE]
       ELSE [after EXCEPT !.pc = "finalized", !.plan = <<>>, !.reused = FALSE]

-----------------------------------------------------------------------------
(* The service: index_upsert.                                              *)

Batch(c) == Range(Head(client[c].plan))
Final(c) == Len(client[c].plan) = 1

\* The record a request works on.  Another request may have replaced it in
\* indexes; this one then goes on with the record it holds.
Held(c) == IF client[c].own # NoRecord THEN client[c].own ELSE index[client[c].fp]
Holds(c, f) == client[c].fp = f /\ client[c].pc \in {"embed", "store", "merge", "alias", "copy", "file", "rows"}

\* replace: a new record, from the documents of the base if that is ready.
Replace(c, local) ==
    LET f == client[c].fp
        base == client[c].base
        from == IF base = NoFp THEN NoRecord ELSE IndexOf(base)
        kept == IF from.ready THEN Without(from.docs, client[c].removed) ELSE <<>>
    IN /\ index' = [g \in Fps |-> IF g = f THEN Record(FALSE, kept)
                                  ELSE IF g = base THEN from ELSE index[g]]
       /\ IF base # NoFp /\ index[base] = NoRecord
          THEN LoadIndex(base)
          ELSE UNCHANGED <<alias, vectors, shardMem>>
       /\ client' = [d \in Clients |->
                        IF d = c THEN [local EXCEPT !.reused = from.ready]
                        ELSE IF Holds(d, f) /\ client[d].own = NoRecord
                        THEN [client[d] EXCEPT !.own = index[f]]
                        ELSE client[d]]

\* Without replace the record of the fingerprint, or a new one (setdefault).
Continue(c, local) ==
    LET f == client[c].fp IN
    /\ index' = [index EXCEPT ![f] = IF index[f] = NoRecord THEN Record(FALSE, <<>>) ELSE index[f]]
    /\ Then(c, local)
    /\ UNCHANGED <<alias, vectors, shardMem>>

Open(c) ==
    LET missing == Batch(c) \ KnownVectors
        local == [Goto(c, IF missing = {} THEN "merge" ELSE "embed") EXCEPT !.missing = missing]
    IN /\ At(c, "open")
       /\ IF client[c].first THEN Replace(c, local) ELSE Continue(c, local)
       /\ found' = [found EXCEPT ![client[c].fp] = [ids |-> <<>>, rows |-> <<>>]]
       /\ UNCHANGED <<status, rows, shard, manifest, faults>>

\* The runtime has answered; _write_vector_cache_batch reads the shard ...
Embed(c) ==
    /\ At(c, "embed")
    /\ Then(c, [Goto(c, "store") EXCEPT !.persisted = LoadedShard \cup client[c].missing, !.missing = {}])
    /\ vectors' = KnownVectors \cup client[c].missing
    /\ UNCHANGED <<files, memory, shard, shardMem, manifest, faults>>

\* ... and writes it with the new vectors.
Store(c) ==
    /\ At(c, "store")
    /\ shard' = client[c].persisted /\ shardMem' = client[c].persisted
    /\ Then(c, [Goto(c, "merge") EXCEPT !.persisted = {}])
    /\ UNCHANGED <<files, memory, vectors, manifest, faults>>

Merge(c) ==
    LET have == Held(c).docs
        docs == have \o Without(Head(client[c].plan), Range(have))
        rec == IF Final(c) THEN [Record(TRUE, docs) EXCEPT !.rows = docs] ELSE Record(Held(c).ready, docs)
        clone == client[c].reused /\ client[c].first /\ client[c].removed = {} /\ Batch(c) = {}
    IN /\ At(c, "merge")
       /\ index' = IF client[c].own = NoRecord THEN [index EXCEPT ![client[c].fp] = rec] ELSE index
       /\ Then(c, IF Final(c)
                  THEN [Goto(c, IF clone THEN "alias" ELSE "file") EXCEPT
                           !.own = IF @ = NoRecord THEN NoRecord ELSE rec]
                  ELSE Accepted(c, client[c].reused))
       /\ UNCHANGED <<files, found, store, manifest, faults>>

\* _clone_cache: an alias to the base, and a copy of its status.
WriteAlias(c) ==
    LET base == client[c].base
        read == StatusOf(base)
        copy == IF read # NoFile THEN read
                ELSE IF IndexOf(base) # NoRecord
                THEN StatusFile(IndexOf(base).ready, IndexOf(base).docs)
                ELSE NoFile
    IN /\ At(c, "alias")
       /\ IF copy = NoFile
          THEN Then(c, Goto(c, "file")) /\ UNCHANGED alias
          ELSE /\ Then(c, [Goto(c, "copy") EXCEPT !.copy = copy])
               /\ alias' = [alias EXCEPT ![client[c].fp] = base]
       /\ UNCHANGED <<status, rows, memory, store, manifest, faults>>

CopyStatus(c) ==
    /\ At(c, "copy")
    /\ status' = [status EXCEPT ![client[c].fp] = client[c].copy]
    /\ Then(c, Accepted(c, client[c].reused))
    /\ UNCHANGED <<rows, alias, memory, store, manifest, faults>>

\* Mutant: the ids are written in the order of the chunks.
MutantWriteStatus(c) ==
    LET f == client[c].fp
        ids == Without(Docs[f], Doc \ Range(Held(c).docs))
    IN /\ At(c, "file")
       /\ alias' = [alias EXCEPT ![f] = NoFp]
       /\ status' = [status EXCEPT ![f] = StatusFile(Held(c).ready, ids)]
       /\ Then(c, Goto(c, "rows"))
       /\ UNCHANGED <<rows, memory, store, manifest, faults>>

\* _write_cache: the alias goes, then the status is written, ...
WriteStatus(c) ==
    LET f == client[c].fp IN
    /\ At(c, "file")
    /\ alias' = [alias EXCEPT ![f] = NoFp]
    /\ status' = [status EXCEPT ![f] = StatusFile(Held(c).ready, Held(c).docs)]
    /\ Then(c, Goto(c, "rows"))
    /\ UNCHANGED <<rows, memory, store, manifest, faults>>

\* ... then the rows; a record without search state has no file of rows.
WriteRows(c) ==
    /\ At(c, "rows")
    /\ rows' = [rows EXCEPT ![client[c].fp] = Held(c).rows]
    /\ Then(c, Accepted(c, client[c].reused))
    /\ UNCHANGED <<status, alias, memory, store, manifest, faults>>

-----------------------------------------------------------------------------
(* The service: search.  Position i of the ids is paired with row i.       *)

Pairs(ids, matrix) ==
    {<<ids[i], matrix[i]>> : i \in DOMAIN ids \cap DOMAIN matrix}

\* semantic_search accepts ids of the repository state it asked about.
Answered(c, pairs) ==
    LET f == client[c].fp IN
    IF pairs # {} /\ \A p \in pairs : p[1] \in Range(Docs[f])
    THEN Then(c, [Idle EXCEPT !.fp = f, !.out = "gpu", !.answer = pairs])
    ELSE End(c, "degraded")

\* Mutant: a record is searched before it is finalized.
MutantSearchRecord(c) ==
    LET f == client[c].fp
        order == IF index[f].rows # <<>> THEN index[f].rows ELSE index[f].docs
    IN /\ At(c, "search") /\ index[f] # NoRecord
       /\ index' = [index EXCEPT ![f].rows = order]
       /\ Answered(c, Pairs(order, order))
       /\ UNCHANGED <<files, found, store, manifest, faults>>

SearchRecord(c) ==
    LET f == client[c].fp
        order == IF index[f].rows # <<>> THEN index[f].rows ELSE index[f].docs
    IN /\ At(c, "search") /\ index[f] # NoRecord
       /\ IF index[f].ready
          THEN /\ index' = [index EXCEPT ![f].rows = order]
               /\ Answered(c, Pairs(order, order))
          ELSE End(c, "degraded") /\ UNCHANGED index
       /\ UNCHANGED <<files, found, store, manifest, faults>>

\* _get_search_index: what the files say, kept for the next search.  NumPy
\* raises when there are fewer rows than ids; FAISS never returns such an id.
SearchFiles(c) ==
    LET f == client[c].fp
        read == StatusOf(f)
        kept == IF found[f].ids # <<>> THEN found[f] ELSE [ids |-> read.ids, rows |-> RowsOf(f)]
    IN /\ At(c, "search") /\ index[f] = NoRecord
       /\ found[f].ids # <<>> \/ (read.ready /\ read.ids # <<>> /\ RowsOf(f) # <<>>)
       /\ found' = [found EXCEPT ![f] = kept]
       /\ IF Faiss \/ Len(kept.rows) >= Len(kept.ids)
          THEN \E some \in IF Len(kept.rows) > Len(kept.ids) /\ Faiss
                         THEN SUBSET Pairs(kept.ids, kept.rows) ELSE {Pairs(kept.ids, kept.rows)} :
                  Answered(c, some)
          ELSE End(c, "degraded")
       /\ UNCHANGED <<files, index, store, manifest, faults>>

SearchRebuilt(c) ==
    LET f == client[c].fp
        record == IndexOf(f)
    IN /\ At(c, "search") /\ index[f] = NoRecord /\ found[f].ids = <<>>
       /\ ~(StatusOf(f).ready /\ StatusOf(f).ids # <<>> /\ RowsOf(f) # <<>>)
       /\ LoadIndex(f)
       /\ index' = [index EXCEPT ![f] = [record EXCEPT !.rows = record.docs]]
       /\ Answered(c, Pairs(record.docs, record.docs))
       /\ UNCHANGED <<status, rows, shard, found, manifest, faults>>

-----------------------------------------------------------------------------
(* Faults.                                                                 *)

Strike(kind) == kind \in Faults /\ faults < MaxFaults /\ faults' = faults + 1

\* UpstreamJSONClient.post raises: the request is answered with 502.
EmbedFails(c) ==
    /\ Strike("embed") /\ client[c].pc \in {"embed", "search"}
    /\ End(c, "degraded")
    /\ UNCHANGED <<files, memory, store, manifest>>

Kill(c) ==
    /\ Strike("kill") /\ client[c].pc \in {"status", "open", "finalized", "manifest", "search"}
    /\ End(c, "degraded")
    /\ UNCHANGED <<files, memory, store, manifest>>

\* The service dies and is replaced.
Restart(kind) ==
    /\ Strike(kind)
    /\ index' = [f \in Fps |-> NoRecord] /\ found' = [f \in Fps |-> [ids |-> <<>>, rows |-> <<>>]]
    /\ vectors' = {} /\ shardMem' = {}
    /\ client' = [c \in Clients |->
                    IF Holds(c, client[c].fp) THEN [Idle EXCEPT !.fp = client[c].fp, !.out = "degraded"]
                    ELSE client[c]]
    /\ IF kind = "loss"
       THEN /\ status' = [f \in Fps |-> NoFile] /\ rows' = [f \in Fps |-> <<>>]
            /\ alias' = [f \in Fps |-> NoFp] /\ shard' = {}
       ELSE UNCHANGED <<files, shard>>
    /\ UNCHANGED manifest

-----------------------------------------------------------------------------
ClientStep(c) == CheckStatus(c) \/ CheckFinalized(c) \/ WriteManifest(c)
ServiceStep(c) ==
    Open(c) \/ Embed(c) \/ Store(c) \/ Merge(c) \/ WriteAlias(c) \/ CopyStatus(c)
        \/ WriteStatus(c) \/ WriteRows(c) \/ SearchRecord(c) \/ SearchFiles(c) \/ SearchRebuilt(c)

Next ==
    \/ \E c \in Clients : (\E f \in Fps : Begin(c, f)) \/ ClientStep(c) \/ ServiceStep(c)
    \/ \E c \in Clients : EmbedFails(c) \/ Kill(c)
    \/ Restart("restart") \/ Restart("loss")

Spec == Init /\ [][Next]_vars
Fairness == \A c \in Clients : WF_vars(ClientStep(c)) /\ WF_vars(ServiceStep(c))
FairSpec == Spec /\ Fairness

-----------------------------------------------------------------------------
(* Properties.                                                             *)

FileType == [kind : {"none", "file"}, ready : BOOLEAN, ids : Seq(Doc)]
RecordType == [kind : {"none", "record"}, ready : BOOLEAN, docs : Seq(Doc), rows : Seq(Doc)]
ClientType ==
    [pc : {"idle", "status", "open", "embed", "store", "merge", "alias", "copy", "file", "rows",
           "finalized", "manifest", "search"},
     fp : Fps \cup {NoFp}, base : Fps \cup {NoFp}, plan : Seq(Seq(Doc)), removed : SUBSET Doc,
     first : BOOLEAN, reused : BOOLEAN, own : RecordType, missing : SUBSET Doc,
     persisted : SUBSET Doc, copy : FileType, answer : SUBSET (Doc \X Doc),
     out : {"none", "gpu", "degraded"}]

\* Every variable stays in its domain, and no list of ids names a document
\* twice (by_id of index_upsert).
SemTypeOK ==
    /\ status \in [Fps -> FileType] /\ rows \in [Fps -> Seq(Doc)] /\ alias \in [Fps -> Fps \cup {NoFp}]
    /\ shard \subseteq Doc /\ vectors \subseteq Doc /\ shardMem \subseteq Doc
    /\ index \in [Fps -> RecordType] /\ found \in [Fps -> [ids : Seq(Doc), rows : Seq(Doc)]]
    /\ manifest \in Fps \cup {NoFp} /\ faults \in 0 .. MaxFaults
    /\ client \in [Clients -> ClientType]
    /\ \A f \in Fps : IsInjective(status[f].ids) /\ IsInjective(index[f].docs)

\* An index the service calls ready for a document count holds the documents
\* of that fingerprint, whatever it was built from: a base that somebody else
\* was still uploading, the leftovers of a request that died, an alias.
\* index_status compares the count alone.
ReadyIsComplete ==
    \A f \in Fps : IsReady(f) =>
        Range(IF index[f] # NoRecord THEN index[f].docs ELSE StatusOf(f).ids) = Range(Docs[f])

\* A score belongs to the chunk it is reported for: ids and rows come from
\* two files, each written on its own and found through aliases of their own.
AnswerIsAligned == \A c \in Clients : \A p \in client[c].answer : p[1] = p[2]

\* An inspection that goes on with GPU candidates has had every chunk of the
\* repository compared; there is a request between the check of the count and
\* the search, and another inspection may be replacing the index.
AnswerIsWhole ==
    \A c \in Clients :
        client[c].out = "gpu" => {p[1] : p \in client[c].answer} = Range(Docs[client[c].fp])

\* What a status file calls ready can be rebuilt after a restart: the vectors
\* of its documents were written before it (_get_index).
StatusIsBacked == \A f \in Fps : status[f].ready => Range(status[f].ids) \subseteq shard

\* A repository that keeps being inspected gets GPU retrieval again, whatever
\* a dead service, a lost cache or a killed inspection has left behind.
RetrievalRecovers ==
    \A f \in Fps :
        []<>(\E c \in Clients : At(c, "status") /\ client[c].fp = f)
            => []<>(\E c \in Clients : client[c].fp = f /\ client[c].out = "gpu")
=============================================================================
