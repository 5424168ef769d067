--------------------------- MODULE InspectionQuery ---------------------------
(***************************************************************************)
(* One question put to inspect_repo again and again: what is taken from    *)
(* the query-stage cache, what is retrieved, ranked and synthesised anew,  *)
(* and what is released.                                                   *)
(*                                                                         *)
(*   workers/rag-compression/inspection_hotpath.py   prefetched state      *)
(*   workers/rag-compression/inspection_pipeline.py  run_inspection        *)
(*   workers/rag-compression/gpu_client.py           endpoint selection    *)
(*                                                                         *)
(* Several processes share the cache directory: warm daemons, which keep   *)
(* their process caches from job to job, and batch workers, which are      *)
(* daemons killed after a job.  A step ends where a process reads the      *)
(* list of services, waits for a service, or has written a file.           *)
(*                                                                         *)
(* Abstractions.  One query, one set of budgets, one build configuration,  *)
(* one cache directory (shared, legacy and local paths are one), and       *)
(* nothing is pruned.  Evidence stands for ranked, selected and evidence:  *)
(* the state of the repository it quotes, how it was found and the job     *)
(* that found it.  An answer is the job whose evidence it was synthesised  *)
(* from.  The chunks kept under an index fingerprint are those it was      *)
(* computed from (ChunkIndex looks into that), and the semantic index      *)
(* answers or fails (SemanticIndex looks into that).  The early process    *)
(* cache holds a part of the process cache, under the same values.         *)
(***************************************************************************)
EXTENDS Naturals, FiniteSets

CONSTANTS
    Processes,
    Fps,          \* states of the repository, by fingerprint
    Empty,        \* those without a file that can be indexed
    Modes,        \* subset of {"evidence", "auto", "answer"}
    Categories,   \* of failed synthesis: "transient", "capacity", "rejected"
    OnDemand,     \* TRUE: a service that is missing is requested from the broker
    EditsAnytime, \* TRUE: the repository may change while jobs are under way
    MaxJobs,      \* bound: jobs
    MaxEdits,     \* bound: changes of the repository
    MaxFaults     \* bound: failed calls, services that go or come, kills

ASSUME QueryAssumption ==
    /\ Empty \subseteq Fps /\ Modes \subseteq {"evidence", "auto", "answer"}
    /\ Categories \subseteq {"transient", "capacity", "rejected"}
    /\ OnDemand \in BOOLEAN /\ EditsAnytime \in BOOLEAN
    /\ {MaxJobs, MaxEdits, MaxFaults} \subseteq Nat

VARIABLES
    tree,     \* the state of the repository
    edits,
    up,       \* a healthy p40-retrieval endpoint that searches and reranks
    faults,
    stage,    \* query-stage files, by index fingerprint and signature
    alias,    \* query-stage alias files, by fingerprint and signature
    snapshot, \* chunk snapshots: the state a fingerprint was chunked from
    states,   \* _PREFETCH_STATE_CACHE of each process
    repos,    \* _PREFETCH_REPO_STATE_CACHE of each process
    jobs,     \* jobs submitted
    job       \* the job of each process

env == <<tree, edits, up>>
files == <<stage, alias, snapshot>>
memory == <<states, repos>>
vars == <<tree, edits, up, faults, stage, alias, snapshot, states, repos, jobs, job>>

Sigs == {"gpu", "lexical"}
NoFp == "none"
NoIndex == <<NoFp, NoFp>>

\* inspection_index_fingerprint: of the fingerprint and of the chunks.
Index == Fps \X Fps

NoEvidence == [of |-> NoFp, retrieval |-> "failed", rerank |-> "unavailable", by |-> 0]
Backed(e) == e.retrieval = "gpu" /\ e.rerank = "gpu"

\* Files and caches hold what was put into them, by key.
Nothing == [k \in {} |-> 0]
Get(f, k, default) == IF k \in DOMAIN f THEN f[k] ELSE default
Put(f, k, v) == [x \in DOMAIN f \cup {k} |-> IF x = k THEN v ELSE f[x]]

NoStage == [evidence |-> NoEvidence, answer |-> 0]
NoAlias == [index |-> NoIndex, released |-> NoEvidence]

\* _query_stage_cache_key and _query_stage_cache_alias_key
StageKey(index, sig) == <<index, sig>>
MutantAliasKey(label, sig) == <<CHOOSE f \in Fps : TRUE, sig>>
AliasKey(label, sig) == <<label, sig>>

\* What prepare_prefetched_state hands to run_inspection.
NotPrefetched == [stage |-> NoStage, index |-> NoIndex, sig |-> "lexical", probed |-> FALSE, verify |-> FALSE]
NotCached == [NotPrefetched EXCEPT !.sig = "none"]

NoJob == [pc |-> "idle", number |-> 0, mode |-> "auto", label |-> NoFp, pre |-> NotPrefetched,
          sig |-> "lexical", index |-> NoIndex, found |-> NoStage, tier |-> "none", try |-> 0,
          last |-> "none", answer |-> 0, released |-> FALSE, then |-> "none", outage |-> FALSE,
          result |-> "none"]

Init ==
    /\ tree \in Fps /\ edits = 0 /\ up \in BOOLEAN /\ faults = 0
    /\ stage = Nothing /\ alias = Nothing /\ snapshot = Nothing
    /\ states = [p \in Processes |-> Nothing] /\ repos = [p \in Processes |-> Nothing]
    /\ jobs = 0
    /\ job = [p \in Processes |-> NoJob]

At(p, pc) == job[p].pc = pc
Set(p, local) == job' = [job EXCEPT ![p] = local]
Goto(p, pc) == [job[p] EXCEPT !.pc = pc]

\* Of a job that has ended, what was released remains.
Ended(j) ==
    [NoJob EXCEPT !.pc = "done", !.mode = j.mode, !.label = j.label, !.found = j.found,
                  !.answer = j.answer, !.outage = j.outage, !.result = j.result]

\* _query_stage_retrieval_signature: "gpu" takes a search and a rerank endpoint.
Signature == IF up THEN "gpu" ELSE "lexical"

\* The broker attaches the fingerprint it has just computed, as the content hash
\* of the input; a retried job keeps the one of its first submission.  The task
\* parameter _broker_repository_state_fingerprint, which would keep a job from
\* the process cache of repositories, is set by no code.
Submit(p, m) ==
    /\ job[p].pc \in {"idle", "done"} /\ jobs < MaxJobs
    /\ jobs' = jobs + 1
    /\ Set(p, [NoJob EXCEPT !.pc = "prefetch", !.number = jobs', !.mode = m, !.label = tree])
    /\ UNCHANGED <<env, faults, files, memory>>

-----------------------------------------------------------------------------
(* prepare_prefetched_state                                                *)

StageOf(index, sig) == Get(stage, StageKey(index, sig), NoStage)
AliasOf(label, sig) == Get(alias, AliasKey(label, sig), NoAlias)
Chunked(label) == label \in DOMAIN snapshot

\* An alias leads to its released payload, or else to the stage file it names.
AliasedStage(label, sig) ==
    LET a == AliasOf(label, sig) IN
    CASE a = NoAlias -> NoStage
      [] a.released # NoEvidence -> [evidence |-> a.released, answer |-> 0]
      [] OTHER -> StageOf(a.index, sig)

\* The signatures are tried in order, the lexical one always last.
AliasHits(label) == {s \in {Signature, "lexical"} : AliasedStage(label, s) # NoStage}
ByAlias(label) ==
    LET sig == IF Signature \in AliasHits(label) THEN Signature ELSE "lexical" IN
    [stage |-> AliasedStage(label, sig), index |-> AliasOf(label, sig).index,
     sig |-> sig, probed |-> TRUE, verify |-> FALSE]

\* A stage that no alias led to is checked again, unless it is degraded.
BySnapshot(label) ==
    IF ~Chunked(label) THEN [NotPrefetched EXCEPT !.sig = Signature]
    ELSE LET index == <<label, snapshot[label]>>
             found == StageOf(index, Signature)
         IN  [stage |-> found, index |-> index, sig |-> Signature, probed |-> TRUE,
              verify |-> found # NoStage /\ Backed(found.evidence)]

ForgetStage(pre) == [pre EXCEPT !.stage = NoStage, !.probed = FALSE, !.verify = FALSE]

StateKey(p) == <<job[p].mode, job[p].label, Signature>>
Known(p) == Get(states[p], StateKey(p), NotCached)
KnownRepo(p) == Get(repos[p], job[p].label, NotCached)

Prefetched(p) ==
    CASE Known(p) # NotCached -> Known(p)
      [] Known(p) = NotCached /\ KnownRepo(p) # NotCached -> KnownRepo(p)
      [] OTHER -> IF AliasHits(job[p].label) # {} THEN ByAlias(job[p].label) ELSE BySnapshot(job[p].label)

\* A state read from the files is kept, and so is that nothing was found.
Remember(p, pre) ==
    IF Known(p) # NotCached \/ KnownRepo(p) # NotCached THEN UNCHANGED memory
    ELSE /\ states' = [states EXCEPT ![p] = Put(@, StateKey(p), pre)]
         /\ repos' = [repos EXCEPT ![p] = Put(@, job[p].label, ForgetStage(pre))]

\* cached_lexical_fallback_from_context: a degraded stage is released at once.
IsFallback(pre) == pre.stage # NoStage /\ ~Backed(pre.stage.evidence)

Prefetch(p) ==
    /\ At(p, "prefetch")
    /\ LET pre == Prefetched(p)
           outage == ~up
       IN  /\ Remember(p, pre)
           /\ Set(p, IF IsFallback(pre)
                     THEN Ended([job[p] EXCEPT !.found = pre.stage, !.outage = outage, !.result = "evidence_only"])
                     ELSE [job[p] EXCEPT !.pc = "probe", !.pre = pre, !.outage = outage])
    /\ UNCHANGED <<env, faults, files, jobs>>

-----------------------------------------------------------------------------
(* run_inspection                                                          *)

\* The index fingerprint of the prefetched state, or of the chunk snapshot.
KnownIndex(p) ==
    IF job[p].pre.index # NoIndex THEN job[p].pre.index
    ELSE IF Chunked(job[p].label) THEN <<job[p].label, snapshot[job[p].label]>>
    ELSE NoIndex

\* What was prefetched is used as it is when it was looked up under this key.
CachedStage(p, index) ==
    LET pre == job[p].pre IN
    IF ~pre.verify /\ pre.probed /\ pre.index = index /\ pre.sig = Signature
    THEN pre.stage
    ELSE StageOf(index, Signature)

\* With no index known the files are chunked, and the cache is asked again.
Probe(p) ==
    /\ At(p, "probe")
    /\ LET known == KnownIndex(p)
           index == IF known # NoIndex THEN known ELSE <<job[p].label, tree>>
           found == CachedStage(p, index)
       IN  /\ snapshot' = IF known # NoIndex THEN snapshot ELSE Put(snapshot, job[p].label, tree)
           /\ Set(p, [job[p] EXCEPT !.pc = IF found # NoStage THEN "decide" ELSE "retrieve",
                                    !.sig = Signature, !.index = index, !.found = found,
                                    !.outage = @ \/ ~up])
    /\ UNCHANGED <<env, faults, stage, alias, memory, jobs>>

\* gpu_semantic_retrieval and gpu_rerank; ranks of lexical candidates otherwise.
\* A service that was requested and came is in the registry from then on.
Outcomes == {<<"gpu", "gpu">>, <<"gpu", "failed">>, <<"lexical_degraded", "unavailable">>}
Reachable(p, outcome) == job[p].sig = "gpu" \/ OnDemand \/ outcome[1] # "gpu"
EvidenceOf(p, outcome) ==
    [of |-> job[p].index[2], retrieval |-> outcome[1], rerank |-> outcome[2], by |-> job[p].number]

Retrieve(p, outcome) ==
    LET failed == outcome # <<"gpu", "gpu">> IN
        /\ At(p, "retrieve") /\ job[p].index[2] \notin Empty
        /\ Reachable(p, outcome)
        /\ IF failed /\ job[p].sig = "gpu"
           THEN faults < MaxFaults /\ faults' = faults + 1
           ELSE UNCHANGED faults
        /\ up' = (up \/ (job[p].sig = "lexical" /\ outcome[1] = "gpu"))
        /\ Set(p, [job[p] EXCEPT !.pc = IF job[p].mode = "evidence" THEN "decide" ELSE "stage",
                                 !.found = [evidence |-> EvidenceOf(p, outcome), answer |-> 0],
                                 !.outage = @ \/ failed, !.then = "decide"])
        /\ UNCHANGED <<tree, edits, files, memory, jobs>>

\* No chunk, no evidence, nothing to cache.
RetrieveNothing(p) ==
    /\ At(p, "retrieve") /\ job[p].index[2] \in Empty
    /\ Set(p, Goto(p, "decide"))
    /\ UNCHANGED <<env, faults, files, memory, jobs>>

\* _write_query_stage_cache: the stage file, then the alias file.
MutantWritten(p) ==
    [evidence |-> job[p].found.evidence,
     answer |-> IF job[p].answer # 0 THEN job[p].answer ELSE StageOf(job[p].index, job[p].sig).answer]
Written(p) == [evidence |-> job[p].found.evidence, answer |-> job[p].answer]

WriteStage(p) ==
    /\ At(p, "stage")
    /\ stage' = Put(stage, StageKey(job[p].index, job[p].sig), Written(p))
    /\ Set(p, Goto(p, "alias"))
    /\ UNCHANGED <<env, faults, alias, snapshot, memory, jobs>>

WriteAlias(p) ==
    /\ At(p, "alias")
    /\ alias' = Put(alias, AliasKey(job[p].label, job[p].sig),
                    [index |-> job[p].index,
                     released |-> IF job[p].released THEN job[p].found.evidence ELSE NoEvidence])
    /\ Set(p, IF job[p].then = "done" THEN Ended(job[p]) ELSE Goto(p, job[p].then))
    /\ UNCHANGED <<env, faults, stage, snapshot, memory, jobs>>

\* terminal_payload and the write that follows it when there is evidence.
Terminal(p, result) ==
    Set(p, IF job[p].found.evidence = NoEvidence THEN Ended([job[p] EXCEPT !.result = result])
           ELSE [job[p] EXCEPT !.pc = "stage", !.result = result, !.released = TRUE, !.then = "done"])

MutantFallbackResult(p) ==
    IF job[p].found.evidence = NoEvidence \/ job[p].mode = "answer" THEN "failed" ELSE "evidence_only"
FallbackResult(p) == IF job[p].found.evidence = NoEvidence THEN "failed" ELSE "evidence_only"

AnswerIsCached(p) ==
    job[p].mode # "evidence" /\ Backed(job[p].found.evidence) /\ job[p].found.answer # 0

Decide(p) ==
    /\ At(p, "decide")
    /\ LET evidence == job[p].found.evidence
       IN  \/ /\ AnswerIsCached(p)
              /\ Set(p, Ended([job[p] EXCEPT !.answer = job[p].found.answer, !.result = "answer_ready"]))
           \/ job[p].mode = "evidence" /\ Terminal(p, "evidence_only")
           \/ job[p].mode # "evidence" /\ ~Backed(evidence) /\ Terminal(p, FallbackResult(p))
           \/ /\ job[p].mode # "evidence" /\ Backed(evidence) /\ ~AnswerIsCached(p)
              /\ Set(p, [job[p] EXCEPT !.pc = "synthesis", !.tier = "p40-synthesis", !.try = 1])
    /\ UNCHANGED <<env, faults, files, memory, jobs>>

-----------------------------------------------------------------------------
(* synthesize_with_escalation, _try_synthesis_tier                         *)

\* "rejected": unsupported_claim and invalid_synthesis, asked once more with
\* feedback.  "capacity": oom, context_overflow, model_limit.  "transient": an
\* endpoint that is missing or does not come, timeout, service_failure.
NeedsFourGpus(category) == category \in {"capacity", "rejected"}

NextTier(p, category) ==
    CASE job[p].tier = "p40-synthesis" -> "v100-reasoning"
      [] job[p].tier = "v100-reasoning" -> IF NeedsFourGpus(category) THEN "a100-multigpu" ELSE "a100-single"
      [] OTHER -> "none"

TriesAgain(p, category) == job[p].try = 1 /\ category = "rejected"

AskedTwice(p, category) ==
    Set(p, [job[p] EXCEPT !.try = @ + 1, !.last = category])

\* Nothing is written of a synthesis that failed.
Exhausted(p) ==
    Set(p, Ended([job[p] EXCEPT !.result = IF job[p].mode = "answer" THEN "failed" ELSE "evidence_only"]))

Synthesise(p) ==
    /\ At(p, "synthesis")
    /\ Set(p, [job[p] EXCEPT !.pc = "stage", !.answer = job[p].found.evidence.by, !.result = "answer_ready",
                             !.released = FALSE, !.then = "done"])
    /\ UNCHANGED <<env, faults, files, memory, jobs>>

FailToSynthesise(p, category) ==
    /\ At(p, "synthesis")
    /\ \/ TriesAgain(p, category) /\ AskedTwice(p, category)
       \/ /\ ~TriesAgain(p, category) /\ NextTier(p, category) # "none"
          /\ Set(p, [job[p] EXCEPT !.tier = NextTier(p, category), !.try = 1, !.last = category])
       \/ /\ ~TriesAgain(p, category) /\ NextTier(p, category) = "none"
          /\ Exhausted(p)
    /\ UNCHANGED <<env, faults, files, memory, jobs>>

-----------------------------------------------------------------------------
(* The world around the processes.                                         *)

\* A batch worker ends with its job; a daemon keeps what it remembers.
Forget(p) ==
    /\ states' = [states EXCEPT ![p] = Nothing]
    /\ repos' = [repos EXCEPT ![p] = Nothing]

Exit(p) ==
    /\ At(p, "done") /\ Forget(p) /\ Set(p, NoJob)
    /\ UNCHANGED <<env, faults, files, jobs>>

Kill(p) ==
    /\ job[p].pc \notin {"idle", "done"} /\ faults < MaxFaults
    /\ faults' = faults + 1
    /\ Forget(p) /\ Set(p, NoJob)
    /\ UNCHANGED <<env, files, jobs>>

Edit(f) ==
    /\ f # tree /\ edits < MaxEdits
    /\ EditsAnytime \/ \A p \in Processes : job[p].pc \in {"idle", "done"}
    /\ tree' = f /\ edits' = edits + 1
    /\ UNCHANGED <<up, faults, files, memory, jobs, job>>

ServiceGoes ==
    /\ up /\ faults < MaxFaults
    /\ up' = FALSE /\ faults' = faults + 1
    /\ UNCHANGED <<tree, edits, files, memory, jobs, job>>

ServiceComes ==
    /\ ~up /\ up' = TRUE
    /\ UNCHANGED <<tree, edits, faults, files, memory, jobs, job>>

Step(p) ==
    \/ Prefetch(p) \/ Probe(p) \/ RetrieveNothing(p)
    \/ \E o \in Outcomes : Retrieve(p, o)
    \/ WriteStage(p) \/ WriteAlias(p) \/ Decide(p) \/ Synthesise(p)
    \/ \E c \in Categories : FailToSynthesise(p, c)

Next ==
    \/ \E p \in Processes : Step(p) \/ Exit(p) \/ Kill(p)
    \/ \E p \in Processes, m \in Modes : Submit(p, m)
    \/ \E f \in Fps : Edit(f)
    \/ ServiceGoes \/ ServiceComes

Spec == Init /\ [][Next]_vars

-----------------------------------------------------------------------------
(* Properties.                                                             *)

Evidence == [of : Fps \cup {NoFp}, retrieval : {"gpu", "lexical_degraded", "failed"},
             rerank : {"gpu", "failed", "unavailable"}, by : 0 .. MaxJobs]
Stage == [evidence : Evidence, answer : 0 .. MaxJobs]
Tiers == {"none", "p40-synthesis", "v100-reasoning", "a100-single", "a100-multigpu"}

\* Types; a model is asked at most twice, and no file holds a stage without
\* evidence.
QueryTypeOK ==
    /\ tree \in Fps /\ up \in BOOLEAN
    /\ \A f \in DOMAIN snapshot : f \in Fps /\ snapshot[f] \in Fps
    /\ \A k \in DOMAIN stage : k \in Index \X Sigs /\ stage[k] \in Stage /\ stage[k].evidence # NoEvidence
    /\ \A k \in DOMAIN alias : k \in Fps \X Sigs /\ alias[k] \in [index : Index, released : Evidence]
    /\ \A p \in Processes :
          /\ job[p].found \in Stage /\ job[p].tier \in Tiers /\ job[p].try \in 0 .. 2
          /\ job[p].result \in {"none", "answer_ready", "evidence_only", "failed"}

\* Evidence that is released quotes the state of the repository the job was
\* submitted for, whichever cache it came through.
EvidenceIsOwn ==
    \A p \in Processes :
        At(p, "done") /\ job[p].found.evidence # NoEvidence => job[p].found.evidence.of = job[p].label

\* An answer is released with the evidence it was synthesised from and cites,
\* and that evidence was both retrieved and reranked by a model: whoever wrote
\* the stage it comes from, and whoever has rewritten it since.  No stage file
\* pairs an answer with the evidence of another job.
AnswerIsEarned ==
    /\ \A p \in Processes :
          At(p, "done") /\ job[p].result = "answer_ready" =>
              Backed(job[p].found.evidence) /\ job[p].answer = job[p].found.evidence.by
    /\ \A k \in DOMAIN stage :
          stage[k].answer # 0 => Backed(stage[k].evidence) /\ stage[k].answer = stage[k].evidence.by

\* What was found is not thrown away: a job fails only if the repository has
\* nothing to show, or if an answer was demanded and every model failed.
UsefulEvidenceIsKept ==
    \A p \in Processes :
        At(p, "done") =>
            /\ job[p].result = "failed" =>
                  job[p].label \in Empty \/ (job[p].mode = "answer" /\ Backed(job[p].found.evidence))
            /\ job[p].label \notin Empty => job[p].found.evidence # NoEvidence

\* P40, then four V100, then A100: one if the last failure of the V100 was
\* transient, four if it lacked capacity or was rejected twice; no tier is
\* left out and none is taken twice.
EscalationFits ==
    [][\A p \in Processes : job[p].tier # "none" /\ job'[p].tier # job[p].tier /\ job'[p].pc = "synthesis" =>
          \/ job[p].tier = "p40-synthesis" /\ job'[p].tier = "v100-reasoning"
          \/ /\ job[p].tier = "v100-reasoning"
             /\ job'[p].tier = IF job'[p].last = "transient" THEN "a100-single" ELSE "a100-multigpu"]_vars

\* Lexical evidence is what a job returns when it finds GPU retrieval or
\* reranking unavailable (docs/operations.md).
DegradedNeedsOutage ==
    \A p \in Processes :
        At(p, "done") /\ job[p].found.evidence # NoEvidence /\ ~Backed(job[p].found.evidence) => job[p].outage
=============================================================================
