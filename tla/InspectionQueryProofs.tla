------------------------ MODULE InspectionQueryProofs ------------------------
(***************************************************************************)
(* Proofs about repeated inspection of a repository, for any number of     *)
(* processes sharing the cache directory, of repository states, jobs,      *)
(* edits and faults.                                                       *)
(***************************************************************************)
EXTENDS InspectionQuery, TLAPS

Positions == {"idle", "prefetch", "probe", "retrieve", "stage", "alias", "decide",
              "synthesis", "done"}
\* Positions after the index fingerprint and the evidence are known.
Informed == {"stage", "alias", "decide", "synthesis"}

Pre == [stage : Stage, index : Index \cup {NoIndex}, sig : Sigs \cup {"none"},
        probed : BOOLEAN, verify : BOOLEAN]

Job == [pc : Positions, number : 0 .. MaxJobs, mode : Modes \cup {"auto"},
        label : Fps \cup {NoFp}, pre : Pre, sig : Sigs, index : Index \cup {NoIndex},
        found : Stage, tier : Tiers, try : 0 .. 2, last : Categories \cup {"none"},
        answer : 0 .. MaxJobs, released : BOOLEAN, then : {"none", "decide", "done"},
        outage : BOOLEAN, result : {"none", "answer_ready", "evidence_only", "failed"}]

\* An answer comes with the evidence it was synthesised from, and a stage
\* without evidence has nothing.
StageOK(s) ==
  /\ s \in Stage
  /\ s.answer # 0 => Backed(s.evidence) /\ s.answer = s.evidence.by
  /\ s # NoStage => s.evidence # NoEvidence

PreOK(pre) == pre \in Pre /\ StageOK(pre.stage)

AnswerFits(j) == Backed(j.found.evidence) /\ j.answer = j.found.evidence.by

JobOK(j) ==
  /\ j \in Job /\ StageOK(j.found) /\ PreOK(j.pre)
  /\ j.pc \notin {"idle", "done"} => j.label \in Fps /\ j.number # 0
  /\ j.pc \in {"prefetch", "probe", "retrieve"} => j.result = "none" /\ j.answer = 0
  /\ j.pc \in {"retrieve"} \cup Informed => j.index \in Index
  /\ j.pc \in {"stage", "alias"} => j.found.evidence # NoEvidence /\ j.then # "none"
  /\ j.pc = "synthesis" => Backed(j.found.evidence) /\ j.tier # "none" /\ j.try # 0
  /\ j.answer # 0 \/ j.result = "answer_ready" => AnswerFits(j)
  /\ j.result = "failed" =>
       j.found.evidence = NoEvidence \/ (j.mode = "answer" /\ Backed(j.found.evidence))
  /\ j.pc \in {"prefetch", "probe", "retrieve", "decide"}
       \/ (j.pc \in {"stage", "alias"} /\ j.then = "decide") => j.tier = "none"

FilesOK ==
  /\ \A f \in DOMAIN snapshot : f \in Fps /\ snapshot[f] \in Fps
  /\ \A k \in DOMAIN stage :
       k \in Index \X Sigs /\ StageOK(stage[k]) /\ stage[k].evidence # NoEvidence
  /\ \A k \in DOMAIN alias :
       k \in Fps \X Sigs /\ alias[k] \in [index : Index, released : Evidence]

MemoryOK ==
  /\ DOMAIN states = Processes /\ DOMAIN repos = Processes
  /\ \A p \in Processes : /\ \A k \in DOMAIN states[p] : PreOK(states[p][k])
                          /\ \A f \in DOMAIN repos[p] : PreOK(repos[p][f])

\* Holds whatever is edited while jobs are under way.
QueryInv ==
  /\ tree \in Fps /\ up \in BOOLEAN /\ jobs \in 0 .. MaxJobs
  /\ FilesOK /\ MemoryOK
  /\ job \in [Processes -> Job] /\ \A p \in Processes : JobOK(job[p])

\* Without edits under way: what is kept under a fingerprint quotes that state.
Quotes(evidence, label) == evidence # NoEvidence => evidence.of = label

PreOwn(pre, label) ==
  Quotes(pre.stage.evidence, label) /\ pre.index \in {NoIndex, <<label, label>>}

JobOwn(j) ==
  /\ Quotes(j.found.evidence, j.label) /\ PreOwn(j.pre, j.label)
  /\ j.pc \notin {"idle", "done"} => j.label = tree
  /\ j.pc \in {"retrieve"} \cup Informed => j.index = <<j.label, j.label>>
  /\ j.pc \in {"done"} \cup Informed =>
       j.label \in Empty \/ j.found.evidence # NoEvidence

OwnInv ==
  /\ \A f \in DOMAIN snapshot : snapshot[f] = f
  /\ \A k \in DOMAIN stage : Quotes(stage[k].evidence, k[1][1])
  /\ \A k \in DOMAIN alias :
       alias[k].index = <<k[1], k[1]>> /\ Quotes(alias[k].released, k[1])
  /\ \A p \in Processes : /\ \A k \in DOMAIN states[p] : PreOwn(states[p][k], k[2])
                          /\ \A f \in DOMAIN repos[p] : PreOwn(repos[p][f], f)
  /\ \A p \in Processes : JobOwn(job[p])

-----------------------------------------------------------------------------
(* Records and caches *)

\* A lookup in a cache finds the default, or an entry.
LEMMA GetOrDefault ==
  ASSUME NEW f, NEW k, NEW default
  PROVE  Get(f, k, default) = default \/ (k \in DOMAIN f /\ Get(f, k, default) = f[k])
  BY DEF Get

\* Writing one entry of a cache keeps the others.
LEMMA PutKeys ==
  ASSUME NEW f, NEW k, NEW v
  PROVE  \A x \in DOMAIN Put(f, k, v) :
           \/ x = k /\ Put(f, k, v)[x] = v
           \/ x \in DOMAIN f /\ Put(f, k, v)[x] = f[x]
  BY DEF Put

\* The entry that is not there is sound.
LEMMA NoStageOK == NoEvidence \in Evidence /\ NoStage \in Stage /\ StageOK(NoStage)
  <1>1. 0 \in 0 .. MaxJobs
    BY QueryAssumption
  <1>2. NoEvidence \in Evidence
    BY <1>1 DEF NoEvidence, Evidence
  <1>3. NoStage \in Stage /\ NoStage.answer = 0
    BY <1>1, <1>2 DEF NoStage, Stage
  <1>. QED  BY <1>2, <1>3 DEF StageOK

\* So is the state of a job that has not looked yet.
LEMMA NotPrefetchedOK ==
  /\ PreOK(NotPrefetched) /\ NotPrefetched.index = NoIndex
  /\ NotPrefetched.stage = NoStage
  BY NoStageOK DEF PreOK, Pre, NotPrefetched, Sigs

\* What a process without a job has in its locals.
LEMMA NoJobFields ==
  /\ NoJob \in Job /\ NoJob.pc = "idle" /\ NoJob.found = NoStage /\ NoJob.answer = 0
  /\ NoJob.pre = NotPrefetched /\ NoJob.result = "none" /\ NoJob.tier = "none"
  /\ NoJob.label = NoFp
  BY NoStageOK, NotPrefetchedOK, QueryAssumption
  DEF NoJob, Job, Positions, PreOK, Sigs, Tiers

\* A process without a job satisfies the invariant.
LEMMA NoJobOK == JobOK(NoJob)
  BY NoJobFields, NoStageOK, NotPrefetchedOK DEF JobOK, Informed

\* A process takes its next position, the others stay where they are.
LEMMA SetOK ==
  ASSUME QueryInv, NEW p \in Processes, NEW new, JobOK(new), Set(p, new)
  PROVE  job' \in [Processes -> Job] /\ \A q \in Processes : JobOK(job'[q])
  <1>1. new \in Job /\ job \in [Processes -> Job] /\ job' = [job EXCEPT ![p] = new]
    BY DEF JobOK, QueryInv, Set
  <1>2. \A q \in Processes : job'[q] = new \/ job'[q] = job[q]
    BY <1>1
  <1>. QED  BY <1>1, <1>2 DEF QueryInv

\* What the invariant says of one process.
LEMMA JobFacts ==
  ASSUME QueryInv, NEW p \in Processes
  PROVE  job[p] \in Job /\ JobOK(job[p])
  BY DEF QueryInv

\* What an ended job keeps of the job it was.
LEMMA EndedFields ==
  ASSUME NEW j \in Job
  PROVE  /\ Ended(j) \in Job /\ Ended(j).pc = "done" /\ Ended(j).pre = NotPrefetched
         /\ Ended(j).found = j.found /\ Ended(j).answer = j.answer
         /\ Ended(j).result = j.result /\ Ended(j).mode = j.mode
         /\ Ended(j).label = j.label /\ Ended(j).tier = "none"
  <1>. DEFINE new == [NoJob EXCEPT !.pc = "done", !.mode = j.mode, !.label = j.label,
                                   !.found = j.found, !.answer = j.answer,
                                   !.outage = j.outage, !.result = j.result]
  <1>1. "done" \in Positions /\ NoJob \in Job /\ NoJob.pre = NotPrefetched /\ NoJob.tier = "none"
    BY NoJobFields DEF Positions
  <1>2. /\ j.mode \in Modes \cup {"auto"} /\ j.label \in Fps \cup {NoFp}
        /\ j.found \in Stage /\ j.answer \in 0 .. MaxJobs /\ j.outage \in BOOLEAN
        /\ j.result \in {"none", "answer_ready", "evidence_only", "failed"}
    BY DEF Job
  <1>3. new \in Job
    BY <1>1, <1>2 DEF Job
  <1>4. /\ new.pc = "done" /\ new.pre = NoJob.pre
        /\ new.found = j.found /\ new.answer = j.answer
    BY <1>1, <1>2 DEF Job
  <1>5. /\ new.result = j.result /\ new.mode = j.mode
        /\ new.label = j.label /\ new.tier = NoJob.tier
    BY <1>1, <1>2 DEF Job
  <1>. QED  BY <1>1, <1>3, <1>4, <1>5 DEF Ended

\* A job that ends returns an answer only with evidence of its own.
LEMMA EndedOK ==
  ASSUME NEW j \in Job, StageOK(j.found),
         j.answer # 0 \/ j.result = "answer_ready" => AnswerFits(j),
         j.result = "failed" =>
           j.found.evidence = NoEvidence \/ (j.mode = "answer" /\ Backed(j.found.evidence))
  PROVE  JobOK(Ended(j))
  BY EndedFields, NotPrefetchedOK DEF JobOK, Informed, AnswerFits

-----------------------------------------------------------------------------
(* What the caches answer *)

\* The signature of the present services is a signature.
LEMMA SignatureType == Signature \in Sigs
  BY DEF Signature, Sigs

\* The stage entry a lookup finds is sound.
LEMMA StageOfOK ==
  ASSUME QueryInv, NEW index, NEW sig
  PROVE  StageOK(StageOf(index, sig))
  BY NoStageOK, GetOrDefault DEF QueryInv, FilesOK, StageOf

\* The alias a lookup finds names an index, and evidence.
LEMMA AliasOfOK ==
  ASSUME QueryInv, NEW label, NEW sig
  PROVE  AliasOf(label, sig).index \in Index \cup {NoIndex}
         /\ AliasOf(label, sig).released \in Evidence
  <1>1. NoAlias.index = NoIndex /\ NoAlias.released \in Evidence
    BY NoStageOK DEF NoAlias
  <1>. DEFINE k == AliasKey(label, sig)
  <1>2. k \in DOMAIN alias => alias[k].index \in Index /\ alias[k].released \in Evidence
    BY DEF QueryInv, FilesOK
  <1>. HIDE DEF k
  <1>3. AliasOf(label, sig) = NoAlias \/ (k \in DOMAIN alias /\ AliasOf(label, sig) = alias[k])
    BY GetOrDefault DEF AliasOf, k
  <1>. QED  BY <1>1, <1>2, <1>3

\* The stage entry found through an alias is sound.
LEMMA AliasedStageOK ==
  ASSUME QueryInv, NEW label, NEW sig
  PROVE  StageOK(AliasedStage(label, sig))
  <1>. DEFINE released == AliasOf(label, sig).released
              kept == [evidence |-> released, answer |-> 0]
  <1>1. kept \in Stage /\ kept.answer = 0 /\ kept.evidence = released
    BY AliasOfOK, QueryAssumption DEF Stage
  <1>2. released # NoEvidence => StageOK(kept)
    BY <1>1 DEF StageOK
  <1>3. \/ AliasedStage(label, sig) = NoStage
        \/ released # NoEvidence /\ AliasedStage(label, sig) = kept
        \/ AliasedStage(label, sig) = StageOf(AliasOf(label, sig).index, sig)
    BY DEF AliasedStage
  <1>. QED  BY <1>2, <1>3, NoStageOK, StageOfOK

\* What is prefetched through the alias of a state is sound.
LEMMA ByAliasOK ==
  ASSUME QueryInv, NEW label
  PROVE  PreOK(ByAlias(label))
  <1>. DEFINE sig == IF Signature \in AliasHits(label) THEN Signature ELSE "lexical"
  <1>1. sig \in Sigs
    BY SignatureType DEF Sigs
  <1>. HIDE DEF sig
  <1>2. StageOK(AliasedStage(label, sig)) /\ AliasedStage(label, sig) \in Stage
    BY AliasedStageOK DEF StageOK
  <1>3. AliasOf(label, sig).index \in Index \cup {NoIndex}
    BY AliasOfOK
  <1>4. ByAlias(label) = [stage |-> AliasedStage(label, sig), index |-> AliasOf(label, sig).index,
                          sig |-> sig, probed |-> TRUE, verify |-> FALSE]
    BY DEF ByAlias, sig
  <1>. QED  BY <1>1, <1>2, <1>3, <1>4 DEF PreOK, Pre

\* So is what is prefetched through its snapshot.
LEMMA BySnapshotOK ==
  ASSUME QueryInv, NEW label \in Fps
  PROVE  PreOK(BySnapshot(label))
  <1>1. CASE ~Chunked(label)
    <2>1. BySnapshot(label) = [NotPrefetched EXCEPT !.sig = Signature]
      BY <1>1 DEF BySnapshot
    <2>. QED  BY <2>1, NotPrefetchedOK, SignatureType DEF PreOK, Pre
  <1>2. CASE Chunked(label)
    <2>. DEFINE index == <<label, snapshot[label]>>
                found == StageOf(index, Signature)
                verify == found # NoStage /\ Backed(found.evidence)
    <2>1. index \in Index /\ StageOK(found) /\ found \in Stage /\ verify \in BOOLEAN
      BY <1>2, StageOfOK DEF QueryInv, FilesOK, Chunked, Index, StageOK
    <2>2. BySnapshot(label) = [stage |-> found, index |-> index, sig |-> Signature,
                               probed |-> TRUE, verify |-> verify]
      BY <1>2 DEF BySnapshot
    <2>. HIDE DEF index, found, verify
    <2>. QED  BY <2>1, <2>2, SignatureType DEF PreOK, Pre
  <1>. QED  BY <1>1, <1>2

\* So is whatever a process prefetches, from memory or from files.
LEMMA PrefetchedOK ==
  ASSUME QueryInv, NEW p \in Processes, job[p].label \in Fps
  PROVE  PreOK(Prefetched(p))
  <1>1. Known(p) # NotCached => PreOK(Known(p))
    BY GetOrDefault DEF Known, QueryInv, MemoryOK
  <1>2. KnownRepo(p) # NotCached => PreOK(KnownRepo(p))
    BY GetOrDefault DEF KnownRepo, QueryInv, MemoryOK
  <1>. QED  BY <1>1, <1>2, ByAliasOK, BySnapshotOK DEF Prefetched

\* A prefetched state without its stage keeps its index.
LEMMA ForgetStageOK ==
  ASSUME NEW pre, PreOK(pre)
  PROVE  PreOK(ForgetStage(pre)) /\ ForgetStage(pre).index = pre.index
         /\ ForgetStage(pre).stage = NoStage
  BY NoStageOK DEF PreOK, Pre, ForgetStage

\* Remembering a sound state keeps the process caches sound.
LEMMA RememberOK ==
  ASSUME QueryInv, NEW p \in Processes, NEW pre, PreOK(pre), Remember(p, pre)
  PROVE  MemoryOK'
  <1>1. CASE UNCHANGED memory
    BY <1>1 DEF memory, QueryInv, MemoryOK
  <1>2. CASE /\ states' = [states EXCEPT ![p] = Put(@, StateKey(p), pre)]
             /\ repos' = [repos EXCEPT ![p] = Put(@, job[p].label, ForgetStage(pre))]
    <2>1. DOMAIN states = Processes /\ DOMAIN repos = Processes
      BY DEF QueryInv, MemoryOK
    <2>2. DOMAIN states' = Processes /\ DOMAIN repos' = Processes
      BY <1>2, <2>1
    <2>3. ASSUME NEW q \in Processes, NEW k \in DOMAIN states'[q]
          PROVE  PreOK(states'[q][k])
      <3>1. states'[q] = states[q] \/ states'[q] = Put(states[q], StateKey(p), pre)
        BY <1>2, <2>1
      <3>. QED  BY <3>1, PutKeys DEF QueryInv, MemoryOK
    <2>4. ASSUME NEW q \in Processes, NEW k \in DOMAIN repos'[q]
          PROVE  PreOK(repos'[q][k])
      <3>1. repos'[q] = repos[q] \/ repos'[q] = Put(repos[q], job[p].label, ForgetStage(pre))
        BY <1>2, <2>1
      <3>2. PreOK(ForgetStage(pre))
        BY ForgetStageOK
      <3>. QED  BY <3>1, <3>2, PutKeys DEF QueryInv, MemoryOK
    <2>. QED  BY <2>2, <2>3, <2>4 DEF MemoryOK
  <1>. QED  BY <1>1, <1>2 DEF Remember

-----------------------------------------------------------------------------
(* Every step keeps QueryInv *)

\* The files are sound if nothing is written.
LEMMA StillFiles ==
  ASSUME QueryInv, UNCHANGED files
  PROVE  FilesOK'
  BY DEF QueryInv, FilesOK, files

\* The process caches are sound if nothing is remembered.
LEMMA StillMemory ==
  ASSUME QueryInv, UNCHANGED memory
  PROVE  MemoryOK'
  BY DEF QueryInv, MemoryOK, memory

\* A step of a job that leaves repository, services and the count of jobs alone.
LEMMA JobStepOK ==
  ASSUME QueryInv, NEW p \in Processes, NEW new, JobOK(new), Set(p, new),
         FilesOK', MemoryOK', tree' = tree, up' \in BOOLEAN, jobs' = jobs
  PROVE  QueryInv'
  BY SetOK DEF QueryInv

\* A submission keeps the invariant.
LEMMA SubmitOK ==
  ASSUME QueryInv, NEW p \in Processes, NEW m \in Modes, Submit(p, m)
  PROVE  QueryInv'
  <1>. DEFINE new == [NoJob EXCEPT !.pc = "prefetch", !.number = jobs', !.mode = m,
                                   !.label = tree]
  <1>1. /\ jobs' \in 0 .. MaxJobs /\ jobs' # 0 /\ Set(p, new) /\ "prefetch" \in Positions
        /\ m \in Modes \cup {"auto"}
    BY QueryAssumption DEF Submit, QueryInv, Positions
  <1>2. tree \in Fps
    BY DEF QueryInv
  <1>3. /\ new.pc = "prefetch" /\ new.number = jobs' /\ new.label = tree
    BY <1>1, <1>2, NoJobFields DEF Job
  <1>31. new \in Job
    BY <1>1, <1>2, NoJobFields DEF Job
  <1>4. /\ new.found = NoJob.found /\ new.pre = NoJob.pre /\ new.answer = NoJob.answer
        /\ new.result = NoJob.result /\ new.tier = NoJob.tier
    BY <1>1, <1>2, NoJobFields DEF Job
  <1>. HIDE DEF new
  <1>5. JobOK(new)
    BY <1>1, <1>2, <1>3, <1>31, <1>4, NoJobFields, NoStageOK, NotPrefetchedOK DEF JobOK, Informed
  <1>6. job' \in [Processes -> Job] /\ \A q \in Processes : JobOK(job'[q])
    BY <1>1, <1>5, SetOK
  <1>. QED  BY <1>1, <1>6, StillFiles, StillMemory DEF Submit, env, QueryInv

\* Looking up the cached state keeps the invariant.
LEMMA PrefetchOK ==
  ASSUME QueryInv, NEW p \in Processes, Prefetch(p)
  PROVE  QueryInv'
  <1>. DEFINE j == job[p]
              pre == Prefetched(p)
              outage == ~up
              fallback == [j EXCEPT !.found = pre.stage, !.outage = outage, !.result = "evidence_only"]
              next == [j EXCEPT !.pc = "probe", !.pre = pre, !.outage = outage]
  <1>1. /\ j \in Job /\ JobOK(j) /\ j.pc = "prefetch" /\ j.label \in Fps
        /\ j.answer = 0 /\ j.result = "none"
    BY JobFacts DEF Prefetch, At, JobOK
  <1>2. PreOK(pre) /\ outage \in BOOLEAN /\ Remember(p, pre)
    BY <1>1, PrefetchedOK DEF Prefetch
  <1>3. Set(p, IF IsFallback(pre) THEN Ended(fallback) ELSE next)
    BY DEF Prefetch
  <1>4. pre \in Pre /\ pre.stage \in Stage /\ StageOK(pre.stage)
    BY <1>2 DEF PreOK, StageOK
  <1>. HIDE DEF pre, outage
  <1>5. JobOK(Ended(fallback))
    <2>1. fallback \in Job /\ fallback.found = pre.stage
      BY <1>1, <1>2, <1>4 DEF Job
    <2>2. fallback.answer = 0 /\ fallback.result = "evidence_only"
      BY <1>1, <1>2, <1>4 DEF Job
    <2>. HIDE DEF fallback
    <2>. QED  BY <1>4, <2>1, <2>2, EndedOK
  <1>6. JobOK(next)
    <2>. "probe" \in Positions
      BY DEF Positions
    <2>1. next \in Job
      BY <1>1, <1>2, <1>4 DEF Job
    <2>11. next.pc = "probe" /\ next.pre = pre
      BY <1>1, <1>2, <1>4 DEF Job
    <2>2. /\ next.found = j.found /\ next.label = j.label /\ next.number = j.number
          /\ next.answer = 0 /\ next.result = "none" /\ next.tier = j.tier
      BY <1>1, <1>2, <1>4 DEF Job
    <2>. HIDE DEF next
    <2>. QED  BY <1>1, <1>2, <2>1, <2>11, <2>2 DEF JobOK, Informed
  <1>7. UNCHANGED <<env, files, jobs>>
    BY DEF Prefetch
  <1>8. MemoryOK'
    BY <1>2, RememberOK
  <1>. QED
    BY <1>3, <1>5, <1>6, <1>7, <1>8, StillFiles, JobStepOK DEF env, QueryInv

\* The index a process knows of is an index, or none.
LEMMA KnownIndexType ==
  ASSUME QueryInv, NEW p \in Processes, job[p].label \in Fps
  PROVE  KnownIndex(p) \in Index \cup {NoIndex}
  <1>1. job[p].pre.index \in Index \cup {NoIndex}
    BY JobFacts DEF JobOK, PreOK, Pre
  <1>2. Chunked(job[p].label) => <<job[p].label, snapshot[job[p].label]>> \in Index
    BY DEF Chunked, QueryInv, FilesOK, Index
  <1>. QED  BY <1>1, <1>2 DEF KnownIndex

\* Probing the stage cache keeps the invariant.
LEMMA ProbeOK ==
  ASSUME QueryInv, NEW p \in Processes, Probe(p)
  PROVE  QueryInv'
  <1>. DEFINE j == job[p]
              known == KnownIndex(p)
              index == IF known # NoIndex THEN known ELSE <<j.label, tree>>
              found == CachedStage(p, index)
              pc == IF found # NoStage THEN "decide" ELSE "retrieve"
              outage == j.outage \/ ~up
              new == [j EXCEPT !.pc = pc, !.sig = Signature, !.index = index, !.found = found,
                               !.outage = outage]
  <1>1. /\ j \in Job /\ JobOK(j) /\ j.pc = "probe" /\ j.label \in Fps
        /\ j.answer = 0 /\ j.result = "none" /\ j.tier = "none" /\ j.number # 0 /\ PreOK(j.pre)
    BY JobFacts DEF Probe, At, JobOK
  <1>2. index \in Index
    BY <1>1, KnownIndexType DEF QueryInv, Index
  <1>3. StageOK(found) /\ found \in Stage
    BY <1>1, StageOfOK DEF CachedStage, PreOK, StageOK
  <1>4. /\ Set(p, new) /\ pc \in {"decide", "retrieve"} /\ outage \in BOOLEAN
        /\ pc \in Positions /\ (pc = "decide" => found # NoStage)
    BY DEF Probe, Positions
  <1>5. FilesOK'
    <2>1. snapshot' = snapshot \/ snapshot' = Put(snapshot, j.label, tree)
      BY DEF Probe
    <2>2. tree \in Fps
      BY DEF QueryInv
    <2>3. \A f \in DOMAIN snapshot' : f \in Fps /\ snapshot'[f] \in Fps
      BY <1>1, <2>1, <2>2, PutKeys DEF QueryInv, FilesOK
    <2>. QED  BY <2>3 DEF Probe, QueryInv, FilesOK
  <1>. HIDE DEF index, found, pc, outage
  <1>6. new \in Job
    BY <1>1, <1>2, <1>3, <1>4, SignatureType DEF Job
  <1>61. new.pc = pc /\ new.index = index /\ new.found = found
    BY <1>1, <1>2, <1>3, <1>4, SignatureType DEF Job
  <1>7. /\ new.pre = j.pre /\ new.label = j.label /\ new.number = j.number
        /\ new.answer = 0 /\ new.result = "none" /\ new.tier = "none"
    BY <1>1, <1>2, <1>3, <1>4, SignatureType DEF Job
  <1>. HIDE DEF new
  <1>8. JobOK(new)
    BY <1>1, <1>2, <1>3, <1>4, <1>6, <1>61, <1>7 DEF JobOK, Informed
  <1>. QED
    BY <1>4, <1>5, <1>8, StillMemory, JobStepOK DEF Probe, env, QueryInv

\* Retrieval yields evidence of the index it searched.
LEMMA EvidenceOfOK ==
  ASSUME NEW p \in Processes, job[p] \in Job, job[p].index \in Index,
         NEW outcome \in Outcomes
  PROVE  EvidenceOf(p, outcome) \in Evidence /\ EvidenceOf(p, outcome) # NoEvidence
         /\ EvidenceOf(p, outcome).of = job[p].index[2]
  <1>1. job[p].index[2] \in Fps /\ job[p].number \in 0 .. MaxJobs
    BY DEF Job, Index
  <1>2. /\ outcome[1] \in {"gpu", "lexical_degraded"}
        /\ outcome[2] \in {"gpu", "failed", "unavailable"}
    BY DEF Outcomes
  <1>. QED  BY <1>1, <1>2 DEF EvidenceOf, Evidence, NoEvidence

\* Retrieval keeps the invariant.
LEMMA RetrieveOK ==
  ASSUME QueryInv, NEW p \in Processes, NEW outcome \in Outcomes, Retrieve(p, outcome)
  PROVE  QueryInv'
  <1>. DEFINE j == job[p]
              failed == outcome # <<"gpu", "gpu">>
              e == EvidenceOf(p, outcome)
              found == [evidence |-> e, answer |-> 0]
              pc == IF j.mode = "evidence" THEN "decide" ELSE "stage"
              outage == j.outage \/ failed
              new == [j EXCEPT !.pc = pc, !.found = found, !.outage = outage, !.then = "decide"]
  <1>1. /\ j \in Job /\ JobOK(j) /\ j.pc = "retrieve" /\ j.index \in Index /\ j.label \in Fps
        /\ j.answer = 0 /\ j.result = "none" /\ j.tier = "none" /\ j.number # 0 /\ PreOK(j.pre)
    BY JobFacts DEF Retrieve, At, JobOK
  <1>2. e \in Evidence /\ e # NoEvidence
    BY <1>1, EvidenceOfOK
  <1>3. Set(p, new) /\ pc \in {"decide", "stage"} /\ pc \in Positions /\ outage \in BOOLEAN
    BY DEF Retrieve, Positions
  <1>. HIDE DEF e, pc, outage
  <1>4. found \in Stage /\ StageOK(found) /\ found.evidence = e
    BY <1>2, QueryAssumption DEF Stage, StageOK
  <1>. HIDE DEF found
  <1>5. new \in Job
    BY <1>1, <1>3, <1>4 DEF Job
  <1>6. new.pc = pc /\ new.found = found /\ new.then = "decide"
    BY <1>1, <1>3, <1>4 DEF Job
  <1>7. /\ new.pre = j.pre /\ new.label = j.label /\ new.number = j.number
        /\ new.answer = 0 /\ new.result = "none" /\ new.tier = "none" /\ new.index = j.index
    BY <1>1, <1>3, <1>4 DEF Job
  <1>. HIDE DEF new
  <1>8. JobOK(new)
    BY <1>1, <1>2, <1>3, <1>4, <1>5, <1>6, <1>7 DEF JobOK, Informed
  <1>9. up' \in BOOLEAN /\ tree' = tree /\ jobs' = jobs
    BY DEF Retrieve, QueryInv
  <1>. QED  BY <1>3, <1>8, <1>9, StillFiles, StillMemory, JobStepOK DEF Retrieve

\* A job moves on with what it has.
LEMMA GotoFields ==
  ASSUME NEW p \in Processes, job[p] \in Job, NEW pc \in Positions
  PROVE  LET new == Goto(p, pc) IN
         /\ new \in Job /\ new.pc = pc
         /\ new.found = job[p].found /\ new.pre = job[p].pre /\ new.label = job[p].label
         /\ new.number = job[p].number /\ new.answer = job[p].answer
         /\ new.result = job[p].result /\ new.tier = job[p].tier /\ new.index = job[p].index
         /\ new.then = job[p].then /\ new.mode = job[p].mode /\ new.try = job[p].try
  <1>. DEFINE new == [job[p] EXCEPT !.pc = pc]
  <1>1. new \in Job
    BY DEF Job
  <1>2. new.pc = pc /\ new.found = job[p].found /\ new.pre = job[p].pre /\ new.label = job[p].label
    BY DEF Job
  <1>3. /\ new.number = job[p].number /\ new.answer = job[p].answer
        /\ new.result = job[p].result /\ new.tier = job[p].tier /\ new.index = job[p].index
    BY DEF Job
  <1>4. new.then = job[p].then /\ new.mode = job[p].mode /\ new.try = job[p].try
    BY DEF Job
  <1>. QED  BY <1>1, <1>2, <1>3, <1>4 DEF Goto

\* Finding nothing in an empty state keeps the invariant.
LEMMA RetrieveNothingOK ==
  ASSUME QueryInv, NEW p \in Processes, RetrieveNothing(p)
  PROVE  QueryInv'
  <1>. DEFINE new == Goto(p, "decide")
  <1>1. job[p] \in Job /\ JobOK(job[p]) /\ job[p].pc = "retrieve" /\ "decide" \in Positions
    BY JobFacts DEF RetrieveNothing, At, Positions
  <1>. HIDE DEF new
  <1>2. JobOK(new)
    BY <1>1, GotoFields DEF JobOK, AnswerFits, Informed, new
  <1>. QED
    BY <1>2, StillFiles, StillMemory, JobStepOK DEF RetrieveNothing, env, QueryInv, new

\* What a job writes to the stage is sound, and holds the evidence of the job.
LEMMA WrittenOK ==
  ASSUME NEW p \in Processes, JobOK(job[p]), job[p].found.evidence # NoEvidence
  PROVE  StageOK(Written(p)) /\ Written(p).evidence = job[p].found.evidence
  <1>1. job[p].found.evidence \in Evidence /\ job[p].answer \in 0 .. MaxJobs
    BY DEF JobOK, Job, Stage
  <1>2. /\ Written(p) \in Stage /\ Written(p).evidence = job[p].found.evidence
        /\ Written(p).answer = job[p].answer
    BY <1>1 DEF Written, Stage
  <1>. QED  BY <1>2 DEF StageOK, JobOK, AnswerFits

\* Writing the stage keeps the invariant.
LEMMA WriteStageOK ==
  ASSUME QueryInv, NEW p \in Processes, WriteStage(p)
  PROVE  QueryInv'
  <1>. DEFINE j == job[p]
              new == Goto(p, "alias")
              k == StageKey(j.index, j.sig)
  <1>1. /\ j \in Job /\ JobOK(j) /\ j.pc = "stage" /\ "alias" \in Positions
        /\ j.found.evidence # NoEvidence /\ j.index \in Index /\ j.sig \in Sigs
    BY JobFacts DEF WriteStage, At, Positions, JobOK, Informed, Job
  <1>2. JobOK(new)
    BY <1>1, GotoFields DEF JobOK, AnswerFits, Informed
  <1>3. k \in Index \X Sigs
    BY <1>1 DEF StageKey
  <1>4. StageOK(Written(p)) /\ Written(p).evidence # NoEvidence
    BY <1>1, WrittenOK
  <1>5. stage' = Put(stage, k, Written(p)) /\ UNCHANGED <<alias, snapshot>>
    BY DEF WriteStage
  <1>. HIDE DEF k, new
  <1>6. FilesOK'
    BY <1>3, <1>4, <1>5, PutKeys DEF FilesOK, QueryInv
  <1>. QED  BY <1>2, <1>6, StillMemory, JobStepOK DEF WriteStage, env, QueryInv, new

\* Writing the alias keeps the invariant.
LEMMA WriteAliasOK ==
  ASSUME QueryInv, NEW p \in Processes, WriteAlias(p)
  PROVE  QueryInv'
  <1>. DEFINE j == job[p]
              k == AliasKey(j.label, j.sig)
              a == [index |-> j.index,
                    released |-> IF j.released THEN j.found.evidence ELSE NoEvidence]
  <1>1. /\ j \in Job /\ JobOK(j) /\ j.pc = "alias" /\ j.label \in Fps
        /\ j.found.evidence \in Evidence /\ j.index \in Index /\ j.sig \in Sigs
        /\ j.then \in {"decide", "done"}
    BY JobFacts DEF WriteAlias, At, JobOK, Informed, Job, Stage
  <1>2. k \in Fps \X Sigs /\ a \in [index : Index, released : Evidence]
    BY <1>1, NoStageOK DEF AliasKey
  <1>3. alias' = Put(alias, k, a) /\ UNCHANGED <<stage, snapshot>>
    BY DEF WriteAlias
  <1>. HIDE DEF k, a
  <1>4. FilesOK'
    BY <1>2, <1>3, PutKeys DEF FilesOK, QueryInv
  <1>5. JobOK(Ended(j))
    BY <1>1, EndedOK DEF JobOK
  <1>6. j.then = "decide" => JobOK(Goto(p, "decide"))
    <2>1. "decide" \in Positions
      BY DEF Positions
    <2>. DEFINE new == Goto(p, "decide")
    <2>. HIDE DEF new
    <2>2. j.then = "decide" => JobOK(new)
      BY <1>1, <2>1, GotoFields DEF JobOK, AnswerFits, Informed, new
    <2>. QED  BY <2>2 DEF new
  <1>7. Set(p, Ended(j)) \/ (j.then = "decide" /\ Set(p, Goto(p, "decide")))
    BY <1>1 DEF WriteAlias
  <1>8. tree' = tree /\ up' = up /\ jobs' = jobs /\ MemoryOK'
    BY StillMemory DEF WriteAlias, env
  <1>. QED  BY <1>4, <1>5, <1>6, <1>7, <1>8, JobStepOK DEF QueryInv

\* What is released at once, or written first: the same job with a result.
LEMMA ResultFields ==
  ASSUME NEW p \in Processes, job[p] \in Job,
         NEW result \in {"none", "answer_ready", "evidence_only", "failed"}
  PROVE  LET new == [job[p] EXCEPT !.result = result] IN
         /\ new \in Job /\ new.result = result /\ new.found = job[p].found
         /\ new.answer = job[p].answer /\ new.mode = job[p].mode /\ new.label = job[p].label
  BY DEF Job

\* What terminal_payload makes of a job that has no answer to give.
LEMMA TerminalOK ==
  ASSUME QueryInv, NEW p \in Processes, At(p, "decide"),
         NEW result \in {"evidence_only", "failed"}, Terminal(p, result),
         result = "failed" => job[p].found.evidence = NoEvidence
  PROVE  \E new : JobOK(new) /\ Set(p, new)
  <1>. DEFINE j == job[p]
              released == [j EXCEPT !.result = result]
              kept == [j EXCEPT !.pc = "stage", !.result = result, !.released = TRUE,
                                !.then = "done"]
  <1>1. /\ j \in Job /\ JobOK(j) /\ j.pc = "decide" /\ "stage" \in Positions
        /\ j.label \in Fps /\ j.index \in Index /\ PreOK(j.pre) /\ StageOK(j.found)
        /\ j.number # 0 /\ (j.answer # 0 => AnswerFits(j))
    BY JobFacts DEF At, Positions, JobOK, Informed
  <1>2. JobOK(Ended(released))
    <2>1. /\ released \in Job /\ released.found = j.found /\ released.answer = j.answer
          /\ released.result = result
      BY <1>1, ResultFields
    <2>. HIDE DEF released
    <2>. QED  BY <1>1, <2>1, EndedOK DEF AnswerFits
  <1>3. j.found.evidence # NoEvidence => JobOK(kept)
    <2>1. kept \in Job
      BY <1>1 DEF Job
    <2>2. kept.pc = "stage" /\ kept.result = result /\ kept.then = "done"
      BY <1>1 DEF Job
    <2>3. /\ kept.found = j.found /\ kept.pre = j.pre /\ kept.label = j.label
          /\ kept.number = j.number /\ kept.answer = j.answer /\ kept.index = j.index
      BY <1>1 DEF Job
    <2>. HIDE DEF kept
    <2>. QED  BY <1>1, <2>1, <2>2, <2>3 DEF JobOK, AnswerFits, Informed
  <1>. QED  BY <1>2, <1>3 DEF Terminal

\* Ending without synthesis keeps the invariant.
LEMMA DecideOK ==
  ASSUME QueryInv, NEW p \in Processes, Decide(p)
  PROVE  QueryInv'
  <1>. DEFINE j == job[p]
              cached == [j EXCEPT !.answer = j.found.answer, !.result = "answer_ready"]
              asked == [j EXCEPT !.pc = "synthesis", !.tier = "p40-synthesis", !.try = 1]
  <1>1. /\ j \in Job /\ JobOK(j) /\ j.pc = "decide" /\ "synthesis" \in Positions
        /\ j.label \in Fps /\ j.index \in Index /\ PreOK(j.pre) /\ StageOK(j.found)
        /\ j.number # 0 /\ (j.answer # 0 \/ j.result = "answer_ready" => AnswerFits(j))
        /\ (j.result = "failed" => j.found.evidence = NoEvidence
                                     \/ (j.mode = "answer" /\ Backed(j.found.evidence)))
    BY JobFacts DEF Decide, At, Positions, JobOK, Informed
  <1>2. AnswerIsCached(p) => JobOK(Ended(cached))
    <2>1. j.found \in Stage /\ j.found.answer \in 0 .. MaxJobs
      BY <1>1 DEF StageOK, Stage
    <2>2. cached \in Job
      BY <1>1, <2>1 DEF Job
    <2>3. cached.answer = j.found.answer /\ cached.result = "answer_ready" /\ cached.found = j.found
      BY <1>1, <2>1 DEF Job
    <2>. HIDE DEF cached
    <2>4. AnswerIsCached(p) => AnswerFits(cached)
      BY <1>1, <2>3 DEF AnswerIsCached, AnswerFits, StageOK
    <2>. QED  BY <1>1, <2>2, <2>3, <2>4, EndedOK
  <1>3. Backed(j.found.evidence) => JobOK(asked)
    <2>1. "p40-synthesis" \in Tiers /\ 1 \in 0 .. 2
      BY DEF Tiers
    <2>2. asked \in Job
      BY <1>1, <2>1 DEF Job
    <2>3. asked.pc = "synthesis" /\ asked.tier = "p40-synthesis" /\ asked.try = 1
      BY <1>1, <2>1 DEF Job
    <2>4. /\ asked.found = j.found /\ asked.pre = j.pre /\ asked.label = j.label
          /\ asked.number = j.number /\ asked.answer = j.answer /\ asked.index = j.index
          /\ asked.result = j.result /\ asked.mode = j.mode
      BY <1>1, <2>1 DEF Job
    <2>. HIDE DEF asked
    <2>. QED  BY <1>1, <2>2, <2>3, <2>4 DEF JobOK, AnswerFits, Informed
  <1>4. FallbackResult(p) \in {"evidence_only", "failed"}
        /\ (FallbackResult(p) = "failed" => j.found.evidence = NoEvidence)
    BY DEF FallbackResult
  <1>5. \/ AnswerIsCached(p) /\ Set(p, Ended(cached))
        \/ Terminal(p, "evidence_only")
        \/ Terminal(p, FallbackResult(p))
        \/ Backed(j.found.evidence) /\ Set(p, asked)
    BY DEF Decide
  <1>. HIDE DEF cached, asked
  <1>6. \E new : JobOK(new) /\ Set(p, new)
    <2>1. At(p, "decide")
      BY DEF Decide
    <2>. QED  BY <1>2, <1>3, <1>4, <1>5, <2>1, TerminalOK
  <1>7. /\ tree' = tree /\ up' \in BOOLEAN /\ jobs' = jobs /\ FilesOK' /\ MemoryOK'
    BY StillFiles, StillMemory DEF Decide, env, QueryInv
  <1>. QED  BY <1>6, <1>7, JobStepOK

\* An answer of a tier keeps the invariant: it is an answer to the evidence of
\* its job.
LEMMA SynthesiseOK ==
  ASSUME QueryInv, NEW p \in Processes, Synthesise(p)
  PROVE  QueryInv'
  <1>. DEFINE j == job[p]
              by == j.found.evidence.by
              new == [j EXCEPT !.pc = "stage", !.answer = by, !.result = "answer_ready",
                               !.released = FALSE, !.then = "done"]
  <1>1. /\ j \in Job /\ JobOK(j) /\ j.pc = "synthesis" /\ "stage" \in Positions
        /\ j.label \in Fps /\ j.index \in Index /\ PreOK(j.pre) /\ StageOK(j.found)
        /\ j.number # 0 /\ Backed(j.found.evidence)
    BY JobFacts DEF Synthesise, At, Positions, JobOK, Informed
  <1>2. j.found \in Stage /\ j.found.evidence \in Evidence /\ by \in 0 .. MaxJobs
    BY <1>1 DEF StageOK, Stage, Evidence
  <1>3. j.found.evidence # NoEvidence
    BY <1>1 DEF Backed, NoEvidence
  <1>4. new \in Job
    BY <1>1, <1>2 DEF Job
  <1>5. new.pc = "stage" /\ new.answer = by /\ new.result = "answer_ready" /\ new.then = "done"
    BY <1>1, <1>2 DEF Job
  <1>6. /\ new.found = j.found /\ new.pre = j.pre /\ new.label = j.label
        /\ new.number = j.number /\ new.index = j.index
    BY <1>1, <1>2 DEF Job
  <1>7. Set(p, new)
    BY DEF Synthesise
  <1>. HIDE DEF new
  <1>8. JobOK(new)
    BY <1>1, <1>3, <1>4, <1>5, <1>6 DEF JobOK, AnswerFits, Informed
  <1>. QED  BY <1>7, <1>8, StillFiles, StillMemory, JobStepOK DEF Synthesise, env, QueryInv

\* A tier that fails keeps the invariant.
LEMMA FailToSynthesiseOK ==
  ASSUME QueryInv, NEW p \in Processes, NEW c \in Categories, FailToSynthesise(p, c)
  PROVE  QueryInv'
  <1>. DEFINE j == job[p]
              again == [j EXCEPT !.try = @ + 1, !.last = c]
              next == [j EXCEPT !.tier = NextTier(p, c), !.try = 1, !.last = c]
              result == IF j.mode = "answer" THEN "failed" ELSE "evidence_only"
              over == [j EXCEPT !.result = result]
  <1>1. /\ j \in Job /\ JobOK(j) /\ j.pc = "synthesis" /\ c \in Categories \cup {"none"}
        /\ j.label \in Fps /\ j.index \in Index /\ PreOK(j.pre) /\ StageOK(j.found)
        /\ j.number # 0 /\ Backed(j.found.evidence) /\ j.tier # "none" /\ j.try # 0
        /\ (j.answer # 0 \/ j.result = "answer_ready" => AnswerFits(j))
        /\ (j.result = "failed" => j.found.evidence = NoEvidence
                                     \/ (j.mode = "answer" /\ Backed(j.found.evidence)))
    BY JobFacts DEF FailToSynthesise, At, JobOK, Informed
  <1>2. TriesAgain(p, c) => JobOK(again)
    <2>. SUFFICES ASSUME TriesAgain(p, c) PROVE JobOK(again)
      OBVIOUS
    <2>1. j.try + 1 = 2 /\ 2 \in 0 .. 2
      BY DEF TriesAgain
    <2>2. again \in Job
      BY <1>1, <2>1 DEF Job
    <2>3. again.try = 2 /\ again.pc = "synthesis" /\ again.tier = j.tier
      BY <1>1, <2>1 DEF Job
    <2>4. /\ again.found = j.found /\ again.pre = j.pre /\ again.label = j.label
          /\ again.number = j.number /\ again.answer = j.answer /\ again.index = j.index
          /\ again.result = j.result /\ again.mode = j.mode
      BY <1>1, <2>1 DEF Job
    <2>. HIDE DEF again
    <2>. QED  BY <1>1, <2>2, <2>3, <2>4 DEF JobOK, AnswerFits, Informed
  <1>3. NextTier(p, c) # "none" => JobOK(next)
    <2>. SUFFICES ASSUME NextTier(p, c) # "none" PROVE JobOK(next)
      OBVIOUS
    <2>1. NextTier(p, c) \in Tiers /\ 1 \in 0 .. 2
      BY DEF NextTier, Tiers
    <2>2. next \in Job
      BY <1>1, <2>1 DEF Job
    <2>3. next.try = 1 /\ next.pc = "synthesis" /\ next.tier # "none"
      BY <1>1, <2>1 DEF Job
    <2>4. /\ next.found = j.found /\ next.pre = j.pre /\ next.label = j.label
          /\ next.number = j.number /\ next.answer = j.answer /\ next.index = j.index
          /\ next.result = j.result /\ next.mode = j.mode
      BY <1>1, <2>1 DEF Job
    <2>. HIDE DEF next
    <2>. QED  BY <1>1, <2>2, <2>3, <2>4 DEF JobOK, AnswerFits, Informed
  <1>4. JobOK(Ended(over))
    <2>1. result \in {"evidence_only", "failed"} /\ (result = "failed" => j.mode = "answer")
      OBVIOUS
    <2>. HIDE DEF result
    <2>2. /\ over \in Job /\ over.found = j.found /\ over.answer = j.answer
          /\ over.result = result /\ over.mode = j.mode
      BY <1>1, <2>1, ResultFields
    <2>. HIDE DEF over
    <2>. QED  BY <1>1, <2>1, <2>2, EndedOK DEF AnswerFits
  <1>5. \/ TriesAgain(p, c) /\ Set(p, again)
        \/ NextTier(p, c) # "none" /\ Set(p, next)
        \/ Set(p, Ended(over))
    BY DEF FailToSynthesise, AskedTwice, Exhausted
  <1>. HIDE DEF again, next, over
  <1>6. \E new : JobOK(new) /\ Set(p, new)
    BY <1>2, <1>3, <1>4, <1>5
  <1>7. /\ tree' = tree /\ up' \in BOOLEAN /\ jobs' = jobs /\ FilesOK' /\ MemoryOK'
    BY StillFiles, StillMemory DEF FailToSynthesise, env, QueryInv
  <1>. QED  BY <1>6, <1>7, JobStepOK

\* A process that ends, or is killed, forgets what it has read and no more.
LEMMA ForgetOK ==
  ASSUME QueryInv, NEW p \in Processes, Forget(p)
  PROVE  MemoryOK'
  <1>1. DOMAIN states = Processes /\ DOMAIN repos = Processes
    BY DEF QueryInv, MemoryOK
  <1>2. DOMAIN Nothing = {}
    BY DEF Nothing
  <1>3. \A q \in Processes : (states'[q] = states[q] \/ states'[q] = Nothing)
                          /\ (repos'[q] = repos[q] \/ repos'[q] = Nothing)
    BY <1>1 DEF Forget
  <1>4. DOMAIN states' = Processes /\ DOMAIN repos' = Processes
    BY <1>1 DEF Forget
  <1>. QED  BY <1>2, <1>3, <1>4 DEF QueryInv, MemoryOK

\* A process that ends or is killed keeps the invariant.
LEMMA GoneOK ==
  ASSUME QueryInv, NEW p \in Processes, Exit(p) \/ Kill(p)
  PROVE  QueryInv'
  <1>1. /\ Set(p, NoJob) /\ Forget(p) /\ UNCHANGED files
        /\ tree' = tree /\ up' \in BOOLEAN /\ jobs' = jobs
    BY DEF Exit, Kill, env, QueryInv
  <1>. QED  BY <1>1, NoJobOK, StillFiles, ForgetOK, JobStepOK

\* Edits, and services that come and go, keep the invariant.
LEMMA WorldOK ==
  ASSUME QueryInv, (\E f \in Fps : Edit(f)) \/ ServiceGoes \/ ServiceComes
  PROVE  QueryInv'
  <1>1. /\ tree' \in Fps /\ up' \in BOOLEAN /\ UNCHANGED <<files, memory, jobs, job>>
    BY DEF Edit, ServiceGoes, ServiceComes, QueryInv
  <1>. QED  BY <1>1, StillFiles, StillMemory DEF QueryInv

\* Empty caches satisfy the invariant.
LEMMA QueryInit == Init => QueryInv
  <1>. SUFFICES ASSUME Init PROVE QueryInv
    OBVIOUS
  <1>1. DOMAIN Nothing = {}
    BY DEF Nothing
  <1>2. job \in [Processes -> Job] /\ \A p \in Processes : JobOK(job[p])
    BY NoJobFields, NoJobOK DEF Init
  <1>3. FilesOK /\ MemoryOK
    BY <1>1 DEF Init, FilesOK, MemoryOK
  <1>4. tree \in Fps /\ up \in BOOLEAN /\ jobs \in 0 .. MaxJobs
    BY QueryAssumption DEF Init
  <1>. QED  BY <1>2, <1>3, <1>4 DEF QueryInv

\* Every step keeps the invariant.
LEMMA QueryNext == QueryInv /\ [Next]_vars => QueryInv'
  <1>. SUFFICES ASSUME QueryInv, [Next]_vars PROVE QueryInv'
    OBVIOUS
  <1>1. ASSUME NEW p \in Processes, Step(p) PROVE QueryInv'
    BY <1>1, PrefetchOK, ProbeOK, RetrieveNothingOK, RetrieveOK, WriteStageOK, WriteAliasOK,
       DecideOK, SynthesiseOK, FailToSynthesiseOK, ZenonT(60) DEF Step
  <1>2. CASE UNCHANGED vars
    BY <1>2, StillFiles, StillMemory DEF vars, files, memory, QueryInv
  <1>. QED  BY <1>1, <1>2, SubmitOK, GoneOK, WorldOK, ZenonT(60) DEF Next

\* The inductive invariant, whatever is edited while jobs are under way.
THEOREM QueryInvariant == Spec => []QueryInv
  BY QueryInit, QueryNext, PTL DEF Spec

\* The fields and files of inspect_repo stay what they are declared to be: a
\* model is asked at most twice, and no stage file is without evidence.
THEOREM QueryTypeCorrect == Spec => []QueryTypeOK
  <1>1. QueryInv => QueryTypeOK
    BY DEF QueryInv, FilesOK, JobOK, Job, StageOK, QueryTypeOK
  <1>. QED  BY <1>1, QueryInvariant, PTL

\* No answer is released with evidence it was not synthesised from, whatever
\* other processes write to the shared stage files, however often the
\* repository is edited under way, and whichever process is killed.
THEOREM AnswersAreEarned == Spec => []AnswerIsEarned
  <1>1. QueryInv => AnswerIsEarned
    BY DEF QueryInv, FilesOK, JobOK, StageOK, AnswerFits, AnswerIsEarned
  <1>. QED  BY <1>1, QueryInvariant, PTL

-----------------------------------------------------------------------------
(* Evidence is that of the repository the job was submitted for, when the  *)
(* repository is left alone while jobs are under way.                      *)

\* No evidence quotes no other state.
LEMMA NothingIsOwn ==
  \A label : Quotes(NoEvidence, label) /\ Quotes(NoStage.evidence, label)
             /\ PreOwn(NotPrefetched, label)
  BY NotPrefetchedOK DEF Quotes, PreOwn, NoStage

\* A stage entry of a state has evidence of that state.
LEMMA StageOfOwn ==
  ASSUME OwnInv, NEW label, NEW second, NEW sig
  PROVE  Quotes(StageOf(<<label, second>>, sig).evidence, label)
  <1>. DEFINE k == StageKey(<<label, second>>, sig)
  <1>1. k[1][1] = label
    BY DEF StageKey
  <1>. HIDE DEF k
  <1>2. StageOf(<<label, second>>, sig) = NoStage
        \/ (k \in DOMAIN stage /\ StageOf(<<label, second>>, sig) = stage[k])
    BY GetOrDefault DEF StageOf, k
  <1>. QED  BY <1>1, <1>2, NothingIsOwn DEF OwnInv

\* An alias of a state leads to the index of that state.
LEMMA AliasOfOwn ==
  ASSUME OwnInv, NEW label, NEW sig
  PROVE  /\ AliasOf(label, sig).index \in {NoIndex, <<label, label>>}
         /\ Quotes(AliasOf(label, sig).released, label)
         /\ AliasOf(label, sig) # NoAlias => AliasOf(label, sig).index = <<label, label>>
  <1>. DEFINE k == AliasKey(label, sig)
  <1>1. k[1] = label
    BY DEF AliasKey
  <1>. HIDE DEF k
  <1>2. AliasOf(label, sig) = NoAlias
        \/ (k \in DOMAIN alias /\ AliasOf(label, sig) = alias[k])
    BY GetOrDefault DEF AliasOf, k
  <1>3. NoAlias.index = NoIndex /\ NoAlias.released = NoEvidence
    BY DEF NoAlias
  <1>. QED  BY <1>1, <1>2, <1>3, NothingIsOwn DEF OwnInv

\* So the stage found through an alias has evidence of the state.
LEMMA AliasedStageOwn ==
  ASSUME OwnInv, NEW label, NEW sig
  PROVE  Quotes(AliasedStage(label, sig).evidence, label)
  <1>. DEFINE a == AliasOf(label, sig)
              kept == [evidence |-> a.released, answer |-> 0]
  <1>1. Quotes(kept.evidence, label)
    BY AliasOfOwn
  <1>2. a # NoAlias => Quotes(StageOf(a.index, sig).evidence, label)
    BY AliasOfOwn, StageOfOwn
  <1>3. \/ AliasedStage(label, sig) = NoStage
        \/ AliasedStage(label, sig) = kept
        \/ a # NoAlias /\ AliasedStage(label, sig) = StageOf(a.index, sig)
    BY DEF AliasedStage
  <1>. QED  BY <1>1, <1>2, <1>3, NothingIsOwn

\* Whatever is found by alias or by snapshot is of the fingerprint asked for.
LEMMA FoundOwn ==
  ASSUME QueryInv, OwnInv, NEW label
  PROVE  PreOwn(ByAlias(label), label) /\ PreOwn(BySnapshot(label), label)
  <1>1. PreOwn(ByAlias(label), label)
    <2>. DEFINE sig == IF Signature \in AliasHits(label) THEN Signature ELSE "lexical"
    <2>1. /\ ByAlias(label).stage = AliasedStage(label, sig)
          /\ ByAlias(label).index = AliasOf(label, sig).index
      BY DEF ByAlias
    <2>. HIDE DEF sig
    <2>. QED  BY <2>1, AliasedStageOwn, AliasOfOwn DEF PreOwn
  <1>2. PreOwn(BySnapshot(label), label)
    <2>1. CASE ~Chunked(label)
      <3>1. BySnapshot(label) = [NotPrefetched EXCEPT !.sig = Signature]
        BY <2>1 DEF BySnapshot
      <3>2. BySnapshot(label).stage = NotPrefetched.stage /\ BySnapshot(label).index = NotPrefetched.index
        BY <3>1, NotPrefetchedOK DEF PreOK, Pre
      <3>. QED  BY <3>2, NothingIsOwn DEF PreOwn
    <2>2. CASE Chunked(label)
      <3>1. snapshot[label] = label
        BY <2>2 DEF Chunked, OwnInv
      <3>2. /\ BySnapshot(label).stage = StageOf(<<label, snapshot[label]>>, Signature)
            /\ BySnapshot(label).index = <<label, snapshot[label]>>
        BY <2>2 DEF BySnapshot
      <3>. QED  BY <3>1, <3>2, StageOfOwn DEF PreOwn
    <2>. QED  BY <2>1, <2>2
  <1>. QED  BY <1>1, <1>2

\* What a process prefetches is of the state its job is about.
LEMMA PrefetchedOwn ==
  ASSUME QueryInv, OwnInv, NEW p \in Processes
  PROVE  PreOwn(Prefetched(p), job[p].label)
  <1>1. StateKey(p)[2] = job[p].label
    BY DEF StateKey
  <1>2. Known(p) # NotCached => PreOwn(Known(p), job[p].label)
    <2>. DEFINE k == StateKey(p)
    <2>1. k[2] = job[p].label
      BY <1>1
    <2>. HIDE DEF k
    <2>2. Known(p) = NotCached \/ (k \in DOMAIN states[p] /\ Known(p) = states[p][k])
      BY GetOrDefault DEF Known, k
    <2>. QED  BY <2>1, <2>2 DEF OwnInv
  <1>3. KnownRepo(p) # NotCached => PreOwn(KnownRepo(p), job[p].label)
    BY GetOrDefault DEF KnownRepo, OwnInv
  <1>. QED  BY <1>2, <1>3, FoundOwn DEF Prefetched

\* The parts of OwnInv that are about the memory of the processes.
MemoryOwn ==
  \A p \in Processes : /\ \A k \in DOMAIN states[p] : PreOwn(states[p][k], k[2])
                       /\ \A f \in DOMAIN repos[p] : PreOwn(repos[p][f], f)

\* Remembering it keeps the process caches true to their states.
LEMMA RememberOwn ==
  ASSUME QueryInv, OwnInv, NEW p \in Processes, NEW pre, PreOK(pre),
         PreOwn(pre, job[p].label), Remember(p, pre)
  PROVE  MemoryOwn'
  <1>1. CASE UNCHANGED memory
    BY <1>1 DEF memory, OwnInv, MemoryOwn
  <1>2. CASE /\ states' = [states EXCEPT ![p] = Put(@, StateKey(p), pre)]
             /\ repos' = [repos EXCEPT ![p] = Put(@, job[p].label, ForgetStage(pre))]
    <2>1. DOMAIN states = Processes /\ DOMAIN repos = Processes
      BY DEF QueryInv, MemoryOK
    <2>2. StateKey(p)[2] = job[p].label
      BY DEF StateKey
    <2>3. ASSUME NEW q \in Processes, NEW k \in DOMAIN states'[q]
          PROVE  PreOwn(states'[q][k], k[2])
      <3>1. states'[q] = states[q] \/ states'[q] = Put(states[q], StateKey(p), pre)
        BY <1>2, <2>1
      <3>. QED  BY <2>2, <3>1, PutKeys DEF OwnInv
    <2>4. ASSUME NEW q \in Processes, NEW f \in DOMAIN repos'[q]
          PROVE  PreOwn(repos'[q][f], f)
      <3>1. repos'[q] = repos[q] \/ repos'[q] = Put(repos[q], job[p].label, ForgetStage(pre))
        BY <1>2, <2>1
      <3>2. PreOwn(ForgetStage(pre), job[p].label)
        BY ForgetStageOK, NothingIsOwn DEF PreOwn
      <3>. QED  BY <3>1, <3>2, PutKeys DEF OwnInv
    <2>. QED  BY <2>3, <2>4 DEF MemoryOwn
  <1>. QED  BY <1>1, <1>2 DEF Remember

\* The parts of OwnInv that are about the files.
FilesOwn ==
  /\ \A f \in DOMAIN snapshot : snapshot[f] = f
  /\ \A k \in DOMAIN stage : Quotes(stage[k].evidence, k[1][1])
  /\ \A k \in DOMAIN alias :
       alias[k].index = <<k[1], k[1]>> /\ Quotes(alias[k].released, k[1])

\* Files stay true to their states if nothing is written.
LEMMA StillFilesOwn ==
  ASSUME OwnInv, UNCHANGED files
  PROVE  FilesOwn'
  BY DEF OwnInv, FilesOwn, files

\* Process caches do if nothing is remembered.
LEMMA StillMemoryOwn ==
  ASSUME OwnInv, UNCHANGED memory
  PROVE  MemoryOwn'
  BY DEF OwnInv, MemoryOwn, memory

\* A step of one job.
LEMMA JobStepOwn ==
  ASSUME QueryInv, OwnInv, NEW p \in Processes, NEW new, JobOwn(new), Set(p, new),
         tree' = tree, FilesOwn', MemoryOwn'
  PROVE  OwnInv'
  <1>1. \A q \in Processes : job'[q] = new \/ job'[q] = job[q]
    BY DEF QueryInv, Set
  <1>2. ASSUME NEW q \in Processes PROVE JobOwn(job[q])'
    <2>1. JobOwn(job'[q])
      BY <1>1 DEF OwnInv
    <2>. QED  BY <2>1 DEF JobOwn
  <1>. QED  BY <1>2 DEF OwnInv, FilesOwn, MemoryOwn

\* A process without a job is about no state.
LEMMA NoJobOwn == JobOwn(NoJob)
  BY NoJobFields, NothingIsOwn DEF JobOwn, Informed

\* A new job is about the state the broker fingerprinted.
LEMMA SubmitOwn ==
  ASSUME QueryInv, OwnInv, NEW p \in Processes, NEW m \in Modes, Submit(p, m)
  PROVE  OwnInv'
  <1>. DEFINE new == [NoJob EXCEPT !.pc = "prefetch", !.number = jobs', !.mode = m,
                                   !.label = tree]
  <1>1. /\ new.pc = "prefetch" /\ new.label = tree /\ new.found = NoStage
        /\ new.pre = NotPrefetched
    BY NoJobFields DEF Job
  <1>2. Set(p, new)
    BY DEF Submit
  <1>. HIDE DEF new
  <1>3. JobOwn(new)
    BY <1>1, NothingIsOwn DEF JobOwn, Informed
  <1>. QED  BY <1>2, <1>3, StillFilesOwn, StillMemoryOwn, JobStepOwn DEF Submit, env

\* A job prefetches evidence of its state only.
LEMMA PrefetchOwn ==
  ASSUME QueryInv, OwnInv, NEW p \in Processes, Prefetch(p)
  PROVE  OwnInv'
  <1>. DEFINE j == job[p]
              pre == Prefetched(p)
              outage == ~up
              fallback == [j EXCEPT !.found = pre.stage, !.outage = outage, !.result = "evidence_only"]
              next == [j EXCEPT !.pc = "probe", !.pre = pre, !.outage = outage]
  <1>1. /\ j \in Job /\ JobOK(j) /\ j.pc = "prefetch" /\ j.label \in Fps /\ JobOwn(j)
    BY JobFacts DEF Prefetch, At, JobOK, OwnInv
  <1>2. /\ PreOK(pre) /\ outage \in BOOLEAN /\ Remember(p, pre) /\ PreOwn(pre, j.label)
    BY <1>1, PrefetchedOK, PrefetchedOwn DEF Prefetch
  <1>3. Set(p, IF IsFallback(pre) THEN Ended(fallback) ELSE next)
    BY DEF Prefetch
  <1>4. pre \in Pre /\ pre.stage \in Stage /\ StageOK(pre.stage)
    BY <1>2 DEF PreOK, StageOK
  <1>. HIDE DEF pre, outage
  <1>5. IsFallback(pre) => JobOwn(Ended(fallback))
    <2>1. fallback \in Job /\ fallback.found = pre.stage
      BY <1>1, <1>2, <1>4 DEF Job
    <2>2. fallback.label = j.label
      BY <1>1, <1>2, <1>4 DEF Job
    <2>. HIDE DEF fallback
    <2>3. IsFallback(pre) => pre.stage.evidence # NoEvidence
      BY <1>4 DEF IsFallback, StageOK
    <2>. QED  BY <1>2, <2>1, <2>2, <2>3, EndedFields, NothingIsOwn DEF JobOwn, PreOwn, Informed
  <1>6. JobOwn(next)
    <2>1. next.pc = "probe" /\ next.pre = pre /\ next.found = j.found /\ next.label = j.label
      BY <1>1, <1>2, <1>4 DEF Job
    <2>. HIDE DEF next
    <2>. QED  BY <1>1, <1>2, <2>1 DEF JobOwn, Informed
  <1>7. FilesOwn' /\ MemoryOwn' /\ tree' = tree
    BY <1>2, StillFilesOwn, RememberOwn DEF Prefetch, env
  <1>. QED  BY <1>3, <1>5, <1>6, <1>7, JobStepOwn

\* It takes evidence from the stage of its state only.
LEMMA ProbeOwn ==
  ASSUME QueryInv, OwnInv, NEW p \in Processes, Probe(p)
  PROVE  OwnInv'
  <1>. DEFINE j == job[p]
              known == KnownIndex(p)
              index == IF known # NoIndex THEN known ELSE <<j.label, tree>>
              found == CachedStage(p, index)
              pc == IF found # NoStage THEN "decide" ELSE "retrieve"
              outage == j.outage \/ ~up
              new == [j EXCEPT !.pc = pc, !.sig = Signature, !.index = index, !.found = found,
                               !.outage = outage]
  <1>1. /\ j \in Job /\ JobOK(j) /\ j.pc = "probe" /\ j.label \in Fps /\ PreOK(j.pre)
        /\ JobOwn(j) /\ j.label = tree /\ PreOwn(j.pre, j.label)
    BY JobFacts DEF Probe, At, JobOK, OwnInv, JobOwn
  <1>2. index = <<j.label, j.label>>
    BY <1>1 DEF KnownIndex, PreOwn, OwnInv, Chunked
  <1>3. /\ StageOK(found) /\ Quotes(found.evidence, j.label)
    BY <1>1, <1>2, StageOfOK, StageOfOwn DEF CachedStage, PreOK, PreOwn
  <1>4. Set(p, new) /\ (pc = "decide" => found # NoStage) /\ pc \in {"decide", "retrieve"}
    BY DEF Probe
  <1>5. FilesOwn'
    <2>1. snapshot' = snapshot \/ snapshot' = Put(snapshot, j.label, tree)
      BY DEF Probe
    <2>2. \A f \in DOMAIN snapshot' : snapshot'[f] = f
      BY <1>1, <2>1, PutKeys DEF OwnInv
    <2>. QED  BY <2>2 DEF Probe, OwnInv, FilesOwn
  <1>. HIDE DEF index, found, pc, outage
  <1>6. /\ new.pc = pc /\ new.index = index /\ new.found = found /\ new.pre = j.pre
        /\ new.label = j.label
    BY <1>1 DEF Job
  <1>. HIDE DEF new
  <1>7. JobOwn(new)
    BY <1>1, <1>2, <1>3, <1>4, <1>6 DEF JobOwn, Informed, StageOK
  <1>. QED  BY <1>4, <1>5, <1>7, StillMemoryOwn, JobStepOwn DEF Probe, env

\* It retrieves from the index of its state, as nobody edits in between.
LEMMA RetrieveOwn ==
  ASSUME QueryInv, OwnInv, NEW p \in Processes, NEW outcome \in Outcomes, Retrieve(p, outcome)
  PROVE  OwnInv'
  <1>. DEFINE j == job[p]
              failed == outcome # <<"gpu", "gpu">>
              e == EvidenceOf(p, outcome)
              found == [evidence |-> e, answer |-> 0]
              pc == IF j.mode = "evidence" THEN "decide" ELSE "stage"
              outage == j.outage \/ failed
              new == [j EXCEPT !.pc = pc, !.found = found, !.outage = outage, !.then = "decide"]
  <1>1. /\ j \in Job /\ JobOK(j) /\ j.pc = "retrieve" /\ j.index \in Index /\ JobOwn(j)
        /\ j.index = <<j.label, j.label>> /\ j.label = tree
    BY JobFacts DEF Retrieve, At, JobOK, OwnInv, JobOwn
  <1>2. e # NoEvidence /\ e.of = j.label
    BY <1>1, EvidenceOfOK
  <1>3. Set(p, new) /\ pc \in {"decide", "stage"}
    BY DEF Retrieve
  <1>. HIDE DEF e, pc, outage
  <1>4. found.evidence = e
    OBVIOUS
  <1>. HIDE DEF found
  <1>5. /\ new.pc = pc /\ new.found = found /\ new.index = j.index /\ new.pre = j.pre
        /\ new.label = j.label
    BY <1>1 DEF Job
  <1>. HIDE DEF new
  <1>6. JobOwn(new)
    BY <1>1, <1>2, <1>3, <1>4, <1>5 DEF JobOwn, Informed, Quotes
  <1>. QED  BY <1>3, <1>6, StillFilesOwn, StillMemoryOwn, JobStepOwn DEF Retrieve

\* What a job has found stays with it until it is over.
Moves(j, new) ==
  /\ new.found = j.found /\ new.label = j.label /\ new.pre \in {j.pre, NotPrefetched}
  /\ new.pc \in Informed \cup {"done"} /\ (new.pc # "done" => new.index = j.index)

\* A step that changes neither evidence nor state keeps a job true to its
\* state.
LEMMA MovesOwn ==
  ASSUME NEW j, NEW new, JobOwn(j), Moves(j, new),
         j.pc \in Informed \/ (j.pc = "retrieve" /\ j.label \in Empty)
  PROVE  JobOwn(new)
  BY NothingIsOwn DEF JobOwn, Moves, Informed

\* Ending is such a step.
LEMMA EndedMoves ==
  ASSUME NEW j \in Job, NEW new \in Job, new.found = j.found, new.label = j.label
  PROVE  Moves(j, Ended(new))
  BY EndedFields DEF Moves

\* Finding nothing is one as well.
LEMMA RetrieveNothingOwn ==
  ASSUME QueryInv, OwnInv, NEW p \in Processes, RetrieveNothing(p)
  PROVE  OwnInv'
  <1>. DEFINE new == Goto(p, "decide")
  <1>1. /\ job[p] \in Job /\ JobOwn(job[p]) /\ job[p].pc = "retrieve" /\ "decide" \in Positions
        /\ job[p].index[2] \in Empty
    BY JobFacts DEF RetrieveNothing, At, Positions, OwnInv
  <1>2. job[p].label \in Empty
    BY <1>1 DEF JobOwn
  <1>. HIDE DEF new
  <1>3. Moves(job[p], new)
    BY <1>1, GotoFields DEF Moves, Informed, new
  <1>. QED
    BY <1>1, <1>2, <1>3, MovesOwn, StillFilesOwn, StillMemoryOwn, JobStepOwn
    DEF RetrieveNothing, env, new

\* A job writes its evidence under the index of its state.
LEMMA WriteStageOwn ==
  ASSUME QueryInv, OwnInv, NEW p \in Processes, WriteStage(p)
  PROVE  OwnInv'
  <1>. DEFINE j == job[p]
              new == Goto(p, "alias")
              k == StageKey(j.index, j.sig)
  <1>1. /\ j \in Job /\ JobOK(j) /\ JobOwn(j) /\ j.pc = "stage" /\ "alias" \in Positions
        /\ j.found.evidence # NoEvidence /\ j.index = <<j.label, j.label>>
    BY JobFacts DEF WriteStage, At, Positions, JobOK, Informed, OwnInv, JobOwn
  <1>2. k[1][1] = j.label
    BY <1>1 DEF StageKey
  <1>3. Quotes(Written(p).evidence, j.label)
    BY <1>1, WrittenOK DEF JobOwn
  <1>4. stage' = Put(stage, k, Written(p)) /\ UNCHANGED <<alias, snapshot>>
    BY DEF WriteStage
  <1>. HIDE DEF k, new
  <1>5. FilesOwn'
    BY <1>2, <1>3, <1>4, PutKeys DEF FilesOwn, OwnInv
  <1>6. Moves(j, new)
    BY <1>1, GotoFields DEF Moves, Informed, new
  <1>7. JobOwn(new)
    BY <1>1, <1>6, MovesOwn DEF Informed
  <1>. QED  BY <1>5, <1>7, StillMemoryOwn, JobStepOwn DEF WriteStage, env, new

\* It writes an alias from its state to the index of that state.
LEMMA WriteAliasOwn ==
  ASSUME QueryInv, OwnInv, NEW p \in Processes, WriteAlias(p)
  PROVE  OwnInv'
  <1>. DEFINE j == job[p]
              k == AliasKey(j.label, j.sig)
              a == [index |-> j.index,
                    released |-> IF j.released THEN j.found.evidence ELSE NoEvidence]
  <1>1. /\ j \in Job /\ JobOK(j) /\ j.pc = "alias" /\ JobOwn(j) /\ "decide" \in Positions
        /\ j.index = <<j.label, j.label>> /\ j.then \in {"decide", "done"}
    BY JobFacts DEF WriteAlias, At, JobOK, Informed, Job, OwnInv, JobOwn, Positions
  <1>2. k[1] = j.label /\ a.index = <<j.label, j.label>> /\ Quotes(a.released, j.label)
    BY <1>1, NothingIsOwn DEF AliasKey, JobOwn
  <1>3. alias' = Put(alias, k, a) /\ UNCHANGED <<stage, snapshot>>
    BY DEF WriteAlias
  <1>. HIDE DEF k, a
  <1>4. FilesOwn'
    BY <1>2, <1>3, PutKeys DEF FilesOwn, OwnInv
  <1>5. JobOwn(Ended(j))
    BY <1>1, EndedMoves, MovesOwn DEF Informed
  <1>6. JobOwn(Goto(p, "decide"))
    <2>1. Moves(j, Goto(p, "decide"))
      BY <1>1, GotoFields DEF Moves, Informed
    <2>. QED  BY <1>1, <2>1, MovesOwn DEF Informed
  <1>7. Set(p, Ended(j)) \/ Set(p, Goto(p, "decide"))
    BY <1>1 DEF WriteAlias
  <1>8. tree' = tree /\ MemoryOwn'
    BY StillMemoryOwn DEF WriteAlias, env
  <1>. QED  BY <1>4, <1>5, <1>6, <1>7, <1>8, JobStepOwn

\* Ending without synthesis changes neither evidence nor state.
LEMMA TerminalMoves ==
  ASSUME QueryInv, NEW p \in Processes, At(p, "decide"),
         NEW result \in {"evidence_only", "failed"}, Terminal(p, result)
  PROVE  \E new : Moves(job[p], new) /\ Set(p, new)
  <1>. DEFINE j == job[p]
              released == [j EXCEPT !.result = result]
              kept == [j EXCEPT !.pc = "stage", !.result = result, !.released = TRUE,
                                !.then = "done"]
  <1>1. j \in Job
    BY JobFacts
  <1>2. Moves(j, Ended(released))
    <2>1. released \in Job /\ released.found = j.found /\ released.label = j.label
      BY <1>1, ResultFields
    <2>. HIDE DEF released
    <2>. QED  BY <1>1, <2>1, EndedMoves
  <1>3. Moves(j, kept)
    BY <1>1 DEF Job, Moves, Informed
  <1>. QED  BY <1>2, <1>3 DEF Terminal

\* The steps that decide and synthesise hold on to what was found.
LEMMA DecideMoves ==
  ASSUME QueryInv, NEW p \in Processes, Decide(p)
  PROVE  \E new : Moves(job[p], new) /\ Set(p, new)
  <1>. DEFINE j == job[p]
              cached == [j EXCEPT !.answer = j.found.answer, !.result = "answer_ready"]
              asked == [j EXCEPT !.pc = "synthesis", !.tier = "p40-synthesis", !.try = 1]
  <1>1. j \in Job /\ At(p, "decide") /\ j.found.answer \in 0 .. MaxJobs
    BY JobFacts DEF Decide, Job, Stage
  <1>2. Moves(j, Ended(cached))
    <2>1. cached \in Job
      BY <1>1 DEF Job
    <2>2. cached.found = j.found /\ cached.label = j.label
      BY <1>1 DEF Job
    <2>. HIDE DEF cached
    <2>. QED  BY <1>1, <2>1, <2>2, EndedMoves
  <1>3. Moves(j, asked)
    BY <1>1 DEF Job, Moves, Informed
  <1>4. FallbackResult(p) \in {"evidence_only", "failed"}
    BY DEF FallbackResult
  <1>5. \/ Set(p, Ended(cached))
        \/ Terminal(p, "evidence_only")
        \/ Terminal(p, FallbackResult(p))
        \/ Set(p, asked)
    BY DEF Decide
  <1>. HIDE DEF cached, asked
  <1>. QED  BY <1>1, <1>2, <1>3, <1>4, <1>5, TerminalMoves

\* Nor does an answer of a tier.
LEMMA SynthesiseMoves ==
  ASSUME QueryInv, NEW p \in Processes, Synthesise(p)
  PROVE  \E new : Moves(job[p], new) /\ Set(p, new)
  <1>. DEFINE j == job[p]
              by == j.found.evidence.by
              new == [j EXCEPT !.pc = "stage", !.answer = by, !.result = "answer_ready",
                               !.released = FALSE, !.then = "done"]
  <1>1. j \in Job
    BY JobFacts
  <1>. HIDE DEF by
  <1>2. Moves(j, new)
    BY <1>1 DEF Job, Moves, Informed
  <1>. QED  BY <1>2 DEF Synthesise, by

\* Nor does a tier that fails.
LEMMA FailToSynthesiseMoves ==
  ASSUME QueryInv, NEW p \in Processes, NEW c \in Categories, FailToSynthesise(p, c)
  PROVE  \E new : Moves(job[p], new) /\ Set(p, new)
  <1>. DEFINE j == job[p]
              again == [j EXCEPT !.try = @ + 1, !.last = c]
              next == [j EXCEPT !.tier = NextTier(p, c), !.try = 1, !.last = c]
              result == IF j.mode = "answer" THEN "failed" ELSE "evidence_only"
              over == [j EXCEPT !.result = result]
  <1>1. j \in Job /\ j.pc = "synthesis"
    BY JobFacts DEF FailToSynthesise, At
  <1>2. Moves(j, again)
    BY <1>1 DEF Job, Moves, Informed
  <1>3. Moves(j, next)
    BY <1>1 DEF Job, Moves, Informed
  <1>4. Moves(j, Ended(over))
    <2>1. result \in {"none", "answer_ready", "evidence_only", "failed"}
      OBVIOUS
    <2>. HIDE DEF result
    <2>2. over \in Job /\ over.found = j.found /\ over.label = j.label
      BY <1>1, <2>1, ResultFields
    <2>. HIDE DEF over
    <2>. QED  BY <1>1, <2>2, EndedMoves
  <1>5. Set(p, again) \/ Set(p, next) \/ Set(p, Ended(over))
    BY DEF FailToSynthesise, AskedTwice, Exhausted
  <1>. HIDE DEF again, next, over
  <1>. QED  BY <1>2, <1>3, <1>4, <1>5

\* The steps after retrieval keep the invariant.
LEMMA LaterStepOwn ==
  ASSUME QueryInv, OwnInv, NEW p \in Processes,
         Decide(p) \/ Synthesise(p) \/ \E c \in Categories : FailToSynthesise(p, c)
  PROVE  OwnInv'
  <1>1. \E new : Moves(job[p], new) /\ Set(p, new)
    BY DecideMoves, SynthesiseMoves, FailToSynthesiseMoves
  <1>2. PICK new : Moves(job[p], new) /\ Set(p, new)
    BY <1>1
  <1>3. JobOwn(job[p]) /\ job[p].pc \in Informed
    BY DEF OwnInv, Decide, Synthesise, FailToSynthesise, At, Informed
  <1>4. JobOwn(new)
    BY <1>2, <1>3, MovesOwn
  <1>5. tree' = tree /\ UNCHANGED files /\ UNCHANGED memory
    BY DEF Decide, Synthesise, FailToSynthesise, env
  <1>. QED  BY <1>2, <1>4, <1>5, StillFilesOwn, StillMemoryOwn, JobStepOwn

\* A process that ends or is killed leaves nothing foreign behind.
LEMMA GoneOwn ==
  ASSUME QueryInv, OwnInv, NEW p \in Processes, Exit(p) \/ Kill(p)
  PROVE  OwnInv'
  <1>1. /\ Set(p, NoJob) /\ Forget(p) /\ UNCHANGED files /\ tree' = tree
    BY DEF Exit, Kill, env
  <1>2. DOMAIN Nothing = {}
    BY DEF Nothing
  <1>3. \A q \in Processes : (states'[q] = states[q] \/ states'[q] = Nothing)
                          /\ (repos'[q] = repos[q] \/ repos'[q] = Nothing)
    BY <1>1 DEF Forget, QueryInv, MemoryOK
  <1>4. MemoryOwn'
    BY <1>2, <1>3 DEF MemoryOwn, OwnInv
  <1>. QED  BY <1>1, <1>4, NoJobOwn, StillFilesOwn, JobStepOwn

\* An edit finds no job under way; a service that goes or comes changes no file.
LEMMA WorldOwn ==
  ASSUME ~EditsAnytime, QueryInv, OwnInv,
         (\E f \in Fps : Edit(f)) \/ ServiceGoes \/ ServiceComes
  PROVE  OwnInv'
  <1>1. UNCHANGED <<files, memory, job>>
    BY DEF Edit, ServiceGoes, ServiceComes
  <1>2. tree' = tree \/ \A p \in Processes : job[p].pc \in {"idle", "done"}
    BY DEF Edit, ServiceGoes, ServiceComes
  <1>3. ASSUME NEW p \in Processes PROVE JobOwn(job[p])'
    BY <1>1, <1>2 DEF OwnInv, JobOwn
  <1>. QED  BY <1>1, <1>3, StillFilesOwn, StillMemoryOwn DEF OwnInv, FilesOwn, MemoryOwn

\* Empty caches are true to every state.
LEMMA OwnInit == Init => OwnInv
  <1>. SUFFICES ASSUME Init PROVE OwnInv
    OBVIOUS
  <1>1. DOMAIN Nothing = {}
    BY DEF Nothing
  <1>2. \A p \in Processes : JobOwn(job[p])
    BY NoJobOwn DEF Init
  <1>. QED  BY <1>1, <1>2 DEF Init, OwnInv

\* Every step keeps caches and jobs true to their states, if nobody edits
\* while a job is under way.
LEMMA OwnNext ==
  ASSUME ~EditsAnytime
  PROVE  QueryInv /\ OwnInv /\ [Next]_vars => OwnInv'
  <1>. SUFFICES ASSUME QueryInv, OwnInv, [Next]_vars PROVE OwnInv'
    OBVIOUS
  <1>1. ASSUME NEW p \in Processes, Step(p) PROVE OwnInv'
    BY <1>1, PrefetchOwn, ProbeOwn, RetrieveNothingOwn, RetrieveOwn, WriteStageOwn,
       WriteAliasOwn, LaterStepOwn, ZenonT(60) DEF Step
  <1>2. CASE UNCHANGED vars
    <2>1. UNCHANGED <<files, memory, job, tree>>
      BY <1>2 DEF vars, files, memory
    <2>2. ASSUME NEW p \in Processes PROVE JobOwn(job[p])'
      BY <2>1 DEF OwnInv, JobOwn
    <2>. QED  BY <2>1, <2>2, StillFilesOwn, StillMemoryOwn DEF OwnInv, FilesOwn, MemoryOwn
  <1>. QED  BY <1>1, <1>2, SubmitOwn, GoneOwn, WorldOwn, ZenonT(60) DEF Next

\* Under which state of the repository everything is kept, when the repository
\* is left alone while jobs are under way.
THEOREM OwnInvariant ==
  ASSUME ~EditsAnytime
  PROVE  Spec => [](QueryInv /\ OwnInv)
  BY QueryInit, QueryNext, OwnInit, OwnNext, PTL DEF Spec

\* A repository that changes only between jobs: evidence that is released
\* quotes the state it was asked about, through whichever of the caches of
\* whichever process it came.
THEOREM EvidenceIsTheirOwn ==
  ASSUME ~EditsAnytime
  PROVE  Spec => []EvidenceIsOwn
  <1>1. OwnInv => EvidenceIsOwn
    BY DEF OwnInv, JobOwn, Quotes, At, EvidenceIsOwn
  <1>. QED  BY <1>1, OwnInvariant, PTL

\* Under the same hypothesis, a job whose repository has a file to index ends
\* with evidence, and fails only when an answer was demanded and every model
\* failed.
THEOREM EvidenceIsKept ==
  ASSUME ~EditsAnytime
  PROVE  Spec => []UsefulEvidenceIsKept
  <1>1. QueryInv /\ OwnInv => UsefulEvidenceIsKept
    BY DEF QueryInv, OwnInv, JobOwn, JobOK, At, UsefulEvidenceIsKept
  <1>. QED  BY <1>1, OwnInvariant, PTL

-----------------------------------------------------------------------------
(* Models are asked in order *)

\* Of a step of one process: which model is asked after which.
Escalates(old, new) ==
  old.tier # "none" /\ new.tier # old.tier /\ new.pc = "synthesis" =>
    \/ old.tier = "p40-synthesis" /\ new.tier = "v100-reasoning"
    \/ /\ old.tier = "v100-reasoning"
       /\ new.tier = IF new.last = "transient" THEN "a100-single" ELSE "a100-multigpu"

\* Only deciding and failing to synthesise lead to synthesis.
LEMMA OtherStepsEscalate ==
  ASSUME QueryInv, NEW p \in Processes,
         \/ Prefetch(p) \/ Probe(p) \/ RetrieveNothing(p) \/ WriteStage(p) \/ WriteAlias(p)
         \/ Synthesise(p) \/ Exit(p) \/ Kill(p)
         \/ \E o \in Outcomes : Retrieve(p, o)
         \/ \E m \in Modes : Submit(p, m)
  PROVE  \E new : Set(p, new) /\ new.pc # "synthesis"
  <1>1. job[p] \in Job /\ JobOK(job[p])
    BY JobFacts
  <1>2. Ended(job[p]).pc # "synthesis" /\ NoJob.pc # "synthesis"
    BY <1>1, EndedFields, NoJobFields
  <1>3. CASE Prefetch(p)
    <2>1. \A j : Ended(j).pc # "synthesis"
      BY NoJobFields DEF Ended, Job
    <2>. DEFINE new == [job[p] EXCEPT !.pc = "probe", !.pre = Prefetched(p), !.outage = ~up]
    <2>2. new.pc # "synthesis"
      BY <1>1 DEF Job
    <2>3. Set(p, new) \/ \E j : Set(p, Ended(j))
      BY <1>3 DEF Prefetch
    <2>. HIDE DEF new
    <2>. QED  BY <2>1, <2>2, <2>3
  <1>4. CASE Probe(p)
    <2>. DEFINE known == KnownIndex(p)
                index == IF known # NoIndex THEN known ELSE <<job[p].label, tree>>
                found == CachedStage(p, index)
                pc == IF found # NoStage THEN "decide" ELSE "retrieve"
                new == [job[p] EXCEPT !.pc = pc, !.sig = Signature, !.index = index,
                                      !.found = found, !.outage = @ \/ ~up]
    <2>1. Set(p, new) /\ pc # "synthesis"
      BY <1>4 DEF Probe
    <2>. HIDE DEF known, index, found, pc
    <2>2. new.pc = pc
      BY <1>1 DEF Job
    <2>. HIDE DEF new
    <2>. QED  BY <2>1, <2>2
  <1>5. CASE RetrieveNothing(p) \/ WriteStage(p)
    <2>1. "decide" \in Positions /\ "alias" \in Positions
      BY DEF Positions
    <2>. QED  BY <1>1, <1>5, <2>1, GotoFields DEF RetrieveNothing, WriteStage
  <1>6. CASE WriteAlias(p)
    <2>1. job[p].then \in {"decide", "done"} /\ {"decide", "done"} \subseteq Positions
      BY <1>1, <1>6 DEF WriteAlias, At, JobOK, Job, Positions
    <2>2. Goto(p, job[p].then).pc # "synthesis"
      BY <1>1, <2>1, GotoFields
    <2>. QED  BY <1>2, <1>6, <2>2 DEF WriteAlias
  <1>7. CASE Synthesise(p)
    <2>. DEFINE new == [job[p] EXCEPT !.pc = "stage", !.answer = job[p].found.evidence.by,
                                      !.result = "answer_ready", !.released = FALSE,
                                      !.then = "done"]
    <2>1. Set(p, new)
      BY <1>7 DEF Synthesise
    <2>2. new.pc # "synthesis"
      BY <1>1 DEF Job
    <2>. HIDE DEF new
    <2>. QED  BY <2>1, <2>2
  <1>8. CASE Exit(p) \/ Kill(p)
    BY <1>2, <1>8 DEF Exit, Kill
  <1>9. CASE \E o \in Outcomes : Retrieve(p, o)
    <2>1. PICK o \in Outcomes : Retrieve(p, o)
      BY <1>9
    <2>. DEFINE pc == IF job[p].mode = "evidence" THEN "decide" ELSE "stage"
                failed == o # <<"gpu", "gpu">>
                new == [job[p] EXCEPT !.pc = pc,
                                      !.found = [evidence |-> EvidenceOf(p, o), answer |-> 0],
                                      !.outage = @ \/ failed, !.then = "decide"]
    <2>2. Set(p, new) /\ pc # "synthesis"
      BY <2>1 DEF Retrieve
    <2>. HIDE DEF pc, failed
    <2>3. new.pc = pc
      BY <1>1 DEF Job
    <2>. HIDE DEF new
    <2>. QED  BY <2>2, <2>3
  <1>10. CASE \E m \in Modes : Submit(p, m)
    <2>1. PICK m \in Modes : Submit(p, m)
      BY <1>10
    <2>. DEFINE new == [NoJob EXCEPT !.pc = "prefetch", !.number = jobs', !.mode = m,
                                     !.label = tree]
    <2>2. Set(p, new)
      BY <2>1 DEF Submit
    <2>3. new.pc # "synthesis"
      BY NoJobFields DEF Job
    <2>. HIDE DEF new
    <2>. QED  BY <2>2, <2>3
  <1>. QED
    BY <1>3, <1>4, <1>5, <1>6, <1>7, <1>8, <1>9, <1>10

\* A job decides on synthesis before any tier was asked.
LEMMA DecideEscalates ==
  ASSUME QueryInv, NEW p \in Processes, Decide(p)
  PROVE  job[p].tier = "none"
  BY JobFacts DEF Decide, At, JobOK

\* After a failure a job asks the same tier once more, or the next.
LEMMA FailToSynthesiseEscalates ==
  ASSUME QueryInv, NEW p \in Processes, NEW c \in Categories, FailToSynthesise(p, c)
  PROVE  \E new : Set(p, new) /\ Escalates(job[p], new)
  <1>. DEFINE j == job[p]
              again == [j EXCEPT !.try = @ + 1, !.last = c]
              next == [j EXCEPT !.tier = NextTier(p, c), !.try = 1, !.last = c]
              result == IF j.mode = "answer" THEN "failed" ELSE "evidence_only"
              over == [j EXCEPT !.result = result]
  <1>1. j \in Job
    BY JobFacts
  <1>2. Escalates(j, again)
    BY <1>1 DEF Job, Escalates
  <1>3. NextTier(p, c) # "none" => Escalates(j, next)
    <2>1. next.tier = NextTier(p, c) /\ next.last = c
      BY <1>1 DEF Job
    <2>2. c \in {"transient", "capacity", "rejected"}
      BY QueryAssumption
    <2>. HIDE DEF next
    <2>. QED  BY <2>1, <2>2 DEF Escalates, NextTier, NeedsFourGpus
  <1>4. Ended(over).pc = "done"
    BY NoJobFields DEF Ended, Job
  <1>5. \/ Set(p, again)
        \/ NextTier(p, c) # "none" /\ Set(p, next)
        \/ Set(p, Ended(over))
    BY DEF FailToSynthesise, AskedTwice, Exhausted
  <1>. HIDE DEF again, next, over
  <1>. QED  BY <1>2, <1>3, <1>4, <1>5 DEF Escalates

\* No step goes back to an earlier tier.
LEMMA StepEscalates ==
  ASSUME QueryInv, [Next]_vars, NEW p \in Processes
  PROVE  Escalates(job[p], job'[p])
  <1>1. job \in [Processes -> Job]
    BY DEF QueryInv
  <1>2. ASSUME NEW q \in Processes, NEW new, Set(q, new), q = p => Escalates(job[p], new)
        PROVE  Escalates(job[p], job'[p])
    BY <1>1, <1>2 DEF Set, Escalates
  <1>3. ASSUME NEW q \in Processes, NEW new, Set(q, new), new.pc # "synthesis"
        PROVE  Escalates(job[p], job'[p])
    BY <1>2, <1>3 DEF Escalates
  <1>4. ASSUME NEW q \in Processes, Decide(q)
        PROVE  Escalates(job[p], job'[p])
    <2>1. PICK new : Set(q, new)
      BY <1>4, DecideMoves
    <2>. QED  BY <1>2, <1>4, <2>1, DecideEscalates DEF Escalates
  <1>5. ASSUME NEW q \in Processes, NEW c \in Categories, FailToSynthesise(q, c)
        PROVE  Escalates(job[p], job'[p])
    <2>1. PICK new : Set(q, new) /\ Escalates(job[q], new)
      BY <1>5, FailToSynthesiseEscalates
    <2>. QED  BY <1>2, <2>1
  <1>6. ASSUME NEW q \in Processes,
               \/ Prefetch(q) \/ Probe(q) \/ RetrieveNothing(q) \/ WriteStage(q) \/ WriteAlias(q)
               \/ Synthesise(q) \/ Exit(q) \/ Kill(q)
               \/ \E o \in Outcomes : Retrieve(q, o)
               \/ \E m \in Modes : Submit(q, m)
        PROVE  Escalates(job[p], job'[p])
    <2>1. PICK new : Set(q, new) /\ new.pc # "synthesis"
      BY <1>6, OtherStepsEscalate
    <2>. QED  BY <1>3, <2>1
  <1>7. ASSUME job' = job PROVE Escalates(job[p], job'[p])
    BY <1>7 DEF Escalates
  <1>8. (\E f \in Fps : Edit(f)) \/ ServiceGoes \/ ServiceComes \/ UNCHANGED vars => job' = job
    BY DEF Edit, ServiceGoes, ServiceComes, vars
  <1>9. ASSUME NEW q \in Processes, Step(q) PROVE Escalates(job[p], job'[p])
    BY <1>4, <1>5, <1>6, <1>9, ZenonT(60) DEF Step
  <1>. QED  BY <1>6, <1>7, <1>8, <1>9, ZenonT(60) DEF Next

\* P40, then four V100, then A100: no tier is left out, none is taken twice,
\* and how many A100 are taken follows from the last failure of the V100.
THEOREM TiersAreTakenInOrder == Spec => EscalationFits
  <1>1. QueryInv /\ [Next]_vars =>
          [\A p \in Processes :
             job[p].tier # "none" /\ job'[p].tier # job[p].tier /\ job'[p].pc = "synthesis" =>
               \/ job[p].tier = "p40-synthesis" /\ job'[p].tier = "v100-reasoning"
               \/ /\ job[p].tier = "v100-reasoning"
                  /\ job'[p].tier = IF job'[p].last = "transient" THEN "a100-single"
                                    ELSE "a100-multigpu"]_vars
    BY StepEscalates DEF Escalates
  <1>. QED  BY <1>1, QueryInvariant, PTL DEF Spec, EscalationFits
=============================================================================
