------------------------- MODULE RootDispatchProofs -------------------------
(***************************************************************************)
(* Proofs about the jobs of a root, for any number of shards, sessions,    *)
(* attempts and crashes, and with calls that overlap in any way.           *)
(***************************************************************************)
EXTENDS RootDispatch, WellFoundedInduction, TLAPS

JobRecord == [state : JobStates, run : RunIds \cup {NoRunId},
              forced : BOOLEAN, retry : BOOLEAN]
Listings == [JobIds -> JobRecord]
RunRecord == [state : RunStates, deps : SUBSET RunIds, covers : SUBSET Shards, via : OpNames]

\* Where a call is while it works from a listing, and anywhere in a release.
Looking == {"refresh", "update", "submit", "record", "recordReducer"}
Releasing == Looking \cup {"list", "return"}
FanningOut == {"store", "collect", "check", "defer"}
Positions == {"idle", "direct", "create", "resubmit", "cancel", "cancelled"}
             \cup Releasing \cup FanningOut

Call == [pc : Positions, op : OpNames, snap : Listings \cup {<<>>}, todo : SUBSET JobIds,
         held : SUBSET (JobIds \X RunIds), cur : JobIds \cup {<<>>}, rec : JobRecord,
         force : Nat, target : JobIds \cup {<<>>}, plan : SUBSET JobIds,
         deps : SUBSET RunIds, covers : SUBSET Shards, redo : BOOLEAN]

\* The backend knows the run: it accepted it, whatever became of it.
Accepted(run, rs) == run = NoRunId \/ (run \in RunIds /\ rs[run].state # "none")

HasReducer(jobs) == \E j \in Stored(jobs) : j[1] = "reduce"

\* A listing is old, but whatever it has is in the store still.
SnapOK(snap, jobs, rs) ==
  /\ snap \in Listings
  /\ Stored(snap) \subseteq Stored(jobs)
  /\ \A j \in JobIds : Accepted(snap[j].run, rs)

\* What a call knows.  All of it stays true whatever other calls do.
CallOK(m, jobs, rs) ==
  /\ m.pc \in Looking => SnapOK(m.snap, jobs, rs)
  /\ m.pc \in {"refresh", "update"} => m.todo \subseteq InFlight(m.snap)
  /\ m.pc \in {"submit", "record"} => m.todo \subseteq Pending(m.snap)
  /\ m.pc \in {"update", "recordReducer"} => m.cur \in Stored(jobs)
  /\ m.pc = "update" => m.rec.state \in Terminal
  /\ m.pc \in {"create", "recordReducer"} => m.rec.state = "active"
  /\ m.pc \in {"update", "create", "recordReducer", "cancel", "cancelled"} => Accepted(m.rec.run, rs)
  /\ m.pc = "record" => \A h \in m.held : h[1] \in Pending(m.snap) /\ Accepted(h[2], rs)
  /\ m.pc = "create" => /\ m.target \in JobIds
                        /\ m.target[1] = "reduce" \/ m.target[2] # 1
                        /\ m.target[1] = "reduce" => m.op = "fanout" \/ m.redo
  /\ m.pc = "direct" => m.op = "fanout" \/ m.redo
  /\ m.pc \in FanningOut => m.op = "fanout"
  /\ m.pc = "resubmit" => m.op = "retry"
  /\ m.pc \in {"cancel", "cancelled"} => m.op = "cancel"
  /\ m.op = "cancel" => m.target \in Stored(jobs)
  /\ m.op = "retry" /\ m.pc \in Releasing => m.target \in JobIds
  /\ m.redo => m.op = "retry" /\ HasReducer(jobs)
  /\ m.plan \subseteq Children(jobs)

\* A reducer that is due in the listing of a call is due: no shard waits.
ReducerMayGo(m, jobs) ==
  /\ m.pc \in {"submit", "record"} /\ HasReducer(m.snap) /\ Pending(m.snap) = {} =>
       Pending(jobs) = {}
  /\ m.pc = "direct" /\ m.op = "fanout" => Pending(jobs) = {}

FirstJobs == {<<s, 1>> : s \in Shards \ Cached}

\* The fan-out stores its children before anybody can store a reducer.
StoringOK(m, jobs) ==
  m.pc = "store" => /\ m.todo # {} /\ m.todo \subseteq FirstJobs \ Stored(jobs)
                    /\ ~HasReducer(jobs)

StoreOK ==
  /\ job \in Listings
  /\ \A j \in JobIds : Accepted(job[j].run, runs)
  /\ Pending(job) \subseteq FirstJobs

CountersOK ==
  /\ fanned \in BOOLEAN /\ overlap \in BOOLEAN
  /\ commands \in 0 .. MaxCommands /\ crashes \in 0 .. MaxCrashes

CallsOK ==
  /\ me \in [Callers -> Call]
  /\ \A c \in Callers : /\ CallOK(me[c], job, runs)
                       /\ ReducerMayGo(me[c], job) /\ StoringOK(me[c], job)

\* The request is made once.
OneFanOut ==
  /\ ~fanned => Stored(job) = {} /\ \A c \in Callers : me[c] = Idle
  /\ \A c, d \in Callers : me[c].op = "fanout" /\ me[d].op = "fanout" => c = d

RootInv == StoreOK /\ runs \in [RunIds -> RunRecord] /\ CountersOK /\ CallsOK /\ OneFanOut

-----------------------------------------------------------------------------
(* The operators of the model. *)

\* No run has the value that stands for none.
LEMMA NoRunIdIsNoRun == NoRunId \notin RunIds
  BY DEF NoRunId, RunIds

\* What a job id and a run id consist of.
LEMMA IdParts ==
  /\ \A j \in JobIds : j = <<j[1], j[2]>> /\ j[1] \in Keys /\ j[2] \in 1 .. MaxAttempts
  /\ \A r \in RunIds : r = <<r[1], r[2]>> /\ r[1] \in JobIds /\ r[2] \in 1 .. MaxRuns
  /\ \A k \in Keys, n \in 1 .. MaxAttempts : <<k, n>> \in JobIds
  BY DEF JobIds, RunIds

\* A nonempty set of attempts has a latest one.
LEMMA LatestAttempt ==
  ASSUME NEW S \in SUBSET (1 .. MaxAttempts), S # {}
  PROVE  \E x \in S : \A y \in S : y <= x
  <1>0. MaxAttempts \in Nat
    BY DispatchAssumption
  <1>. DEFINE T == {d \in Nat : \E s \in S : s = MaxAttempts - d}
  <1>1. T # {}
    <2>1. PICK s \in S : TRUE
      OBVIOUS
    <2>2. MaxAttempts - s \in Nat /\ s = MaxAttempts - (MaxAttempts - s)
      BY <1>0
    <2>. QED  BY <2>1, <2>2
  <1>2. PICK d \in T : \A u \in T : ~(<<u, d>> \in OpToRel(<, Nat))
    <2>1. T \subseteq Nat
      OBVIOUS
    <2>. HIDE DEF T
    <2>. QED  BY <1>1, <2>1, NatLessThanWellFounded, WFMin, Zenon
  <1>3. PICK x \in S : x = MaxAttempts - d
    BY <1>2
  <1>4. ASSUME NEW y \in S PROVE y <= x
    <2>1. MaxAttempts - y \in T
      BY <1>0
    <2>2. d \in Nat /\ MaxAttempts - y \in Nat /\ y \in Nat
      <3>1. d \in Nat
        BY <1>2
      <3>2. y \in 1 .. MaxAttempts
        OBVIOUS
      <3>. QED  BY <1>0, <3>1, <3>2
    <2>3. ~(MaxAttempts - y < d)
      BY <1>2, <2>1, <2>2 DEF OpToRel
    <2>. HIDE DEF T
    <2>. QED  BY <1>0, <1>3, <2>2, <2>3
  <1>. QED  BY <1>3, <1>4

\* The latest of some attempts is one of them.
LEMMA LatestType ==
  ASSUME NEW js \in SUBSET JobIds, js # {}
  PROVE  Latest(js) \in js
  <1>. DEFINE S == {j[2] : j \in js}
  <1>1. S \in SUBSET (1 .. MaxAttempts) /\ S # {}
    BY IdParts
  <1>2. PICK x \in S : \A y \in S : y <= x
    BY <1>1, LatestAttempt
  <1>3. PICK j \in js : j[2] = x
    BY <1>2
  <1>4. \A i \in js : i[2] <= j[2]
    BY <1>2, <1>3
  <1>. QED  BY <1>4 DEF Latest

\* The attempt that counts is a stored attempt of its key.
LEMMA EffectiveType ==
  ASSUME NEW jobs \in Listings, NEW key, \E j \in Stored(jobs) : j[1] = key
  PROVE  Effective(jobs, key) \in Stored(jobs) /\ Effective(jobs, key)[1] = key
  <1>. DEFINE all == {j \in Stored(jobs) : j[1] = key}
              open == {j \in all : jobs[j].state \notin Terminal}
              good == {j \in all : jobs[j].state = "succeeded"}
              js == IF open # {} THEN open ELSE IF good # {} THEN good ELSE all
  <1>1. js \subseteq all /\ js # {}
    OBVIOUS
  <1>2. js \in SUBSET JobIds
    BY <1>1 DEF Stored
  <1>3. Latest(js) \in js
    BY <1>1, <1>2, LatestType
  <1>4. Effective(jobs, key) = Latest(js)
    BY DEF Effective
  <1>. QED  BY <1>1, <1>3, <1>4

\* The attempts of the shards that count are stored.
LEMMA EffectiveChildrenType ==
  ASSUME NEW jobs \in Listings
  PROVE  EffectiveChildren(jobs) \subseteq Children(jobs)
  <1>. SUFFICES ASSUME NEW j \in Children(jobs)
                PROVE  Effective(jobs, j[1]) \in Children(jobs)
    BY DEF EffectiveChildren
  <1>1. j \in Stored(jobs) /\ j[1] # "reduce"
    BY DEF Children
  <1>. QED  BY <1>1, EffectiveType DEF Children

\* Children are jobs of shards.
LEMMA ChildrenOfShards ==
  ASSUME NEW jobs
  PROVE  /\ Children(jobs) \subseteq Stored(jobs) /\ Stored(jobs) \subseteq JobIds
         /\ \A j \in Children(jobs) : j[1] \in Shards
         /\ Pending(jobs) \subseteq Children(jobs)
         /\ InFlight(jobs) \subseteq Stored(jobs)
  BY IdParts DEF Children, Stored, Keys, Pending, InFlight

\* The runs of listed jobs are runs.
LEMMA RunsOfType ==
  ASSUME NEW jobs \in Listings, NEW js \in SUBSET JobIds
  PROVE  RunsOf(jobs, js) \subseteq RunIds
  BY DEF RunsOf, Listings, JobRecord

\* A new job is later than every stored job of its key.
LEMMA NewJobIsNew ==
  ASSUME RootInv, NEW key
  PROVE  LET j == NewJob(key) IN
         /\ j[1] = key /\ j[2] \in 1 .. MaxAttempts + 1
         /\ \A i \in Stored(job) : i[1] = key => i[2] < j[2]
  <1>0. MaxAttempts \in Nat
    BY DispatchAssumption
  <1>. DEFINE used == {j[2] : j \in {i \in Stored(job) : i[1] = key}}
                      \cup {me[d].target[2] : d \in {e \in Callers :
                              me[e].pc = "create" /\ me[e].target[1] = key}}
              Good(m) == /\ \A u \in used : u < m
                         /\ m = 1 \/ (m - 1) \in used
              n == CHOOSE m \in 1 .. MaxAttempts + 1 : Good(m)
  <1>1. used \in SUBSET (1 .. MaxAttempts)
    <2>1. \A i \in Stored(job) : i[2] \in 1 .. MaxAttempts
      BY IdParts DEF Stored
    <2>2. \A e \in Callers : me[e].pc = "create" => me[e].target[2] \in 1 .. MaxAttempts
      BY IdParts DEF RootInv, CallsOK, CallOK
    <2>. QED  BY <2>1, <2>2
  <1>2. \E m \in 1 .. MaxAttempts + 1 : Good(m)
    <2>1. CASE used = {}
      <3>. HIDE DEF used
      <3>1. Good(1)
        BY <2>1
      <3>2. 1 \in 1 .. MaxAttempts + 1
        BY <1>0
      <3>. HIDE DEF Good
      <3>. QED  BY <3>1, <3>2
    <2>2. CASE used # {}
      <3>1. PICK x \in used : \A y \in used : y <= x
        BY <1>1, <2>2, LatestAttempt
      <3>2. x \in 1 .. MaxAttempts
        BY <1>1, <3>1
      <3>. HIDE DEF used
      <3>3. \A u \in used : u \in Nat
        BY <1>0, <1>1
      <3>4. Good(x + 1) /\ x + 1 \in 1 .. MaxAttempts + 1
        BY <1>0, <3>1, <3>2, <3>3
      <3>. QED  BY <3>4
    <2>. QED  BY <2>1, <2>2
  <1>3. n \in 1 .. MaxAttempts + 1 /\ Good(n)
    <2>. HIDE DEF Good
    <2>. QED  BY <1>2
  <1>4. NewJob(key) = <<key, n>>
    BY DEF NewJob
  <1>5. \A i \in Stored(job) : i[1] = key => i[2] \in used
    OBVIOUS
  <1>. HIDE DEF n, used
  <1>. QED  BY <1>3, <1>4, <1>5

-----------------------------------------------------------------------------
(* What every step of a call has to show. *)

\* The backend forgets no run.
RunsGrow ==
  /\ runs' \in [RunIds -> RunRecord]
  /\ \A r \in RunIds : runs[r].state # "none" => runs'[r].state # "none"

\* An accepted run stays accepted.
LEMMA AcceptedStays ==
  ASSUME RunsGrow
  PROVE  \A run : Accepted(run, runs) => Accepted(run, runs')
  BY DEF RunsGrow, Accepted

\* What a call knows stays true while store and backend grow.
LEMMA CallStable ==
  ASSUME RunsGrow, Stored(job) \subseteq Stored(job'),
         NEW m, CallOK(m, job, runs)
  PROVE  CallOK(m, job', runs')
  <1>1. \A snap : SnapOK(snap, job, runs) => SnapOK(snap, job', runs')
    BY AcceptedStays DEF SnapOK
  <1>2. Children(job) \subseteq Children(job')
    BY DEF Children
  <1>3. HasReducer(job) => HasReducer(job')
    BY DEF HasReducer
  <1>. HIDE DEF SnapOK, Accepted, HasReducer
  <1>. QED  BY <1>1, <1>2, <1>3, AcceptedStays DEF CallOK

\* A step of one call keeps the invariant if its own locals fit, and if it
\* stores no child.
LEMMA CallMoves ==
  ASSUME RootInv, NEW c \in Callers, NEW new \in Call, Go(c, new),
         StoreOK', RunsGrow, CountersOK', fanned, fanned' = fanned,
         Stored(job) \subseteq Stored(job'), Pending(job') \subseteq Pending(job),
         FirstJobs \cap Stored(job') \subseteq Stored(job),
         HasReducer(job') => \/ HasReducer(job)
                             \/ \A d \in Callers \ {c} : me[d].op # "fanout",
         CallOK(new, job', runs'), ReducerMayGo(new, job'), StoringOK(new, job'),
         new.op = "fanout" => me[c].op = "fanout"
  PROVE  RootInv'
  <1>1. me' \in [Callers -> Call] /\ me'[c] = new /\ \A d \in Callers \ {c} : me'[d] = me[d]
    BY DEF Go, RootInv, CallsOK
  <1>2. ASSUME NEW d \in Callers \ {c}
        PROVE  CallOK(me'[d], job', runs') /\ ReducerMayGo(me'[d], job') /\ StoringOK(me'[d], job')
    <2>1. CallOK(me[d], job, runs) /\ ReducerMayGo(me[d], job) /\ StoringOK(me[d], job)
      BY DEF RootInv, CallsOK
    <2>2. CallOK(me[d], job', runs')
      BY <2>1, CallStable
    <2>3. ReducerMayGo(me[d], job')
      BY <2>1 DEF ReducerMayGo
    <2>4. StoringOK(me[d], job')
      <3>1. me[d].pc = "store" => me[d].op = "fanout"
        BY <2>1 DEF CallOK, FanningOut
      <3>. QED  BY <2>1, <3>1 DEF StoringOK
    <2>. QED  BY <1>1, <2>2, <2>3, <2>4
  <1>3. CallsOK'
    BY <1>1, <1>2 DEF CallsOK
  <1>4. OneFanOut'
    BY <1>1 DEF OneFanOut, RootInv
  <1>. QED  BY <1>3, <1>4 DEF RootInv, RunsGrow

\* The same of a step that writes neither the store nor the backend.
LEMMA LocalStep ==
  ASSUME RootInv, NEW c \in Callers, NEW new \in Call, Go(c, new),
         UNCHANGED <<job, runs, fanned>>, CountersOK', fanned,
         CallOK(new, job, runs), ReducerMayGo(new, job), StoringOK(new, job),
         new.op = "fanout" => me[c].op = "fanout"
  PROVE  RootInv'
  <1>1. RunsGrow /\ StoreOK'
    BY DEF RunsGrow, RootInv, StoreOK
  <1>2. job' = job /\ runs' = runs
    OBVIOUS
  <1>. QED  BY <1>1, <1>2, CallMoves

\* The same of a step that writes one job that does not wait, and no run.
LEMMA WriteStep ==
  ASSUME RootInv, NEW c \in Callers, NEW new \in Call, Go(c, new),
         UNCHANGED <<runs, fanned>>, CountersOK', fanned,
         NEW j \in JobIds, NEW rec \in JobRecord, job' = [job EXCEPT ![j] = rec],
         rec.state # "none", Accepted(rec.run, runs),
         ~IsPending(rec) \/ j[1] = "reduce",
         j \in Stored(job) \/ (j[1] = "reduce" \/ j[2] # 1),
         j[1] = "reduce" => HasReducer(job) \/ \A d \in Callers \ {c} : me[d].op # "fanout",
         CallOK(new, job, runs), ReducerMayGo(new, job), new.pc # "store",
         new.op = "fanout" => me[c].op = "fanout"
  PROVE  RootInv'
  <1>1. job \in Listings /\ Pending(job) \subseteq FirstJobs
    BY DEF RootInv, StoreOK
  <1>2. job' \in Listings /\ job'[j] = rec /\ \A i \in JobIds \ {j} : job'[i] = job[i]
    BY <1>1 DEF Listings
  <1>3. Stored(job') = Stored(job) \cup {j}
    BY <1>2 DEF Stored
  <1>4. Pending(job') \subseteq Pending(job)
    <2>. SUFFICES ASSUME NEW i \in Pending(job') PROVE i \in Pending(job)
      OBVIOUS
    <2>1. i \in Stored(job') /\ i[1] # "reduce" /\ IsPending(job'[i]) /\ i \in JobIds
      BY DEF Pending, Children, Stored
    <2>2. i # j
      BY <1>2, <2>1
    <2>3. i \in Stored(job) /\ IsPending(job[i])
      BY <1>2, <1>3, <2>1, <2>2
    <2>. QED  BY <2>1, <2>3 DEF Pending, Children
  <1>5. RunsGrow
    BY DEF RunsGrow, RootInv
  <1>6. StoreOK'
    <2>1. \A i \in JobIds : Accepted(job'[i].run, runs')
      BY <1>2 DEF RootInv, StoreOK
    <2>. QED  BY <1>1, <1>2, <1>4, <2>1 DEF StoreOK
  <1>7. FirstJobs \cap Stored(job') \subseteq Stored(job)
    <2>1. \A i \in FirstJobs : i[1] # "reduce" /\ i[2] = 1
      BY DispatchAssumption DEF FirstJobs
    <2>. QED  BY <1>3, <2>1
  <1>8. HasReducer(job') => \/ HasReducer(job)
                            \/ \A d \in Callers \ {c} : me[d].op # "fanout"
    BY <1>3 DEF HasReducer
  <1>9. CallOK(new, job', runs')
    BY <1>3, <1>5, CallStable
  <1>10. ReducerMayGo(new, job') /\ StoringOK(new, job')
    BY <1>4 DEF ReducerMayGo, StoringOK
  <1>. QED  BY <1>3, <1>4, <1>5, <1>6, <1>7, <1>8, <1>9, <1>10, CallMoves

\* The backend accepts the next runs of some jobs, and keeps the others.
LEMMA AcceptGrows ==
  ASSUME RootInv, NEW js \in SUBSET JobIds, NEW run \in RunRecord, run.state # "none",
         Accept(js, run)
  PROVE  /\ RunsGrow
         /\ \A j \in js : NextRun(j) \in RunIds /\ runs'[NextRun(j)] = run
                          /\ Accepted(NextRun(j), runs')
         /\ \A r \in RunIds : runs'[r] # runs[r] => r[1] \in js /\ runs'[r] = run
  <1>1. runs \in [RunIds -> RunRecord]
    BY DEF RootInv
  <1>2. \A j \in js : NextRun(j) \in RunIds
    BY DEF Accept
  <1>3. \A j : NextRun(j)[1] = j
    BY DEF NextRun
  <1>. HIDE DEF NextRun
  <1>4. runs' = [r \in RunIds |-> IF r \in {NextRun(j) : j \in js} THEN run ELSE runs[r]]
    BY DEF Accept
  <1>5. runs' \in [RunIds -> RunRecord]
    BY <1>1, <1>4
  <1>. QED  BY <1>1, <1>2, <1>3, <1>4, <1>5 DEF RunsGrow, Accepted

\* The same of a step that submits runs, and writes no job.
LEMMA SubmitStep ==
  ASSUME RootInv, NEW c \in Callers, NEW new \in Call, Go(c, new), RunsGrow,
         UNCHANGED <<job, fanned>>, CountersOK', fanned,
         CallOK(new, job, runs'), ReducerMayGo(new, job), new.pc # "store",
         new.op = "fanout" => me[c].op = "fanout"
  PROVE  RootInv'
  <1>1. StoreOK'
    BY AcceptedStays DEF RootInv, StoreOK
  <1>2. job' = job /\ StoringOK(new, job)
    BY DEF StoringOK
  <1>. QED  BY <1>1, <1>2, CallMoves

-----------------------------------------------------------------------------
(* The steps of a release. *)

\* What the invariant says of a call under way.
LEMMA CallFacts ==
  ASSUME RootInv, NEW c \in Callers
  PROVE  /\ me[c] \in Call /\ CallOK(me[c], job, runs)
         /\ ReducerMayGo(me[c], job) /\ StoringOK(me[c], job)
         /\ me[c].pc # "idle" => fanned
         /\ job \in Listings /\ runs \in [RunIds -> RunRecord]
  BY DEF RootInv, CallsOK, StoreOK, OneFanOut, Idle

\* The value for no job, and what a session without a call has in its locals.
LEMMA IdleType ==
  /\ NoJob \in JobRecord /\ NoJob.state = "none"
  /\ Idle \in Call /\ Idle.pc = "idle" /\ Idle.op = "status" /\ Idle.plan = {}
  /\ Idle.redo = FALSE
  BY DEF NoJob, Job, JobRecord, JobStates, Idle, Call, Positions, OpNames

\* A session without a call fits.
LEMMA IdleFits ==
  ASSUME NEW jobs, NEW rs
  PROVE  CallOK(Idle, jobs, rs) /\ ReducerMayGo(Idle, jobs) /\ StoringOK(Idle, jobs)
  BY IdleType DEF CallOK, ReducerMayGo, StoringOK, Looking, Releasing, FanningOut

\* A call that ends keeps the invariant.
LEMMA QuitOK ==
  ASSUME RootInv, NEW c \in Callers, me[c].pc # "idle", Quit(c),
         UNCHANGED <<job, runs, fanned>>, CountersOK'
  PROVE  RootInv'
  BY CallFacts, IdleType, IdleFits, LocalStep DEF Quit

\* The listing just read fits.
LEMMA FreshListing ==
  ASSUME RootInv
  PROVE  SnapOK(job, job, runs) /\ InFlight(job) \subseteq JobIds
  BY ChildrenOfShards DEF SnapOK, RootInv, StoreOK, InFlight, Stored

\* The first listing of a release keeps the invariant.
LEMMA ListJobsOK ==
  ASSUME RootInv, NEW c \in Callers, ListJobs(c)
  PROVE  RootInv'
  <1>. DEFINE new == [On(c, "refresh") EXCEPT !.snap = job, !.todo = InFlight(job)]
  <1>1. me[c].pc = "list" /\ Go(c, new) /\ StoreUnchanged /\ UNCHANGED runs
    BY DEF ListJobs, At
  <1>2. /\ new \in Call /\ new.pc = "refresh" /\ new.snap = job /\ new.todo = InFlight(job)
        /\ new.op = me[c].op /\ new.target = me[c].target /\ new.plan = me[c].plan
        /\ new.redo = me[c].redo
    <2>1. me[c] \in Call /\ job \in Listings /\ InFlight(job) \in SUBSET JobIds
      BY CallFacts, FreshListing
    <2>. QED  BY <2>1 DEF On, Call, Positions, Releasing, Looking
  <1>. HIDE DEF new
  <1>3. CallOK(new, job, runs)
    BY <1>1, <1>2, CallFacts, FreshListing DEF CallOK, Looking, Releasing, FanningOut
  <1>4. ReducerMayGo(new, job) /\ StoringOK(new, job)
    BY <1>2 DEF ReducerMayGo, StoringOK
  <1>5. CountersOK' /\ fanned /\ UNCHANGED <<job, runs, fanned>>
    BY <1>1, CallFacts DEF StoreUnchanged, CountersOK, RootInv
  <1>. QED  BY <1>1, <1>2, <1>3, <1>4, <1>5, LocalStep

\* The job a refresh looks at has a run that the backend knows.
LEMMA ListedRun ==
  ASSUME RootInv, NEW c \in Callers, me[c].pc = "refresh", me[c].todo # {}
  PROVE  LET j == FirstListed(me[c].todo) IN
         /\ j \in me[c].todo /\ j \in Stored(job) /\ me[c].snap[j] \in JobRecord
         /\ me[c].snap[j].run \in RunIds
         /\ runs[me[c].snap[j].run].state \in RunStates \ {"none"}
  <1>. DEFINE j == FirstListed(me[c].todo)
  <1>1. j \in me[c].todo
    BY DEF FirstListed
  <1>2. me[c].todo \subseteq InFlight(me[c].snap) /\ SnapOK(me[c].snap, job, runs)
    BY CallFacts DEF CallOK, Looking
  <1>3. j \in Stored(me[c].snap) /\ me[c].snap[j].run # NoRunId /\ j \in JobIds
    BY <1>1, <1>2 DEF InFlight, Stored
  <1>. HIDE DEF j
  <1>4. j \in Stored(job) /\ me[c].snap[j] \in JobRecord /\ Accepted(me[c].snap[j].run, runs)
    BY <1>2, <1>3 DEF SnapOK, Listings
  <1>5. me[c].snap[j].run \in RunIds /\ runs[me[c].snap[j].run].state # "none"
    BY <1>3, <1>4 DEF Accepted
  <1>6. runs[me[c].snap[j].run].state \in RunStates
    BY <1>5, CallFacts DEF RunRecord
  <1>. QED  BY <1>1, <1>4, <1>5, <1>6 DEF j

\* Going on with the rest of the listed jobs keeps the invariant.
LEMMA PassOver ==
  ASSUME RootInv, NEW c \in Callers, me[c].pc = "refresh", NEW js \in SUBSET me[c].todo,
         Go(c, [me[c] EXCEPT !.todo = js]), StoreUnchanged, UNCHANGED runs
  PROVE  RootInv'
  <1>. DEFINE new == [me[c] EXCEPT !.todo = js]
  <1>1. /\ new \in Call /\ new.pc = "refresh" /\ new.snap = me[c].snap /\ new.todo = js
        /\ new.op = me[c].op /\ new.target = me[c].target /\ new.plan = me[c].plan
        /\ new.redo = me[c].redo
    BY CallFacts DEF Call
  <1>2. Go(c, new)
    OBVIOUS
  <1>. HIDE DEF new
  <1>3. CallOK(new, job, runs)
    BY <1>1, CallFacts DEF CallOK, Looking, Releasing, FanningOut
  <1>4. ReducerMayGo(new, job) /\ StoringOK(new, job)
    BY <1>1 DEF ReducerMayGo, StoringOK
  <1>5. CountersOK' /\ fanned /\ UNCHANGED <<job, runs, fanned>>
    BY <1>1, CallFacts DEF StoreUnchanged, CountersOK, RootInv
  <1>. QED  BY <1>1, <1>2, <1>3, <1>4, <1>5, LocalStep

\* Asking for the state of a run keeps the invariant.
LEMMA GetRunOK ==
  ASSUME RootInv, NEW c \in Callers, GetRun(c) \/ GetRunFails(c)
  PROVE  RootInv'
  <1>. DEFINE j     == FirstListed(me[c].todo)
              state == runs[me[c].snap[j].run].state
              js    == me[c].todo \ {j}
              rest  == [me[c] EXCEPT !.todo = js]
              rec   == [me[c].snap[j] EXCEPT !.state = state]
              new   == [rest EXCEPT !.pc = "update", !.cur = j, !.rec = rec]
  <1>1. /\ me[c].pc = "refresh" /\ me[c].todo # {} /\ StoreUnchanged /\ UNCHANGED runs
        /\ \/ Go(c, rest)
           \/ state # "live" /\ Go(c, new)
    BY DEF GetRun, GetRunFails, At
  <1>2. js \in SUBSET me[c].todo
    OBVIOUS
  <1>3. CASE Go(c, rest)
    BY <1>1, <1>2, <1>3, PassOver
  <1>4. CASE state # "live" /\ Go(c, new)
    <2>1. /\ j \in me[c].todo /\ j \in Stored(job) /\ me[c].snap[j] \in JobRecord
          /\ me[c].snap[j].run \in RunIds /\ state \in RunStates \ {"none"}
      BY <1>1, ListedRun
    <2>. HIDE DEF j, state
    <2>2. state \in Terminal
      BY <1>4, <2>1 DEF RunStates
    <2>3. rec \in JobRecord /\ rec.state = state /\ rec.run = me[c].snap[j].run
      BY <2>1, <2>2 DEF JobRecord, JobStates
    <2>4. Accepted(rec.run, runs)
      BY <2>1, <2>3 DEF Accepted, state
    <2>. HIDE DEF js, rec
    <2>5. /\ new \in Call /\ new.pc = "update" /\ new.snap = me[c].snap /\ new.todo = js
          /\ new.cur = j /\ new.rec = rec
          /\ new.op = me[c].op /\ new.target = me[c].target /\ new.plan = me[c].plan
          /\ new.redo = me[c].redo
      <3>1. me[c] \in Call /\ js \in SUBSET JobIds /\ j \in JobIds
        BY <1>2, <2>1, CallFacts, ChildrenOfShards DEF Call
      <3>. QED  BY <2>3, <3>1 DEF Call, Positions, Releasing, Looking
    <2>6. me[c].todo \subseteq InFlight(me[c].snap)
      BY <1>1, CallFacts DEF CallOK
    <2>. HIDE DEF new
    <2>7. CallOK(new, job, runs)
      BY <1>1, <1>2, <2>1, <2>2, <2>3, <2>4, <2>5, <2>6, CallFacts
      DEF CallOK, Looking, Releasing, FanningOut
    <2>8. ReducerMayGo(new, job) /\ StoringOK(new, job)
      BY <2>5 DEF ReducerMayGo, StoringOK
    <2>9. CountersOK' /\ fanned /\ UNCHANGED <<job, runs, fanned>>
      BY <1>1, CallFacts DEF StoreUnchanged, CountersOK, RootInv
    <2>. QED  BY <1>4, <2>5, <2>7, <2>8, <2>9, LocalStep
  <1>. QED  BY <1>1, <1>3, <1>4

\* Storing the state of a run that is over keeps the invariant.
LEMMA UpdateRefreshedOK ==
  ASSUME RootInv, NEW c \in Callers, UpdateRefreshed(c)
  PROVE  RootInv'
  <1>. DEFINE new == [On(c, "refresh") EXCEPT !.cur = <<>>, !.rec = NoJob]
              rec == me[c].rec
              j   == me[c].cur
  <1>1. /\ me[c].pc = "update" /\ Go(c, new) /\ OnlyStore
        /\ job' = [job EXCEPT ![j] = rec]
    BY DEF UpdateRefreshed, At
  <1>2. /\ new \in Call /\ new.pc = "refresh" /\ new.snap = me[c].snap /\ new.todo = me[c].todo
        /\ new.op = me[c].op /\ new.target = me[c].target /\ new.plan = me[c].plan
        /\ new.redo = me[c].redo
    BY CallFacts, IdleType DEF On, Call, Positions, Releasing, Looking
  <1>3. /\ rec \in JobRecord /\ rec.state \in Terminal /\ Accepted(rec.run, runs)
        /\ j \in Stored(job) /\ j \in JobIds
    BY <1>1, CallFacts, ChildrenOfShards DEF CallOK, Call
  <1>4. ~IsPending(rec) /\ rec.state # "none"
    BY <1>3 DEF IsPending, Terminal
  <1>5. j[1] = "reduce" => HasReducer(job)
    BY <1>3 DEF HasReducer
  <1>. HIDE DEF new, rec, j
  <1>6. CallOK(new, job, runs)
    BY <1>1, <1>2, CallFacts DEF CallOK, Looking, Releasing, FanningOut
  <1>7. ReducerMayGo(new, job)
    BY <1>2 DEF ReducerMayGo
  <1>8. CountersOK' /\ fanned /\ UNCHANGED <<runs, fanned>>
    BY <1>1, CallFacts DEF OnlyStore, CountersOK, RootInv
  <1>. QED  BY <1>1, <1>2, <1>3, <1>4, <1>5, <1>6, <1>7, <1>8, WriteStep

\* The second listing keeps the invariant: it takes jobs that wait.
LEMMA ListAgainOK ==
  ASSUME RootInv, NEW c \in Callers, ListAgain(c)
  PROVE  RootInv'
  <1>. DEFINE js  == FirstChunks(job, Slots(job, me[c].force))
              new == [On(c, "submit") EXCEPT !.snap = job, !.todo = js]
  <1>1. me[c].pc = "refresh" /\ Go(c, new) /\ StoreUnchanged /\ UNCHANGED runs
    BY DEF ListAgain, At
  <1>2. js \subseteq Pending(job) /\ js \subseteq JobIds
    BY ChildrenOfShards DEF FirstChunks
  <1>. HIDE DEF js
  <1>3. /\ new \in Call /\ new.pc = "submit" /\ new.snap = job /\ new.todo = js
        /\ new.op = me[c].op /\ new.target = me[c].target /\ new.plan = me[c].plan
        /\ new.redo = me[c].redo
    <2>1. me[c] \in Call /\ job \in Listings /\ js \in SUBSET JobIds
      BY <1>2, CallFacts
    <2>. QED  BY <2>1 DEF On, Call, Positions, Releasing, Looking
  <1>. HIDE DEF new
  <1>4. CallOK(new, job, runs)
    BY <1>1, <1>2, <1>3, CallFacts, FreshListing DEF CallOK, Looking, Releasing, FanningOut
  <1>5. ReducerMayGo(new, job) /\ StoringOK(new, job)
    BY <1>3 DEF ReducerMayGo, StoringOK
  <1>6. CountersOK' /\ fanned /\ UNCHANGED <<job, runs, fanned>>
    BY <1>1, CallFacts DEF StoreUnchanged, CountersOK, RootInv
  <1>. QED  BY <1>1, <1>3, <1>4, <1>5, <1>6, LocalStep

\* The end of a release leaves the locals of the call in order.
LEMMA EndReleaseFits ==
  ASSUME RootInv, NEW c \in Callers, me[c].pc \in {"submit", "recordReducer"}, EndRelease(c)
  PROVE  \E new \in Call : /\ Go(c, new) /\ CallOK(new, job, runs)
                           /\ ReducerMayGo(new, job) /\ new.pc # "store"
                           /\ new.op = "fanout" => me[c].op = "fanout"
  <1>1. CASE me[c].op = "status"
    <2>1. Go(c, Idle)
      BY <1>1 DEF EndRelease
    <2>. QED  BY <2>1, IdleType, IdleFits
  <1>2. CASE me[c].op # "status"
    <2>. DEFINE new == [On(c, "return") EXCEPT !.snap = <<>>, !.cur = <<>>,
                         !.todo = {}, !.rec = NoJob]
    <2>1. Go(c, new)
      BY <1>2 DEF EndRelease
    <2>2. me[c] \in Call
      BY CallFacts
    <2>3. /\ new \in Call /\ new.pc = "return" /\ new.op = me[c].op
          /\ new.target = me[c].target /\ new.plan = me[c].plan /\ new.redo = me[c].redo
      BY <2>2, IdleType DEF On, Call, Positions, Releasing
    <2>. HIDE DEF new
    <2>4. CallOK(new, job, runs)
      BY <2>3, CallFacts DEF CallOK, Looking, Releasing, FanningOut
    <2>5. ReducerMayGo(new, job)
      BY <2>3 DEF ReducerMayGo
    <2>. QED  BY <2>1, <2>3, <2>4, <2>5
  <1>. QED  BY <1>1, <1>2

\* What a submission hands to the backend is a run.
LEMMA RunType ==
  ASSUME NEW deps \in SUBSET RunIds, NEW covers \in SUBSET Shards, NEW via \in OpNames
  PROVE  LET run == Run("live", deps, covers, via) IN
         run \in RunRecord /\ run.state = "live" /\ run.via = via
  BY DEF Run, RunRecord, RunStates

\* Submitting a chunk keeps the invariant.
LEMMA SubmitChunkOK ==
  ASSUME RootInv, NEW c \in Callers, SubmitChunk(c)
  PROVE  RootInv'
  <1>1. PICK js \in NextBatches(me[c].todo) :
          /\ me[c].pc = "submit"
          /\ Accept(js, Run("live", {}, {j[1] : j \in js}, "release"))
          /\ Go(c, [On(c, "record") EXCEPT !.todo = @ \ js,
                      !.held = {<<j, NextRun(j)>> : j \in js}])
          /\ StoreUnchanged
    BY DEF SubmitChunk, At
  <1>. DEFINE run  == Run("live", {}, {j[1] : j \in js}, "release")
              held == {<<j, NextRun(j)>> : j \in js}
              rest == me[c].todo \ js
              new  == [On(c, "record") EXCEPT !.todo = rest, !.held = held]
  <1>2. me[c] \in Call /\ CallOK(me[c], job, runs) /\ ReducerMayGo(me[c], job)
    BY CallFacts
  <1>3. me[c].todo \subseteq Pending(me[c].snap)
    BY <1>1, <1>2 DEF CallOK
  <1>4. js \subseteq me[c].todo
    BY DEF NextBatches
  <1>5. js \in SUBSET JobIds /\ {j[1] : j \in js} \in SUBSET Shards
    BY <1>3, <1>4, ChildrenOfShards
  <1>6. run \in RunRecord /\ run.state = "live"
    BY <1>5, RunType DEF OpNames
  <1>. HIDE DEF run
  <1>7. /\ RunsGrow
        /\ \A j \in js : NextRun(j) \in RunIds /\ Accepted(NextRun(j), runs')
    BY <1>1, <1>5, <1>6, AcceptGrows DEF run
  <1>8. held \in SUBSET (JobIds \X RunIds)
    BY <1>5, <1>7
  <1>9. \A h \in held : h[1] \in Pending(me[c].snap) /\ Accepted(h[2], runs')
    BY <1>3, <1>4, <1>7
  <1>10. Go(c, new)
    BY <1>1, <1>2 DEF On, Call
  <1>. HIDE DEF held
  <1>11. rest \in SUBSET JobIds /\ rest \subseteq Pending(me[c].snap)
    BY <1>2, <1>3 DEF Call
  <1>. HIDE DEF rest
  <1>12. /\ new \in Call /\ new.pc = "record" /\ new.op = me[c].op
         /\ new.target = me[c].target /\ new.plan = me[c].plan /\ new.redo = me[c].redo
         /\ new.snap = me[c].snap /\ new.todo = rest /\ new.held = held
    BY <1>2, <1>8, <1>11 DEF On, Call, Positions, Releasing, Looking
  <1>. HIDE DEF new
  <1>13. CallOK(me[c], job, runs')
    BY <1>2, <1>7, <1>1, CallStable DEF StoreUnchanged
  <1>14. CallOK(new, job, runs')
    BY <1>1, <1>9, <1>11, <1>12, <1>13 DEF CallOK, Looking, Releasing, FanningOut
  <1>15. ReducerMayGo(new, job)
    BY <1>1, <1>2, <1>12 DEF ReducerMayGo
  <1>16. CountersOK' /\ fanned /\ UNCHANGED <<job, fanned>>
    BY <1>1, CallFacts DEF StoreUnchanged, CountersOK, RootInv
  <1>. QED  BY <1>7, <1>10, <1>12, <1>14, <1>15, <1>16, SubmitStep

\* Storing an accepted run keeps the invariant: its job does not wait any more.
LEMMA RecordRunOK ==
  ASSUME RootInv, NEW c \in Callers, RecordRun(c)
  PROVE  RootInv'
  <1>1. PICK h \in me[c].held :
         /\ me[c].pc = "record" /\ OnlyStore
         /\ job' = [job EXCEPT ![h[1]] =
                      [me[c].snap[h[1]] EXCEPT !.state = "active", !.run = h[2],
                                               !.forced = @ \/ me[c].force > 0]]
         /\ Go(c, [On(c, IF me[c].held = {h} THEN "submit" ELSE "record")
                     EXCEPT !.held = @ \ {h}])
    BY DEF RecordRun, At
  <1>. DEFINE j    == h[1]
              old  == me[c].snap[j]
              rec  == [old EXCEPT !.state = "active", !.run = h[2],
                                  !.forced = old.forced \/ me[c].force > 0]
              pc   == IF me[c].held = {h} THEN "submit" ELSE "record"
              held == me[c].held \ {h}
              new  == [On(c, pc) EXCEPT !.held = held]
  <1>2. me[c] \in Call /\ CallOK(me[c], job, runs) /\ ReducerMayGo(me[c], job)
    BY CallFacts
  <1>3. /\ SnapOK(me[c].snap, job, runs) /\ j \in Pending(me[c].snap) /\ Accepted(h[2], runs)
        /\ h[2] \in RunIds /\ \A i \in held : i[1] \in Pending(me[c].snap) /\ Accepted(i[2], runs)
    BY <1>1, <1>2 DEF CallOK, Looking, Call
  <1>4. j \in JobIds /\ j \in Stored(job) /\ j[1] # "reduce" /\ old \in JobRecord
    BY <1>3, ChildrenOfShards, DispatchAssumption DEF SnapOK, Listings
  <1>5. /\ job' = [job EXCEPT ![j] = rec] /\ Go(c, new)
    BY <1>1, <1>2, <1>4 DEF On, Call, JobRecord
  <1>. HIDE DEF j, old
  <1>6. rec \in JobRecord /\ rec.state = "active" /\ rec.run = h[2]
    BY <1>3, <1>4 DEF JobRecord, JobStates
  <1>. HIDE DEF rec
  <1>7. ~IsPending(rec) /\ rec.state # "none" /\ Accepted(rec.run, runs)
    BY <1>3, <1>6 DEF IsPending
  <1>8. held \in SUBSET (JobIds \X RunIds) /\ pc \in {"submit", "record"}
    BY <1>2 DEF Call
  <1>. HIDE DEF held, pc
  <1>9. /\ new \in Call /\ new.pc = pc /\ new.op = me[c].op
        /\ new.target = me[c].target /\ new.plan = me[c].plan /\ new.redo = me[c].redo
        /\ new.snap = me[c].snap /\ new.todo = me[c].todo /\ new.held = held
    BY <1>2, <1>8 DEF On, Call, Positions, Releasing, Looking
  <1>. HIDE DEF new
  <1>10. CallOK(new, job, runs)
    BY <1>1, <1>2, <1>3, <1>8, <1>9 DEF CallOK, Looking, Releasing, FanningOut
  <1>11. ReducerMayGo(new, job) /\ new.pc # "store"
    BY <1>1, <1>2, <1>8, <1>9 DEF ReducerMayGo
  <1>12. CountersOK' /\ fanned /\ UNCHANGED <<runs, fanned>>
    BY <1>1, CallFacts DEF OnlyStore, CountersOK, RootInv
  <1>. QED  BY <1>4, <1>5, <1>6, <1>7, <1>9, <1>10, <1>11, <1>12, WriteStep

\* Submitting the deferred reducer keeps the invariant.
LEMMA SubmitReducerOK ==
  ASSUME RootInv, NEW c \in Callers, SubmitReducer(c)
  PROVE  RootInv'
  <1>. DEFINE snap == me[c].snap
              j    == Effective(snap, "reduce")
              kids == EffectiveChildren(snap)
              run  == Run("live", RunsOf(snap, kids), {k[1] : k \in kids}, "release")
              rec  == [snap[j] EXCEPT !.state = "active", !.run = NextRun(j)]
              new  == [On(c, "recordReducer") EXCEPT !.cur = j, !.rec = rec]
  <1>1. /\ me[c].pc = "submit" /\ ReducerIsDue(snap) /\ StoreUnchanged
        /\ Accept({j}, run) /\ Go(c, new)
    BY DEF SubmitReducer, At
  <1>2. me[c] \in Call /\ CallOK(me[c], job, runs) /\ SnapOK(snap, job, runs)
    BY <1>1, CallFacts DEF CallOK, Looking
  <1>3. snap \in Listings /\ j \in Stored(snap)
    BY <1>1, <1>2, EffectiveType DEF SnapOK, ReducerIsDue
  <1>4. j \in JobIds /\ j \in Stored(job) /\ snap[j] \in JobRecord
    BY <1>2, <1>3, ChildrenOfShards DEF SnapOK, Listings
  <1>5. kids \in SUBSET JobIds /\ {k[1] : k \in kids} \in SUBSET Shards
    BY <1>3, EffectiveChildrenType, ChildrenOfShards
  <1>6. run \in RunRecord /\ run.state = "live"
    BY <1>3, <1>5, RunType, RunsOfType DEF OpNames
  <1>. HIDE DEF run, j, kids
  <1>7. RunsGrow /\ NextRun(j) \in RunIds /\ Accepted(NextRun(j), runs')
    BY <1>1, <1>4, <1>6, AcceptGrows
  <1>8. rec \in JobRecord /\ rec.state = "active" /\ rec.run = NextRun(j)
    BY <1>4, <1>7 DEF JobRecord, JobStates
  <1>. HIDE DEF rec
  <1>9. /\ new \in Call /\ new.pc = "recordReducer" /\ new.op = me[c].op
        /\ new.target = me[c].target /\ new.plan = me[c].plan /\ new.redo = me[c].redo
        /\ new.snap = snap /\ new.cur = j /\ new.rec = rec
    BY <1>2, <1>4, <1>8 DEF On, Call, Positions, Releasing, Looking
  <1>. HIDE DEF new
  <1>10. CallOK(me[c], job, runs')
    BY <1>2, <1>7, <1>1, CallStable DEF StoreUnchanged
  <1>11. CallOK(new, job, runs')
    BY <1>1, <1>4, <1>7, <1>8, <1>9, <1>10 DEF CallOK, Looking, Releasing, FanningOut
  <1>12. ReducerMayGo(new, job)
    BY <1>9 DEF ReducerMayGo
  <1>13. CountersOK' /\ fanned /\ UNCHANGED <<job, fanned>>
    BY <1>1, CallFacts DEF StoreUnchanged, CountersOK, RootInv
  <1>. QED  BY <1>1, <1>7, <1>9, <1>11, <1>12, <1>13, SubmitStep

\* Storing its run keeps the invariant.
LEMMA RecordReducerOK ==
  ASSUME RootInv, NEW c \in Callers, RecordReducer(c)
  PROVE  RootInv'
  <1>. DEFINE rec == me[c].rec
              j   == me[c].cur
  <1>1. /\ me[c].pc = "recordReducer" /\ EndRelease(c) /\ OnlyStore
        /\ job' = [job EXCEPT ![j] = rec]
    BY DEF RecordReducer, At
  <1>2. PICK new \in Call :
          /\ Go(c, new) /\ CallOK(new, job, runs) /\ ReducerMayGo(new, job)
          /\ new.pc # "store"
          /\ new.op = "fanout" => me[c].op = "fanout"
    BY <1>1, EndReleaseFits
  <1>3. /\ rec \in JobRecord /\ rec.state = "active" /\ Accepted(rec.run, runs)
        /\ j \in Stored(job) /\ j \in JobIds
    BY <1>1, CallFacts, ChildrenOfShards DEF CallOK, Call
  <1>4. ~IsPending(rec) /\ rec.state # "none"
    BY <1>3 DEF IsPending
  <1>5. j[1] = "reduce" => HasReducer(job)
    BY <1>3 DEF HasReducer
  <1>. HIDE DEF rec, j
  <1>6. CountersOK' /\ fanned /\ UNCHANGED <<runs, fanned>>
    BY <1>1, CallFacts DEF OnlyStore, CountersOK, RootInv
  <1>. QED  BY <1>1, <1>2, <1>3, <1>4, <1>5, <1>6, WriteStep

\* A release that has nothing to submit, or fails, keeps the invariant.
LEMMA NothingToSubmitOK ==
  ASSUME RootInv, NEW c \in Callers, NothingToSubmit(c) \/ SubmitFails(c)
  PROVE  RootInv'
  <1>1. /\ me[c].pc = "submit" /\ StoreUnchanged /\ UNCHANGED runs
        /\ Quit(c) \/ EndRelease(c)
    BY DEF NothingToSubmit, SubmitFails, At
  <1>2. CountersOK' /\ fanned /\ UNCHANGED <<job, runs, fanned>>
    BY <1>1, CallFacts DEF StoreUnchanged, CountersOK, RootInv
  <1>3. CASE Quit(c)
    BY <1>1, <1>2, <1>3, QuitOK
  <1>4. CASE EndRelease(c)
    <2>1. PICK new \in Call :
            /\ Go(c, new) /\ CallOK(new, job, runs) /\ ReducerMayGo(new, job)
            /\ new.pc # "store"
            /\ new.op = "fanout" => me[c].op = "fanout"
      BY <1>1, <1>4, EndReleaseFits
    <2>2. StoringOK(new, job)
      BY <2>1 DEF StoringOK
    <2>. QED  BY <1>2, <2>1, <2>2, LocalStep
  <1>. QED  BY <1>1, <1>3, <1>4

\* What the caller does after a release keeps the invariant.
LEMMA ReturnOK ==
  ASSUME RootInv, NEW c \in Callers, Return(c)
  PROVE  RootInv'
  <1>. DEFINE j == me[c].target
              fan == On(c, "collect")
              redo == [On(c, "resubmit") EXCEPT !.target = <<>>, !.deps = @ \cup RunsOf(job, {j})]
              end == [On(c, "cancel") EXCEPT !.rec = job[j]]
  <1>1. /\ me[c].pc = "return" /\ StoreUnchanged /\ UNCHANGED runs
        /\ \/ me[c].op = "release" /\ Go(c, Listing)
           \/ me[c].op = "fanout" /\ Go(c, fan)
           \/ me[c].op = "retry" /\ Go(c, redo)
           \/ me[c].op = "cancel" /\ Go(c, end)
    BY DEF Return, At
  <1>2. CountersOK' /\ fanned /\ UNCHANGED <<job, runs, fanned>>
    BY <1>1, CallFacts DEF StoreUnchanged, CountersOK, RootInv
  <1>3. me[c] \in Call /\ CallOK(me[c], job, runs) /\ job \in Listings
    BY CallFacts
  <1>4. CASE me[c].op = "release" /\ Go(c, Listing)
    <2>1. job \in Listings /\ InFlight(job) \in SUBSET JobIds /\ Idle \in Call
      BY <1>3, FreshListing, IdleType
    <2>2. /\ Listing \in Call /\ Listing.pc = "refresh" /\ Listing.snap = job
          /\ Listing.todo = InFlight(job) /\ Listing.op = "status" /\ Listing.plan = {}
          /\ Listing.redo = FALSE
      BY <2>1, IdleType DEF Listing, Call, Positions, Releasing, Looking
    <2>3. CallOK(Listing, job, runs)
      BY <2>2, FreshListing DEF CallOK, Looking, Releasing, FanningOut
    <2>4. ReducerMayGo(Listing, job) /\ StoringOK(Listing, job)
      BY <2>2 DEF ReducerMayGo, StoringOK
    <2>. QED  BY <1>2, <1>4, <2>2, <2>3, <2>4, LocalStep
  <1>5. CASE me[c].op = "fanout" /\ Go(c, fan)
    <2>1. /\ fan \in Call /\ fan.pc = "collect" /\ fan.op = me[c].op
          /\ fan.target = me[c].target /\ fan.plan = me[c].plan /\ fan.redo = me[c].redo
      BY <1>3 DEF On, Call, Positions, FanningOut
    <2>. HIDE DEF fan
    <2>2. CallOK(fan, job, runs)
      BY <1>3, <1>5, <2>1 DEF CallOK, Looking, Releasing, FanningOut
    <2>3. ReducerMayGo(fan, job) /\ StoringOK(fan, job)
      BY <2>1 DEF ReducerMayGo, StoringOK
    <2>. QED  BY <1>2, <1>5, <2>1, <2>2, <2>3, LocalStep
  <1>6. CASE me[c].op = "retry" /\ Go(c, redo)
    <2>1. j \in JobIds
      BY <1>1, <1>3, <1>6 DEF CallOK, Releasing
    <2>2. RunsOf(job, {j}) \in SUBSET RunIds
      BY <1>3, <2>1, RunsOfType
    <2>3. /\ redo \in Call /\ redo.pc = "resubmit" /\ redo.op = me[c].op
          /\ redo.plan = me[c].plan /\ redo.redo = me[c].redo
      BY <1>3, <2>2 DEF On, Call, Positions
    <2>. HIDE DEF redo
    <2>4. CallOK(redo, job, runs)
      BY <1>3, <1>6, <2>3 DEF CallOK, Looking, Releasing, FanningOut
    <2>5. ReducerMayGo(redo, job) /\ StoringOK(redo, job)
      BY <2>3 DEF ReducerMayGo, StoringOK
    <2>. QED  BY <1>2, <1>6, <2>3, <2>4, <2>5, LocalStep
  <1>7. CASE me[c].op = "cancel" /\ Go(c, end)
    <2>1. j \in Stored(job) /\ j \in JobIds
      BY <1>3, <1>7, ChildrenOfShards DEF CallOK
    <2>2. job[j] \in JobRecord /\ Accepted(job[j].run, runs)
      BY <2>1 DEF RootInv, StoreOK, Listings
    <2>3. /\ end \in Call /\ end.pc = "cancel" /\ end.op = me[c].op /\ end.rec = job[j]
          /\ end.target = me[c].target /\ end.plan = me[c].plan /\ end.redo = me[c].redo
      BY <1>3, <2>2 DEF On, Call, Positions
    <2>. HIDE DEF end
    <2>4. CallOK(end, job, runs)
      BY <1>3, <1>7, <2>2, <2>3 DEF CallOK, Looking, Releasing, FanningOut
    <2>5. ReducerMayGo(end, job) /\ StoringOK(end, job)
      BY <2>3 DEF ReducerMayGo, StoringOK
    <2>. QED  BY <1>2, <1>7, <2>3, <2>4, <2>5, LocalStep
  <1>. QED  BY <1>1, <1>4, <1>5, <1>6, <1>7

-----------------------------------------------------------------------------
(* The calls. *)

\* A call begins with a listing or locals of its own, and keeps the invariant.
LEMMA BeginOK ==
  ASSUME RootInv, NEW c \in Callers, NEW op \in OpNames \ {"fanout"}, NEW local,
         Begin(c, op, local), Stored(job) # {}, fanned' = fanned,
         commands' \in 0 .. MaxCommands,
         NEW new \in Call, new = [local EXCEPT !.op = op], new.op = op,
         CallOK(new, job, runs), new.pc \notin {"submit", "record", "direct", "store"}
  PROVE  RootInv'
  <1>1. Go(c, new) /\ UNCHANGED <<job, runs, fanned, crashes>>
        /\ overlap' = (overlap \/ \E d \in Callers \ {c} : ~At(d, "idle"))
    BY DEF Begin
  <1>2. overlap' \in BOOLEAN
    BY <1>1
  <1>3. CountersOK'
    BY <1>1, <1>2 DEF CountersOK, RootInv
  <1>4. fanned
    BY DEF RootInv, OneFanOut
  <1>5. ReducerMayGo(new, job) /\ StoringOK(new, job)
    BY DEF ReducerMayGo, StoringOK
  <1>. QED  BY <1>1, <1>3, <1>4, <1>5, LocalStep

\* The number of commands stays within its bound.
LEMMA CommandsOK ==
  ASSUME RootInv, IsCommand \/ commands' = commands
  PROVE  commands' \in 0 .. MaxCommands
  BY DispatchAssumption DEF RootInv, CountersOK, IsCommand

\* A lookup keeps the invariant.
LEMMA StatusOK ==
  ASSUME RootInv, NEW c \in Callers, Status(c)
  PROVE  RootInv'
  <1>. DEFINE new == [Listing EXCEPT !.op = "status"]
  <1>1. Begin(c, "status", Listing) /\ Stored(job) # {} /\ UNCHANGED <<fanned, commands>>
    BY DEF Status
  <1>2. job \in Listings /\ InFlight(job) \in SUBSET JobIds /\ Idle \in Call
    BY CallFacts, FreshListing, IdleType
  <1>3. /\ new \in Call /\ new.pc = "refresh" /\ new.snap = job
        /\ new.todo = InFlight(job) /\ new.op = "status" /\ new.plan = {} /\ new.redo = FALSE
    BY <1>2, IdleType DEF Listing, Call, Positions, Releasing, Looking, OpNames
  <1>4. new = [Listing EXCEPT !.op = "status"]
    OBVIOUS
  <1>. HIDE DEF new
  <1>5. CallOK(new, job, runs)
    BY <1>3, FreshListing DEF CallOK, Looking, Releasing, FanningOut
  <1>6. commands' \in 0 .. MaxCommands
    BY <1>1, CommandsOK
  <1>. QED  BY <1>1, <1>3, <1>4, <1>5, <1>6, BeginOK DEF OpNames

\* A forced release keeps the invariant.
LEMMA ReleaseOK ==
  ASSUME RootInv, NEW c \in Callers, Release(c)
  PROVE  RootInv'
  <1>1. PICK n \in 1 .. MaxForced :
          /\ Begin(c, "release", [Idle EXCEPT !.pc = "list", !.force = n])
          /\ Stored(job) # {} /\ IsCommand /\ fanned' = fanned
    BY DEF Release
  <1>. DEFINE local == [Idle EXCEPT !.pc = "list", !.force = n]
              new   == [local EXCEPT !.op = "release"]
  <1>2. n \in Nat
    BY DispatchAssumption
  <1>3. /\ new \in Call /\ new.pc = "list" /\ new.op = "release" /\ new.plan = {}
        /\ new.redo = FALSE
    BY <1>2, IdleType DEF Call, Positions, Releasing, OpNames
  <1>4. Begin(c, "release", local) /\ new = [local EXCEPT !.op = "release"]
    BY <1>1
  <1>. HIDE DEF new, local
  <1>5. CallOK(new, job, runs)
    BY <1>3 DEF CallOK, Looking, Releasing, FanningOut
  <1>6. commands' \in 0 .. MaxCommands
    BY <1>1, CommandsOK
  <1>. QED  BY <1>1, <1>3, <1>4, <1>5, <1>6, BeginOK DEF OpNames

\* Asking for a cancellation keeps the invariant.
LEMMA CancelOK ==
  ASSUME RootInv, NEW c \in Callers, Cancel(c)
  PROVE  RootInv'
  <1>1. PICK j \in Stored(job) :
          /\ Begin(c, "cancel", [Idle EXCEPT !.pc = "list", !.target = j])
          /\ IsCommand /\ fanned' = fanned
    BY DEF Cancel
  <1>. DEFINE local == [Idle EXCEPT !.pc = "list", !.target = j]
              new   == [local EXCEPT !.op = "cancel"]
  <1>2. j \in JobIds
    BY ChildrenOfShards
  <1>3. /\ new \in Call /\ new.pc = "list" /\ new.op = "cancel" /\ new.plan = {}
        /\ new.redo = FALSE /\ new.target = j
    BY <1>2, IdleType DEF Call, Positions, Releasing, OpNames
  <1>4. Begin(c, "cancel", local) /\ new = [local EXCEPT !.op = "cancel"]
    BY <1>1
  <1>. HIDE DEF new, local
  <1>5. CallOK(new, job, runs)
    BY <1>3 DEF CallOK, Looking, Releasing, FanningOut
  <1>6. commands' \in 0 .. MaxCommands
    BY <1>1, CommandsOK
  <1>. QED  BY <1>1, <1>3, <1>4, <1>5, <1>6, BeginOK DEF OpNames

\* Asking for a retry keeps the invariant: it is planned on stored children.
LEMMA RetryOK ==
  ASSUME RootInv, NEW c \in Callers, Retry(c)
  PROVE  RootInv'
  <1>1. PICK includeCancelled \in BOOLEAN, resubmitReducer \in BOOLEAN :
         LET kids == EffectiveChildren(job)
             plan == {j \in kids : ShouldRetry(job[j], includeCancelled)}
         IN  /\ Stored(job) # {} /\ IsCommand /\ fanned' = fanned
             /\ Begin(c, "retry", [Idle EXCEPT !.pc = "resubmit", !.plan = plan,
                         !.covers = {j[1] : j \in kids},
                         !.deps = RunsOf(job, kids \ plan),
                         !.redo = /\ resubmitReducer
                                  /\ \E j \in Stored(job) : j[1] = "reduce"])
    BY DEF Retry
  <1>. DEFINE kids   == EffectiveChildren(job)
              plan   == {j \in kids : ShouldRetry(job[j], includeCancelled)}
              covers == {j[1] : j \in kids}
              deps   == RunsOf(job, kids \ plan)
              redo   == resubmitReducer /\ \E j \in Stored(job) : j[1] = "reduce"
              local  == [Idle EXCEPT !.pc = "resubmit", !.plan = plan, !.covers = covers,
                          !.deps = deps, !.redo = redo]
              new    == [local EXCEPT !.op = "retry"]
  <1>2. job \in Listings
    BY CallFacts
  <1>3. kids \subseteq Children(job) /\ covers \in SUBSET Shards /\ kids \in SUBSET JobIds
    BY <1>2, EffectiveChildrenType, ChildrenOfShards
  <1>4. plan \subseteq Children(job) /\ plan \in SUBSET JobIds
    BY <1>3
  <1>5. deps \in SUBSET RunIds
    BY <1>2, <1>3, RunsOfType
  <1>6. redo \in BOOLEAN /\ (redo => HasReducer(job))
    BY DEF HasReducer
  <1>7. Begin(c, "retry", local) /\ new = [local EXCEPT !.op = "retry"]
    BY <1>1
  <1>. HIDE DEF kids, plan, covers, deps, redo
  <1>8. /\ new \in Call /\ new.pc = "resubmit" /\ new.op = "retry" /\ new.plan = plan
        /\ new.redo = redo
    BY <1>3, <1>4, <1>5, <1>6, IdleType DEF Call, Positions, OpNames
  <1>. HIDE DEF new, local
  <1>9. CallOK(new, job, runs)
    BY <1>4, <1>6, <1>8 DEF CallOK, Looking, Releasing, FanningOut
  <1>10. commands' \in 0 .. MaxCommands
    BY <1>1, CommandsOK
  <1>. QED  BY <1>1, <1>7, <1>8, <1>9, <1>10, BeginOK DEF OpNames

\* The fan-out begins once, on an empty root, and keeps the invariant.
LEMMA FanOutOK ==
  ASSUME RootInv, NEW c \in Callers, FanOut(c)
  PROVE  RootInv'
  <1>. DEFINE pc    == IF FirstJobs = {} THEN "check" ELSE "store"
              local == [Idle EXCEPT !.todo = FirstJobs, !.covers = Shards, !.pc = pc]
              new   == [local EXCEPT !.op = "fanout"]
  <1>1. ~fanned /\ fanned' = TRUE /\ commands' = commands /\ Begin(c, "fanout", local)
    BY DEF FanOut, FirstJobs
  <1>2. /\ Go(c, new) /\ UNCHANGED <<job, runs, crashes>>
        /\ overlap' = (overlap \/ \E d \in Callers \ {c} : ~At(d, "idle"))
    BY <1>1 DEF Begin
  <1>3. overlap' \in BOOLEAN
    BY <1>2
  <1>4. CountersOK' /\ StoreOK' /\ runs' \in [RunIds -> RunRecord]
    BY <1>1, <1>2, <1>3 DEF CountersOK, RootInv, StoreOK
  <1>5. Stored(job) = {} /\ \A d \in Callers : me[d] = Idle
    BY <1>1 DEF RootInv, OneFanOut
  <1>6. FirstJobs \in SUBSET JobIds
    BY DispatchAssumption DEF FirstJobs, JobIds, Keys
  <1>7. pc \in {"check", "store"} /\ (pc = "store" => FirstJobs # {})
    OBVIOUS
  <1>. HIDE DEF pc
  <1>8. /\ new \in Call /\ new.pc = pc /\ new.op = "fanout" /\ new.todo = FirstJobs
        /\ new.plan = {} /\ new.redo = FALSE
    BY <1>6, <1>7, IdleType DEF Call, Positions, FanningOut, OpNames
  <1>. HIDE DEF new, local
  <1>9. CallOK(new, job, runs)
    BY <1>7, <1>8 DEF CallOK, Looking, Releasing, FanningOut
  <1>10. ReducerMayGo(new, job) /\ StoringOK(new, job)
    BY <1>5, <1>7, <1>8 DEF ReducerMayGo, StoringOK, HasReducer
  <1>11. /\ me' \in [Callers -> Call] /\ me'[c] = new
         /\ \A d \in Callers \ {c} : me'[d] = Idle
    BY <1>2, <1>5, <1>8 DEF Go, RootInv, CallsOK
  <1>12. CallsOK'
    <2>1. \A d \in Callers : /\ CallOK(me'[d], job, runs)
                             /\ ReducerMayGo(me'[d], job) /\ StoringOK(me'[d], job)
      BY <1>9, <1>10, <1>11, IdleFits
    <2>2. job' = job /\ runs' = runs
      BY <1>2
    <2>. QED  BY <1>11, <2>1, <2>2 DEF CallsOK
  <1>13. OneFanOut'
    BY <1>1, <1>11, IdleType DEF OneFanOut
  <1>. QED  BY <1>4, <1>12, <1>13 DEF RootInv

\* Storing a child keeps the invariant: no reducer is stored yet.
LEMMA StoreChildOK ==
  ASSUME RootInv, NEW c \in Callers, StoreChild(c)
  PROVE  RootInv'
  <1>1. PICK j \in me[c].todo :
         /\ me[c].pc = "store" /\ OnlyStore
         /\ job' = [job EXCEPT ![j] = Job("dispatching", NoRunId, FALSE, FALSE)]
         /\ Go(c, [On(c, IF me[c].todo = {j} THEN "list" ELSE "store")
                     EXCEPT !.todo = @ \ {j}])
    BY DEF StoreChild, At
  <1>. DEFINE rec  == Job("dispatching", NoRunId, FALSE, FALSE)
              pc   == IF me[c].todo = {j} THEN "list" ELSE "store"
              rest == me[c].todo \ {j}
              new  == [On(c, pc) EXCEPT !.todo = rest]
  <1>2. me[c] \in Call /\ CallOK(me[c], job, runs) /\ StoringOK(me[c], job) /\ fanned
    BY <1>1, CallFacts
  <1>3. /\ me[c].todo \subseteq FirstJobs \ Stored(job) /\ ~HasReducer(job)
        /\ me[c].op = "fanout"
    BY <1>1, <1>2 DEF StoringOK, CallOK, FanningOut
  <1>4. j \in FirstJobs /\ j \notin Stored(job) /\ j \in JobIds
    BY <1>2, <1>3 DEF Call
  <1>5. j[1] # "reduce"
    BY <1>4, DispatchAssumption DEF FirstJobs
  <1>6. rec \in JobRecord /\ rec.state = "dispatching" /\ rec.run = NoRunId
    BY DEF Job, JobRecord, JobStates
  <1>7. Go(c, new) /\ job' = [job EXCEPT ![j] = rec]
    BY <1>1, <1>2 DEF On, Call
  <1>. HIDE DEF rec
  <1>8. /\ rest \in SUBSET JobIds /\ pc \in {"list", "store"}
        /\ (pc = "store" => rest # {})
    BY <1>1, <1>2 DEF Call
  <1>9. rest \subseteq FirstJobs \ (Stored(job) \cup {j})
    BY <1>3
  <1>. HIDE DEF rest, pc
  <1>10. /\ new \in Call /\ new.pc = pc /\ new.op = "fanout" /\ new.todo = rest
         /\ new.target = me[c].target /\ new.plan = me[c].plan /\ new.redo = me[c].redo
    BY <1>2, <1>3, <1>8 DEF On, Call, Positions, FanningOut, Releasing
  <1>. HIDE DEF new
  <1>11. job' \in Listings /\ job'[j] = rec /\ \A i \in JobIds \ {j} : job'[i] = job[i]
    BY <1>4, <1>6, <1>7 DEF RootInv, StoreOK, Listings
  <1>12. Stored(job') = Stored(job) \cup {j}
    BY <1>4, <1>6, <1>11 DEF Stored
  <1>13. ~HasReducer(job')
    BY <1>3, <1>5, <1>12 DEF HasReducer
  <1>14. StoreOK'
    <2>1. \A i \in JobIds : Accepted(job'[i].run, runs')
      BY <1>1, <1>6, <1>11 DEF RootInv, StoreOK, Accepted, OnlyStore
    <2>2. Pending(job') \subseteq Pending(job) \cup {j}
      <3>. SUFFICES ASSUME NEW i \in Pending(job'), i # j PROVE i \in Pending(job)
        OBVIOUS
      <3>1. i \in Stored(job') /\ i[1] # "reduce" /\ IsPending(job'[i]) /\ i \in JobIds
        BY DEF Pending, Children, Stored
      <3>2. i \in Stored(job) /\ IsPending(job[i])
        BY <1>11, <1>12, <3>1
      <3>. QED  BY <3>1, <3>2 DEF Pending, Children
    <2>. QED  BY <1>4, <1>11, <2>1, <2>2 DEF StoreOK, RootInv
  <1>15. RunsGrow /\ runs' = runs
    BY <1>1, CallFacts DEF RunsGrow, OnlyStore
  <1>16. /\ me' \in [Callers -> Call] /\ me'[c] = new
         /\ \A d \in Callers \ {c} : me'[d] = me[d]
    BY <1>7, <1>10 DEF Go, RootInv, CallsOK
  <1>17. ASSUME NEW d \in Callers \ {c}
         PROVE  /\ CallOK(me[d], job', runs') /\ ReducerMayGo(me[d], job')
                /\ StoringOK(me[d], job')
    <2>1. CallOK(me[d], job, runs)
      BY CallFacts
    <2>2. CallOK(me[d], job', runs')
      BY <1>12, <1>15, <2>1, CallStable
    <2>3. me[d].op # "fanout"
      BY <1>3 DEF RootInv, OneFanOut
    <2>4. me[d].pc \in {"submit", "record"} => ~HasReducer(me[d].snap)
      BY <1>3, <2>1 DEF CallOK, Looking, SnapOK, HasReducer
    <2>5. ReducerMayGo(me[d], job')
      BY <2>3, <2>4 DEF ReducerMayGo
    <2>6. StoringOK(me[d], job')
      BY <2>1, <2>3 DEF StoringOK, CallOK, FanningOut
    <2>. QED  BY <2>2, <2>5, <2>6
  <1>18. CallOK(new, job', runs')
    <2>1. CallOK(me[c], job', runs')
      BY <1>2, <1>12, <1>15, CallStable
    <2>. QED  BY <1>3, <1>8, <1>10, <2>1 DEF CallOK, Looking, Releasing, FanningOut
  <1>19. ReducerMayGo(new, job') /\ StoringOK(new, job')
    BY <1>8, <1>9, <1>10, <1>12, <1>13 DEF ReducerMayGo, StoringOK
  <1>20. CallsOK'
    <2>1. ASSUME NEW d \in Callers
          PROVE  /\ CallOK(me'[d], job', runs') /\ ReducerMayGo(me'[d], job')
                 /\ StoringOK(me'[d], job')
      BY <1>16, <1>17, <1>18, <1>19
    <2>. QED  BY <1>16, <2>1 DEF CallsOK
  <1>21. CountersOK' /\ fanned' = fanned
    BY <1>1 DEF OnlyStore, CountersOK, RootInv
  <1>22. OneFanOut'
    BY <1>2, <1>3, <1>10, <1>16, <1>21 DEF OneFanOut, RootInv
  <1>. QED  BY <1>14, <1>15, <1>20, <1>21, <1>22 DEF RootInv, RunsGrow

\* Looking at the children again keeps the invariant: the reducer goes out at
\* once only if none of them waits.
LEMMA CollectOK ==
  ASSUME RootInv, NEW c \in Callers, CollectRuns(c) \/ CheckChildren(c)
  PROVE  RootInv'
  <1>1. StoreUnchanged /\ UNCHANGED runs /\ me[c].pc \in {"collect", "check"}
    BY DEF CollectRuns, CheckChildren, At
  <1>2. CountersOK' /\ fanned /\ UNCHANGED <<job, runs, fanned>>
    BY <1>1, CallFacts DEF StoreUnchanged, CountersOK, RootInv
  <1>3. /\ me[c] \in Call /\ CallOK(me[c], job, runs) /\ job \in Listings
        /\ me[c].op = "fanout"
    BY <1>1, CallFacts DEF CallOK, FanningOut
  <1>4. CASE CollectRuns(c)
    <2>. DEFINE deps == RunsOf(job, {<<s, 1>> : s \in Shards \ Cached})
                new  == [On(c, "check") EXCEPT !.deps = deps]
    <2>1. {<<s, 1>> : s \in Shards \ Cached} \in SUBSET JobIds
      BY DispatchAssumption DEF JobIds, Keys
    <2>2. deps \in SUBSET RunIds
      BY <1>3, <2>1, RunsOfType
    <2>3. Go(c, new)
      BY <1>4 DEF CollectRuns
    <2>. HIDE DEF deps
    <2>4. /\ new \in Call /\ new.pc = "check" /\ new.op = me[c].op
          /\ new.target = me[c].target /\ new.plan = me[c].plan /\ new.redo = me[c].redo
      BY <1>3, <2>2 DEF On, Call, Positions, FanningOut
    <2>. HIDE DEF new
    <2>5. CallOK(new, job, runs)
      BY <1>3, <2>4 DEF CallOK, Looking, Releasing, FanningOut
    <2>6. ReducerMayGo(new, job) /\ StoringOK(new, job)
      BY <2>4 DEF ReducerMayGo, StoringOK
    <2>. QED  BY <1>2, <2>3, <2>4, <2>5, <2>6, LocalStep
  <1>5. CASE CheckChildren(c)
    <2>. DEFINE waits == \E s \in Shards \ Cached : IsPending(job[<<s, 1>>])
                pc    == IF waits THEN "defer" ELSE "direct"
                new   == On(c, pc)
    <2>1. Go(c, new)
      BY <1>5 DEF CheckChildren
    <2>2. pc \in {"defer", "direct"} /\ (pc = "direct" => ~waits)
      OBVIOUS
    <2>3. ~waits => Pending(job) = {}
      <3>1. \A j \in Pending(job) : IsPending(job[j]) /\ j \in FirstJobs
        BY DEF Pending, RootInv, StoreOK
      <3>. QED  BY <3>1 DEF FirstJobs
    <2>. HIDE DEF waits, pc
    <2>4. /\ new \in Call /\ new.pc = pc /\ new.op = me[c].op
          /\ new.target = me[c].target /\ new.plan = me[c].plan /\ new.redo = me[c].redo
      BY <1>3, <2>2 DEF On, Call, Positions, FanningOut
    <2>. HIDE DEF new
    <2>5. CallOK(new, job, runs)
      BY <1>3, <2>2, <2>4 DEF CallOK, Looking, Releasing, FanningOut
    <2>6. ReducerMayGo(new, job) /\ StoringOK(new, job)
      BY <2>2, <2>3, <2>4 DEF ReducerMayGo, StoringOK
    <2>. QED  BY <1>2, <2>1, <2>4, <2>5, <2>6, LocalStep
  <1>. QED  BY <1>4, <1>5

\* Storing the deferred reducer keeps the invariant.
LEMMA DeferReducerOK ==
  ASSUME RootInv, NEW c \in Callers, DeferReducer(c)
  PROVE  RootInv'
  <1>. DEFINE j   == NewJob("reduce")
              rec == Job("dispatching", NoRunId, FALSE, FALSE)
  <1>1. /\ me[c].pc = "defer" /\ j \in JobIds /\ OnlyStore /\ Go(c, Idle)
        /\ job' = [job EXCEPT ![j] = rec]
    BY DEF DeferReducer, At, Quit
  <1>2. rec \in JobRecord /\ rec.state = "dispatching" /\ rec.run = NoRunId
    BY DEF Job, JobRecord, JobStates
  <1>3. Accepted(rec.run, runs) /\ rec.state # "none"
    BY <1>2 DEF Accepted
  <1>4. j[1] = "reduce"
    BY NewJobIsNew
  <1>5. \A d \in Callers \ {c} : me[d].op # "fanout"
    BY <1>1, CallFacts DEF CallOK, FanningOut, RootInv, OneFanOut
  <1>6. CountersOK' /\ fanned /\ UNCHANGED <<runs, fanned>>
    BY <1>1, CallFacts DEF OnlyStore, CountersOK, RootInv
  <1>. HIDE DEF j, rec
  <1>. QED  BY <1>1, <1>2, <1>3, <1>4, <1>5, <1>6, IdleType, IdleFits, WriteStep

\* Submitting a reducer directly keeps the invariant.
LEMMA SubmitDirectOK ==
  ASSUME RootInv, NEW c \in Callers, SubmitDirect(c)
  PROVE  RootInv'
  <1>. DEFINE j   == NewJob("reduce")
              run == Run("live", me[c].deps, me[c].covers, me[c].op)
              rec == Job("active", NextRun(j), FALSE, FALSE)
              new == [On(c, "create") EXCEPT !.target = j, !.rec = rec]
  <1>1. /\ me[c].pc = "direct" /\ j \in JobIds /\ StoreUnchanged
        /\ Accept({j}, run) /\ Go(c, new)
    BY DEF SubmitDirect, At
  <1>2. me[c] \in Call /\ CallOK(me[c], job, runs)
    BY CallFacts
  <1>3. run \in RunRecord /\ run.state = "live"
    <2>1. /\ me[c].deps \in SUBSET RunIds /\ me[c].covers \in SUBSET Shards
          /\ me[c].op \in OpNames
      BY <1>2 DEF Call
    <2>. QED  BY <2>1, RunType
  <1>4. j[1] = "reduce"
    BY NewJobIsNew
  <1>. HIDE DEF run, j
  <1>5. RunsGrow /\ NextRun(j) \in RunIds /\ Accepted(NextRun(j), runs')
    BY <1>1, <1>3, AcceptGrows
  <1>6. rec \in JobRecord /\ rec.state = "active" /\ rec.run = NextRun(j)
    BY <1>5 DEF Job, JobRecord, JobStates
  <1>. HIDE DEF rec
  <1>7. /\ new \in Call /\ new.pc = "create" /\ new.op = me[c].op
        /\ new.target = j /\ new.plan = me[c].plan /\ new.redo = me[c].redo
        /\ new.rec = rec
    BY <1>1, <1>2, <1>6 DEF On, Call, Positions
  <1>. HIDE DEF new
  <1>8. CallOK(me[c], job, runs')
    BY <1>1, <1>2, <1>5, CallStable DEF StoreUnchanged
  <1>9. me[c].op = "fanout" \/ (me[c].redo /\ me[c].op = "retry")
    BY <1>1, <1>2 DEF CallOK
  <1>10. CallOK(new, job, runs')
    BY <1>1, <1>4, <1>5, <1>6, <1>7, <1>8, <1>9 DEF CallOK, Looking, Releasing, FanningOut
  <1>11. ReducerMayGo(new, job)
    BY <1>7 DEF ReducerMayGo
  <1>12. CountersOK' /\ fanned /\ UNCHANGED <<job, fanned>>
    BY <1>1, CallFacts DEF StoreUnchanged, CountersOK, RootInv
  <1>. QED  BY <1>1, <1>5, <1>7, <1>10, <1>11, <1>12, SubmitStep

\* So does a submission that fails.
LEMMA DirectFailsOK ==
  ASSUME RootInv, NEW c \in Callers, DirectFails(c)
  PROVE  RootInv'
  <1>1. me[c].pc \in {"direct", "resubmit"} /\ Quit(c) /\ StoreUnchanged /\ UNCHANGED runs
    BY DEF DirectFails
  <1>2. CountersOK' /\ UNCHANGED <<job, runs, fanned>>
    BY <1>1 DEF StoreUnchanged, CountersOK, RootInv
  <1>. QED  BY <1>1, <1>2, QuitOK

\* Resubmitting a shard keeps the invariant: its new job is not the first.
LEMMA ResubmitOK ==
  ASSUME RootInv, NEW c \in Callers, Resubmit(c)
  PROVE  RootInv'
  <1>1. PICK j \in me[c].plan :
         /\ me[c].pc = "resubmit" /\ StoreUnchanged
         /\ \/ Go(c, [me[c] EXCEPT !.plan = @ \ {j}]) /\ UNCHANGED runs
            \/ /\ NewJob(j[1]) \in JobIds
               /\ Accept({NewJob(j[1])}, Run("live", {}, {j[1]}, "retry"))
               /\ Go(c, [[me[c] EXCEPT !.plan = @ \ {j}] EXCEPT !.pc = "create",
                           !.target = NewJob(j[1]),
                           !.rec = Job("active", NextRun(NewJob(j[1])), job[j].forced, TRUE)])
    BY DEF Resubmit, At
  <1>. DEFINE plan == me[c].plan \ {j}
              rest == [me[c] EXCEPT !.plan = plan]
              new  == NewJob(j[1])
              rec  == Job("active", NextRun(new), job[j].forced, TRUE)
              next == [rest EXCEPT !.pc = "create", !.target = new, !.rec = rec]
  <1>2. me[c] \in Call /\ CallOK(me[c], job, runs)
    BY CallFacts
  <1>3. me[c].plan \subseteq Children(job) /\ me[c].op = "retry"
    BY <1>1, <1>2 DEF CallOK
  <1>4. j \in Stored(job) /\ j \in JobIds /\ j[1] \in Shards /\ plan \subseteq Children(job)
    BY <1>3, ChildrenOfShards
  <1>5. CountersOK' /\ fanned /\ UNCHANGED <<job, fanned>>
    BY <1>1, CallFacts DEF StoreUnchanged, CountersOK, RootInv
  <1>6. plan \in SUBSET JobIds
    BY <1>2 DEF Call
  <1>. HIDE DEF plan
  <1>7. /\ rest \in Call /\ rest.pc = "resubmit" /\ rest.op = "retry" /\ rest.plan = plan
        /\ rest.redo = me[c].redo
    BY <1>1, <1>2, <1>3, <1>6 DEF Call
  <1>. HIDE DEF rest
  <1>8. CASE Go(c, rest) /\ UNCHANGED runs
    <2>1. CallOK(rest, job, runs)
      BY <1>2, <1>4, <1>7 DEF CallOK, Looking, Releasing, FanningOut
    <2>2. ReducerMayGo(rest, job) /\ StoringOK(rest, job)
      BY <1>7 DEF ReducerMayGo, StoringOK
    <2>. QED  BY <1>3, <1>5, <1>7, <1>8, <2>1, <2>2, LocalStep
  <1>9. CASE /\ new \in JobIds /\ Accept({new}, Run("live", {}, {j[1]}, "retry"))
             /\ Go(c, next)
    <2>1. new[2] # 1
      <3>1. j[2] < new[2] /\ new[2] \in 1 .. MaxAttempts + 1
        BY <1>4, NewJobIsNew
      <3>2. j[2] \in 1 .. MaxAttempts /\ MaxAttempts \in Nat
        BY <1>4, IdParts, DispatchAssumption
      <3>. HIDE DEF new
      <3>. QED  BY <3>1, <3>2
    <2>. HIDE DEF new
    <2>2. Run("live", {}, {j[1]}, "retry") \in RunRecord
          /\ Run("live", {}, {j[1]}, "retry").state = "live"
      BY <1>4, RunType DEF OpNames
    <2>3. RunsGrow /\ NextRun(new) \in RunIds /\ Accepted(NextRun(new), runs')
      BY <1>9, <2>2, AcceptGrows
    <2>4. job[j].forced \in BOOLEAN
      BY <1>4, CallFacts DEF Listings, JobRecord
    <2>5. rec \in JobRecord /\ rec.state = "active" /\ rec.run = NextRun(new)
      BY <2>3, <2>4 DEF Job, JobRecord, JobStates
    <2>. HIDE DEF rec
    <2>6. /\ next \in Call /\ next.pc = "create" /\ next.op = "retry" /\ next.plan = plan
          /\ next.redo = me[c].redo /\ next.target = new /\ next.rec = rec
      BY <1>7, <1>9, <2>5 DEF Call, Positions
    <2>. HIDE DEF next
    <2>7. CallOK(me[c], job, runs')
      BY <1>1, <1>2, <2>3, CallStable DEF StoreUnchanged
    <2>8. new[1] # "reduce"
      <3>1. new[1] = j[1]
        BY NewJobIsNew DEF new
      <3>. QED  BY <1>4, <3>1, DispatchAssumption
    <2>9. CallOK(next, job, runs')
      BY <1>4, <1>9, <2>1, <2>3, <2>5, <2>6, <2>7, <2>8
      DEF CallOK, Looking, Releasing, FanningOut
    <2>10. ReducerMayGo(next, job)
      BY <2>6 DEF ReducerMayGo
    <2>. QED  BY <1>3, <1>5, <1>9, <2>3, <2>6, <2>9, <2>10, SubmitStep
  <1>10. \/ Go(c, rest) /\ UNCHANGED runs
         \/ /\ new \in JobIds /\ Accept({new}, Run("live", {}, {j[1]}, "retry"))
            /\ Go(c, next)
    BY <1>1 DEF rest, plan
  <1>. QED  BY <1>8, <1>9, <1>10

\* Storing the job of a submission keeps the invariant.
LEMMA CreateJobOK ==
  ASSUME RootInv, NEW c \in Callers, CreateJob(c)
  PROVE  RootInv'
  <1>. DEFINE j   == me[c].target
              rec == me[c].rec
              new == [On(c, "list") EXCEPT !.rec = NoJob]
  <1>1. /\ me[c].pc = "create" /\ OnlyStore /\ job' = [job EXCEPT ![j] = rec]
        /\ IF j[1] = "reduce" THEN Go(c, Idle) ELSE Go(c, new)
    BY DEF CreateJob, At, Quit
  <1>2. me[c] \in Call /\ CallOK(me[c], job, runs)
    BY CallFacts
  <1>3. /\ rec \in JobRecord /\ rec.state = "active" /\ Accepted(rec.run, runs)
        /\ j \in JobIds /\ (j[1] = "reduce" \/ j[2] # 1)
        /\ j[1] = "reduce" => me[c].op = "fanout" \/ HasReducer(job)
    BY <1>1, <1>2 DEF CallOK, Call
  <1>4. ~IsPending(rec) /\ rec.state # "none"
    BY <1>3 DEF IsPending
  <1>5. j[1] = "reduce" => HasReducer(job) \/ \A d \in Callers \ {c} : me[d].op # "fanout"
    BY <1>3 DEF RootInv, OneFanOut
  <1>6. CountersOK' /\ fanned /\ UNCHANGED <<runs, fanned>>
    BY <1>1, CallFacts DEF OnlyStore, CountersOK, RootInv
  <1>7. /\ new \in Call /\ new.pc = "list" /\ new.op = me[c].op
        /\ new.target = j /\ new.plan = me[c].plan /\ new.redo = me[c].redo
    BY <1>2, IdleType DEF On, Call, Positions, Releasing
  <1>. HIDE DEF new, j, rec
  <1>8. CallOK(new, job, runs)
    BY <1>2, <1>3, <1>7 DEF CallOK, Looking, Releasing, FanningOut, j
  <1>9. ReducerMayGo(new, job)
    BY <1>7 DEF ReducerMayGo
  <1>10. CASE j[1] = "reduce"
    BY <1>1, <1>3, <1>4, <1>5, <1>6, <1>10, IdleType, IdleFits, WriteStep
  <1>11. CASE j[1] # "reduce"
    BY <1>1, <1>3, <1>4, <1>5, <1>6, <1>7, <1>8, <1>9, <1>11, WriteStep
  <1>. QED  BY <1>10, <1>11

\* The end of a retry keeps the invariant.
LEMMA EndRetryOK ==
  ASSUME RootInv, NEW c \in Callers, EndRetry(c)
  PROVE  RootInv'
  <1>. DEFINE new == On(c, "direct")
  <1>1. /\ me[c].pc = "resubmit" /\ StoreUnchanged /\ UNCHANGED runs
        /\ IF me[c].redo THEN Go(c, new) ELSE Quit(c)
    BY DEF EndRetry, At
  <1>2. CountersOK' /\ fanned /\ UNCHANGED <<job, runs, fanned>>
    BY <1>1, CallFacts DEF StoreUnchanged, CountersOK, RootInv
  <1>3. me[c] \in Call /\ CallOK(me[c], job, runs) /\ me[c].op = "retry"
    BY <1>1, CallFacts DEF CallOK
  <1>4. CASE ~me[c].redo
    BY <1>1, <1>2, <1>4, QuitOK
  <1>5. CASE me[c].redo
    <2>1. /\ new \in Call /\ new.pc = "direct" /\ new.op = "retry"
          /\ new.plan = me[c].plan /\ new.redo = me[c].redo
      BY <1>3 DEF On, Call, Positions
    <2>. HIDE DEF new
    <2>2. CallOK(new, job, runs)
      BY <1>3, <1>5, <2>1 DEF CallOK, Looking, Releasing, FanningOut
    <2>3. ReducerMayGo(new, job) /\ StoringOK(new, job)
      BY <2>1 DEF ReducerMayGo, StoringOK
    <2>. QED  BY <1>1, <1>2, <1>3, <1>5, <2>1, <2>2, <2>3, LocalStep
  <1>. QED  BY <1>4, <1>5

\* A change of the state of one run to another known one.
LEMMA RunChanges ==
  ASSUME RootInv, NEW r \in RunIds, NEW state \in Terminal,
         runs' = [runs EXCEPT ![r].state = state]
  PROVE  RunsGrow
  <1>1. runs \in [RunIds -> RunRecord]
    BY DEF RootInv
  <1>. DEFINE new == [runs[r] EXCEPT !.state = state]
  <1>2. new \in RunRecord /\ new.state # "none"
    BY <1>1 DEF RunRecord, RunStates, Terminal
  <1>3. runs' = [runs EXCEPT ![r] = new]
    BY <1>1
  <1>. HIDE DEF new
  <1>. QED  BY <1>1, <1>2, <1>3 DEF RunsGrow

\* Cancelling the run keeps the invariant.
LEMMA CancelRunOK ==
  ASSUME RootInv, NEW c \in Callers, CancelRun(c)
  PROVE  RootInv'
  <1>. DEFINE run == me[c].rec.run
              new == On(c, "cancelled")
  <1>1. /\ me[c].pc = "cancel" /\ StoreUnchanged
        /\ \/ /\ run # NoRunId /\ Go(c, new)
              /\ runs' = runs \/ runs' = [runs EXCEPT ![run].state = "cancelled"]
           \/ Go(c, new) /\ runs' = runs
           \/ Quit(c) /\ runs' = runs
    BY DEF CancelRun, At
  <1>2. me[c] \in Call /\ CallOK(me[c], job, runs) /\ me[c].op = "cancel"
    BY <1>1, CallFacts DEF CallOK
  <1>3. Accepted(run, runs)
    BY <1>1, <1>2 DEF CallOK
  <1>4. CountersOK' /\ fanned /\ UNCHANGED <<job, fanned>>
    BY <1>1, CallFacts DEF StoreUnchanged, CountersOK, RootInv
  <1>5. CASE Quit(c) /\ runs' = runs
    BY <1>1, <1>4, <1>5, QuitOK
  <1>6. CASE Go(c, new)
    <2>1. RunsGrow
      <3>1. runs' = runs => RunsGrow
        BY CallFacts DEF RunsGrow
      <3>2. ASSUME run # NoRunId, runs' = [runs EXCEPT ![run].state = "cancelled"]
            PROVE  RunsGrow
        <4>1. run \in RunIds /\ "cancelled" \in Terminal
          BY <1>3, <3>2 DEF Accepted, Terminal
        <4>. HIDE DEF run
        <4>. QED  BY <3>2, <4>1, RunChanges
      <3>3. \/ runs' = runs
            \/ run # NoRunId /\ runs' = [runs EXCEPT ![run].state = "cancelled"]
        BY <1>1
      <3>. QED  BY <3>1, <3>2, <3>3
    <2>2. /\ new \in Call /\ new.pc = "cancelled" /\ new.op = "cancel" /\ new.rec = me[c].rec
          /\ new.target = me[c].target /\ new.plan = me[c].plan /\ new.redo = me[c].redo
      BY <1>2 DEF On, Call, Positions
    <2>. HIDE DEF new
    <2>3. CallOK(me[c], job, runs')
      BY <1>2, <1>4, <2>1, CallStable
    <2>4. CallOK(new, job, runs')
      BY <1>1, <1>2, <2>2, <2>3 DEF CallOK, Looking, Releasing, FanningOut
    <2>5. ReducerMayGo(new, job)
      BY <2>2 DEF ReducerMayGo
    <2>. QED  BY <1>2, <1>4, <1>6, <2>1, <2>2, <2>4, <2>5, SubmitStep
  <1>. QED  BY <1>1, <1>5, <1>6

\* Storing the cancellation keeps the invariant.
LEMMA RecordCancelledOK ==
  ASSUME RootInv, NEW c \in Callers, RecordCancelled(c)
  PROVE  RootInv'
  <1>. DEFINE j   == me[c].target
              rec == [me[c].rec EXCEPT !.state = "cancelled"]
  <1>1. /\ me[c].pc = "cancelled" /\ OnlyStore /\ Go(c, Idle)
        /\ job' = [job EXCEPT ![j] = rec]
    BY DEF RecordCancelled, At, Quit
  <1>2. me[c] \in Call /\ CallOK(me[c], job, runs)
    BY CallFacts
  <1>3. me[c].rec \in JobRecord /\ Accepted(me[c].rec.run, runs) /\ j \in Stored(job) /\ j \in JobIds
    BY <1>1, <1>2, ChildrenOfShards DEF CallOK, Call
  <1>4. rec \in JobRecord /\ rec.state = "cancelled" /\ rec.run = me[c].rec.run
    BY <1>3 DEF JobRecord, JobStates, Terminal
  <1>5. ~IsPending(rec) /\ rec.state # "none"
    BY <1>4 DEF IsPending
  <1>6. j[1] = "reduce" => HasReducer(job)
    BY <1>3 DEF HasReducer
  <1>7. CountersOK' /\ fanned /\ UNCHANGED <<runs, fanned>>
    BY <1>1, CallFacts DEF OnlyStore, CountersOK, RootInv
  <1>8. Accepted(rec.run, runs)
    BY <1>3, <1>4
  <1>. HIDE DEF j, rec
  <1>. QED  BY <1>1, <1>3, <1>4, <1>5, <1>6, <1>7, <1>8, IdleType, IdleFits, WriteStep

\* The end of a run, and a session that dies, keep the invariant.
LEMMA RunEndsOK ==
  ASSUME RootInv, NEW r \in RunIds, RunEnds(r)
  PROVE  RootInv'
  <1>1. PICK state \in Outcomes[r[1][1]] :
          /\ runs' = [runs EXCEPT ![r].state = state]
          /\ UNCHANGED <<job, me, fanned, commands, crashes, overlap>>
    BY DEF RunEnds
  <1>2. state \in Terminal
    BY IdParts, DispatchAssumption DEF Keys, Terminal
  <1>3. RunsGrow
    BY <1>1, <1>2, RunChanges
  <1>4. StoreOK'
    BY <1>1, <1>3, AcceptedStays DEF RootInv, StoreOK
  <1>5. CallsOK'
    <2>1. job' = job /\ me' = me
      BY <1>1
    <2>2. \A c \in Callers : CallOK(me[c], job', runs')
      BY <1>3, <2>1, CallFacts, CallStable
    <2>. QED  BY <2>1, <2>2 DEF CallsOK, RootInv
  <1>6. CountersOK' /\ OneFanOut'
    BY <1>1 DEF CountersOK, OneFanOut, RootInv
  <1>. QED  BY <1>3, <1>4, <1>5, <1>6 DEF RootInv, RunsGrow

\* A session that dies keeps the invariant.
LEMMA CrashOK ==
  ASSUME RootInv, NEW c \in Callers, Crash(c)
  PROVE  RootInv'
  <1>1. /\ me[c].pc # "idle" /\ Quit(c) /\ crashes < MaxCrashes /\ crashes' = crashes + 1
        /\ UNCHANGED <<job, runs, fanned, commands, overlap>>
    BY DEF Crash, At
  <1>2. CountersOK'
    BY <1>1, DispatchAssumption DEF CountersOK, RootInv
  <1>. QED  BY <1>1, <1>2, QuitOK

-----------------------------------------------------------------------------
(* The invariant. *)

\* An empty store satisfies the invariant.
LEMMA RootInit == Init => RootInv
  <1>. SUFFICES ASSUME Init PROVE RootInv
    OBVIOUS
  <1>1. NoJob.run = NoRunId /\ NoJob \in JobRecord /\ NoJob.state = "none"
    BY DEF NoJob, Job, JobRecord, JobStates
  <1>2. job \in Listings /\ Stored(job) = {} /\ \A j \in JobIds : job[j] = NoJob
    BY <1>1 DEF Init, Listings, Stored
  <1>3. StoreOK
    BY <1>1, <1>2, ChildrenOfShards DEF StoreOK, Accepted
  <1>4. NoRun \in RunRecord
    BY DEF NoRun, Run, RunRecord, RunStates, OpNames
  <1>5. runs \in [RunIds -> RunRecord]
    BY <1>4 DEF Init
  <1>6. CountersOK
    <2>1. fanned = FALSE /\ overlap = FALSE /\ commands = 0 /\ crashes = 0
      BY DEF Init
    <2>2. 0 \in 0 .. MaxCommands /\ 0 \in 0 .. MaxCrashes
      BY DispatchAssumption
    <2>. QED  BY <2>1, <2>2 DEF CountersOK
  <1>7. me \in [Callers -> Call] /\ \A c \in Callers : me[c] = Idle
    BY IdleType DEF Init
  <1>8. CallsOK
    BY <1>7, IdleFits DEF CallsOK
  <1>9. OneFanOut
    BY <1>2, <1>7, IdleType DEF OneFanOut
  <1>. QED  BY <1>3, <1>5, <1>6, <1>8, <1>9 DEF RootInv

\* Every step keeps the invariant.
LEMMA RootNext == RootInv /\ [Next]_vars => RootInv'
  <1>. SUFFICES ASSUME RootInv, [Next]_vars PROVE RootInv'
    OBVIOUS
  <1>1. ASSUME NEW c \in Callers, Starts(c) PROVE RootInv'
    BY <1>1, StatusOK, ReleaseOK, FanOutOK, RetryOK, CancelOK DEF Starts
  <1>2. ASSUME NEW c \in Callers, ReleaseStep(c) PROVE RootInv'
    BY <1>2, ListJobsOK, GetRunOK, UpdateRefreshedOK, ListAgainOK, SubmitChunkOK,
       RecordRunOK, SubmitReducerOK, RecordReducerOK, NothingToSubmitOK, ReturnOK
    DEF ReleaseStep
  <1>3. ASSUME NEW c \in Callers, CallStep(c) PROVE RootInv'
    BY <1>2, <1>3, StoreChildOK, CollectOK, DeferReducerOK, SubmitDirectOK, ResubmitOK,
       CreateJobOK, EndRetryOK, CancelRunOK, RecordCancelledOK DEF CallStep
  <1>4. ASSUME NEW c \in Callers, Fails(c) PROVE RootInv'
    BY <1>4, GetRunOK, NothingToSubmitOK, DirectFailsOK, CrashOK DEF Fails
  <1>5. ASSUME NEW r \in RunIds, RunEnds(r) PROVE RootInv'
    BY <1>5, RunEndsOK
  <1>6. ASSUME UNCHANGED vars PROVE RootInv'
    BY <1>6 DEF vars, RootInv, StoreOK, CountersOK, CallsOK, OneFanOut
  <1>. QED  BY <1>1, <1>3, <1>4, <1>5, <1>6, Zenon DEF Next

\* The invariant of a root, whatever calls overlap and whoever dies in between.
THEOREM RootInvariant == Spec => []RootInv
  BY RootInit, RootNext, PTL DEF Spec

\* RootTypeOK: the store, the backend and the counters hold what they can hold.
THEOREM RootTypeCorrect == Spec => []RootTypeOK
  <1>1. RootInv => RootTypeOK
    <2>. SUFFICES ASSUME RootInv PROVE RootTypeOK
      OBVIOUS
    <2>1. job \in [JobIds -> [state : JobStates, run : RunIds \cup {NoRunId},
                              forced : BOOLEAN, retry : BOOLEAN]]
      BY DEF RootInv, StoreOK, Listings, JobRecord
    <2>2. ASSUME NEW r \in RunIds
          PROVE  /\ runs[r].state \in RunStates /\ runs[r].deps \subseteq RunIds
                 /\ runs[r].covers \subseteq Shards /\ runs[r].via \in OpNames
      <3>1. runs[r] \in RunRecord
        BY DEF RootInv
      <3>. QED  BY <3>1 DEF RunRecord
    <2>3. CountersOK
      BY DEF RootInv
    <2>. QED  BY <2>1, <2>2, <2>3 DEF RootTypeOK, CountersOK
  <1>. QED  BY <1>1, RootInvariant, PTL

-----------------------------------------------------------------------------
(* A submitted job never waits again. *)

\* A step writes at most one job, and makes it wait only if it is a new one.
Writes(j, rec) ==
  /\ job' = [job EXCEPT ![j] = rec]
  /\ ~IsPending(rec) \/ j \notin Stored(job)

\* The writes of a release: a run that is over, or was accepted.
LEMMA ReleaseWrites ==
  ASSUME RootInv, NEW c \in Callers, ReleaseStep(c)
  PROVE  job' = job \/ \E j, rec : Writes(j, rec)
  <1>1. CASE UpdateRefreshed(c)
    <2>1. me[c].pc = "update" /\ job' = [job EXCEPT ![me[c].cur] = me[c].rec]
      BY <1>1 DEF UpdateRefreshed, At
    <2>2. ~IsPending(me[c].rec)
      BY <2>1, CallFacts DEF CallOK, IsPending, Terminal
    <2>. QED  BY <2>1, <2>2 DEF Writes
  <1>2. CASE RecordRun(c)
    <2>1. PICK h \in me[c].held :
           /\ me[c].pc = "record"
           /\ job' = [job EXCEPT ![h[1]] =
                        [me[c].snap[h[1]] EXCEPT !.state = "active", !.run = h[2],
                                                 !.forced = @ \/ me[c].force > 0]]
      BY <1>2 DEF RecordRun, At
    <2>. DEFINE old == me[c].snap[h[1]]
                rec == [old EXCEPT !.state = "active", !.run = h[2],
                                   !.forced = @ \/ me[c].force > 0]
    <2>2. SnapOK(me[c].snap, job, runs) /\ h[1] \in Pending(me[c].snap)
      BY <2>1, CallFacts DEF CallOK, Looking
    <2>3. old \in JobRecord
      BY <2>2, ChildrenOfShards DEF SnapOK, Listings
    <2>. HIDE DEF old
    <2>4. rec.state = "active"
      BY <2>3 DEF JobRecord
    <2>5. ~IsPending(rec)
      BY <2>4 DEF IsPending
    <2>6. job' = [job EXCEPT ![h[1]] = rec]
      BY <2>1 DEF old
    <2>. QED  BY <2>5, <2>6 DEF Writes
  <1>3. CASE RecordReducer(c)
    <2>1. me[c].pc = "recordReducer" /\ job' = [job EXCEPT ![me[c].cur] = me[c].rec]
      BY <1>3 DEF RecordReducer, At
    <2>2. ~IsPending(me[c].rec)
      BY <2>1, CallFacts DEF CallOK, IsPending
    <2>. QED  BY <2>1, <2>2 DEF Writes
  <1>4. CASE \/ ListJobs(c) \/ GetRun(c) \/ ListAgain(c) \/ SubmitChunk(c)
             \/ SubmitReducer(c) \/ NothingToSubmit(c) \/ Return(c)
    BY <1>4 DEF ListJobs, GetRun, ListAgain, SubmitChunk, SubmitReducer, NothingToSubmit,
                Return, StoreUnchanged
  <1>. QED  BY <1>1, <1>2, <1>3, <1>4 DEF ReleaseStep

\* The writes of the other steps of a call.
LEMMA CallWrites ==
  ASSUME RootInv, NEW c \in Callers, CallStep(c)
  PROVE  job' = job \/ \E j, rec : Writes(j, rec)
  <1>1. CASE ReleaseStep(c)
    BY <1>1, ReleaseWrites
  <1>2. CASE StoreChild(c)
    <2>1. PICK j \in me[c].todo :
           /\ me[c].pc = "store"
           /\ job' = [job EXCEPT ![j] = Job("dispatching", NoRunId, FALSE, FALSE)]
      BY <1>2 DEF StoreChild, At
    <2>2. j \notin Stored(job)
      BY <2>1, CallFacts DEF StoringOK
    <2>. QED  BY <2>1, <2>2 DEF Writes
  <1>3. CASE DeferReducer(c)
    <2>1. job' = [job EXCEPT ![NewJob("reduce")] = Job("dispatching", NoRunId, FALSE, FALSE)]
      BY <1>3 DEF DeferReducer
    <2>2. NewJob("reduce") \notin Stored(job)
      <3>. DEFINE n == NewJob("reduce")
      <3>1. n[1] = "reduce" /\ \A i \in Stored(job) : i[1] = "reduce" => i[2] < n[2]
        BY NewJobIsNew
      <3>2. n \in Stored(job) => n[2] \in Nat
        BY IdParts, ChildrenOfShards, DispatchAssumption
      <3>. HIDE DEF n
      <3>. SUFFICES n \notin Stored(job)
        BY DEF n
      <3>. QED  BY <3>1, <3>2
    <2>. QED  BY <2>1, <2>2 DEF Writes
  <1>4. CASE CreateJob(c)
    <2>1. me[c].pc = "create" /\ job' = [job EXCEPT ![me[c].target] = me[c].rec]
      BY <1>4 DEF CreateJob, At
    <2>2. ~IsPending(me[c].rec)
      BY <2>1, CallFacts DEF CallOK, IsPending
    <2>. QED  BY <2>1, <2>2 DEF Writes
  <1>5. CASE RecordCancelled(c)
    <2>. DEFINE rec == [me[c].rec EXCEPT !.state = "cancelled"]
    <2>1. job' = [job EXCEPT ![me[c].target] = rec]
      BY <1>5 DEF RecordCancelled
    <2>2. me[c].rec \in JobRecord
      BY CallFacts DEF Call
    <2>3. rec.state = "cancelled"
      BY <2>2 DEF JobRecord
    <2>4. ~IsPending(rec)
      BY <2>3 DEF IsPending
    <2>. QED  BY <2>1, <2>4 DEF Writes
  <1>6. CASE \/ CollectRuns(c) \/ CheckChildren(c) \/ SubmitDirect(c) \/ Resubmit(c)
             \/ EndRetry(c) \/ CancelRun(c)
    BY <1>6 DEF CollectRuns, CheckChildren, SubmitDirect, Resubmit, EndRetry, CancelRun,
                StoreUnchanged
  <1>. QED  BY <1>1, <1>2, <1>3, <1>4, <1>5, <1>6 DEF CallStep

\* No step makes a stored job wait that does not.
LEMMA NobodyWaitsAgain ==
  ASSUME RootInv, [Next]_vars
  PROVE  \A j \in Stored(job) : ~IsPending(job[j]) => ~IsPending(job'[j])
  <1>1. job' = job \/ \E j, rec : Writes(j, rec)
    <2>1. ASSUME NEW c \in Callers, Starts(c) PROVE job' = job
      BY <2>1 DEF Starts, Status, Release, FanOut, Retry, Cancel, Begin
    <2>2. ASSUME NEW c \in Callers, Fails(c) PROVE job' = job
      BY <2>2 DEF Fails, GetRunFails, SubmitFails, DirectFails, Crash, StoreUnchanged
    <2>3. ASSUME NEW r \in RunIds, RunEnds(r) PROVE job' = job
      BY <2>3 DEF RunEnds
    <2>4. UNCHANGED vars => job' = job
      BY DEF vars
    <2>. QED  BY <2>1, <2>2, <2>3, <2>4, CallWrites DEF Next
  <1>2. ASSUME NEW j, NEW rec, Writes(j, rec), NEW i \in Stored(job), ~IsPending(job[i])
        PROVE  ~IsPending(job'[i])
    <2>1. i \in JobIds /\ job \in Listings
      BY ChildrenOfShards, CallFacts DEF RootInv, StoreOK
    <2>2. job'[i] = IF i = j THEN rec ELSE job[i]
      BY <1>2, <2>1 DEF Writes, Listings
    <2>. QED  BY <1>2, <2>2 DEF Writes
  <1>. QED  BY <1>1, <1>2

\* SubmittedOnceIsEnough: no write of an old listing brings a submitted job back.
THEOREM NothingIsSubmittedAgain == Spec => SubmittedOnceIsEnough
  BY RootInvariant, NobodyWaitsAgain, PTL DEF Spec, SubmittedOnceIsEnough

-----------------------------------------------------------------------------
(* The reducer waits for the chunks. *)

Waits == \A r \in NewReducers : runs'[r].via # "retry" => Pending(job) = {}

\* A change of a run's state is no new run.
LEMMA NoNewRun ==
  ASSUME RootInv,
         \/ UNCHANGED runs
         \/ \E r \in RunIds : \E state : /\ runs[r].state = "live"
                                         /\ runs' = [runs EXCEPT ![r].state = state]
  PROVE  Waits
  <1>1. runs \in [RunIds -> RunRecord] /\ NoRun.state = "none"
    BY DEF RootInv, NoRun, Run
  <1>2. ASSUME NEW q \in RunIds, runs[q] = NoRun PROVE runs'[q] = runs[q]
    BY <1>1, <1>2
  <1>. QED  BY <1>2 DEF Waits, NewReducers

\* What is submitted for shards is no reducer.
LEMMA ShardsAreNoReducer ==
  ASSUME RootInv, NEW js \in SUBSET JobIds, \A j \in js : j[1] \in Shards,
         NEW run \in RunRecord, run.state # "none", Accept(js, run)
  PROVE  Waits
  <1>1. \A r \in RunIds : runs'[r] # runs[r] => r[1] \in js
    BY AcceptGrows
  <1>. QED  BY <1>1, DispatchAssumption DEF Waits, NewReducers

\* A release submits a reducer only if no shard waits.
LEMMA ReleaseWaits ==
  ASSUME RootInv, NEW c \in Callers, ReleaseStep(c)
  PROVE  Waits
  <1>1. CASE SubmitChunk(c)
    <2>1. PICK js \in NextBatches(me[c].todo) :
            /\ me[c].pc = "submit"
            /\ Accept(js, Run("live", {}, {j[1] : j \in js}, "release"))
      BY <1>1 DEF SubmitChunk, At
    <2>2. js \subseteq Pending(me[c].snap)
      BY <2>1, CallFacts DEF CallOK, NextBatches
    <2>3. /\ js \in SUBSET JobIds /\ {j[1] : j \in js} \in SUBSET Shards
          /\ \A j \in js : j[1] \in Shards
      BY <2>2, ChildrenOfShards
    <2>4. LET run == Run("live", {}, {j[1] : j \in js}, "release") IN
          run \in RunRecord /\ run.state # "none"
      BY <2>3, RunType DEF OpNames
    <2>. QED  BY <2>1, <2>3, <2>4, ShardsAreNoReducer
  <1>2. CASE SubmitReducer(c)
    <2>1. me[c].pc = "submit" /\ ReducerIsDue(me[c].snap)
      BY <1>2 DEF SubmitReducer, At
    <2>2. Pending(job) = {}
      BY <2>1, CallFacts DEF ReducerIsDue, ReducerMayGo, HasReducer
    <2>. QED  BY <2>2 DEF Waits
  <1>3. CASE \/ ListJobs(c) \/ GetRun(c) \/ UpdateRefreshed(c) \/ ListAgain(c) \/ RecordRun(c)
             \/ RecordReducer(c) \/ NothingToSubmit(c) \/ Return(c)
    <2>1. UNCHANGED runs
      BY <1>3 DEF ListJobs, GetRun, UpdateRefreshed, ListAgain, RecordRun, RecordReducer,
                  NothingToSubmit, Return, OnlyStore
    <2>. QED  BY <2>1, NoNewRun
  <1>. QED  BY <1>1, <1>2, <1>3 DEF ReleaseStep

\* Nor does any other step of a call, but a retry that asks for it.
LEMMA CallWaits ==
  ASSUME RootInv, NEW c \in Callers, CallStep(c)
  PROVE  Waits
  <1>1. CASE ReleaseStep(c)
    BY <1>1, ReleaseWaits
  <1>2. CASE SubmitDirect(c)
    <2>. DEFINE j   == NewJob("reduce")
                run == Run("live", me[c].deps, me[c].covers, me[c].op)
    <2>1. me[c].pc = "direct" /\ j \in JobIds /\ Accept({j}, run)
      BY <1>2 DEF SubmitDirect, At
    <2>2. me[c] \in Call /\ CallOK(me[c], job, runs) /\ ReducerMayGo(me[c], job)
      BY CallFacts
    <2>3. run \in RunRecord /\ run.state = "live" /\ run.via = me[c].op
      <3>1. /\ me[c].deps \in SUBSET RunIds /\ me[c].covers \in SUBSET Shards
            /\ me[c].op \in OpNames
        BY <2>2 DEF Call
      <3>. QED  BY <3>1, RunType
    <2>. HIDE DEF j, run
    <2>4. \A r \in RunIds : runs'[r] # runs[r] => runs'[r] = run
      BY <2>1, <2>3, AcceptGrows
    <2>5. me[c].op = "retry" \/ Pending(job) = {}
      BY <2>1, <2>2 DEF CallOK, ReducerMayGo
    <2>. QED  BY <2>3, <2>4, <2>5 DEF Waits, NewReducers
  <1>3. CASE Resubmit(c)
    <2>1. PICK j \in me[c].plan :
           \/ UNCHANGED runs
           \/ /\ NewJob(j[1]) \in JobIds
              /\ Accept({NewJob(j[1])}, Run("live", {}, {j[1]}, "retry"))
      BY <1>3 DEF Resubmit
    <2>2. j[1] \in Shards
      BY CallFacts, ChildrenOfShards DEF CallOK
    <2>3. NewJob(j[1])[1] = j[1]
      BY NewJobIsNew
    <2>4. LET run == Run("live", {}, {j[1]}, "retry") IN
          run \in RunRecord /\ run.state # "none"
      BY <2>2, RunType DEF OpNames
    <2>5. CASE UNCHANGED runs
      BY <2>5, NoNewRun
    <2>6. CASE /\ NewJob(j[1]) \in JobIds
               /\ Accept({NewJob(j[1])}, Run("live", {}, {j[1]}, "retry"))
      <3>. DEFINE js == {NewJob(j[1])}
      <3>1. js \in SUBSET JobIds /\ \A i \in js : i[1] \in Shards
        BY <2>2, <2>3, <2>6
      <3>. QED  BY <2>4, <2>6, <3>1, ShardsAreNoReducer
    <2>. QED  BY <2>1, <2>5, <2>6
  <1>4. CASE CancelRun(c)
    <2>. DEFINE run == me[c].rec.run
    <2>1. /\ me[c].pc = "cancel"
          /\ \/ UNCHANGED runs
             \/ /\ run # NoRunId /\ runs[run].state = "live"
                /\ runs' = [runs EXCEPT ![run].state = "cancelled"]
      BY <1>4 DEF CancelRun, At
    <2>2. Accepted(run, runs)
      BY <2>1, CallFacts DEF CallOK
    <2>3. run # NoRunId => run \in RunIds
      BY <2>2 DEF Accepted
    <2>. HIDE DEF run
    <2>. QED  BY <2>1, <2>3, NoNewRun
  <1>5. CASE \/ StoreChild(c) \/ CollectRuns(c) \/ CheckChildren(c) \/ DeferReducer(c)
             \/ CreateJob(c) \/ EndRetry(c) \/ RecordCancelled(c)
    <2>1. UNCHANGED runs
      BY <1>5 DEF StoreChild, CollectRuns, CheckChildren, DeferReducer, CreateJob, EndRetry,
                  RecordCancelled, OnlyStore
    <2>. QED  BY <2>1, NoNewRun
  <1>. QED  BY <1>1, <1>2, <1>3, <1>4, <1>5 DEF CallStep

\* No step submits a reducer while a shard waits, but a retry that asks for it.
LEMMA StepWaits ==
  ASSUME RootInv, [Next]_vars
  PROVE  Waits
  <1>1. ASSUME NEW c \in Callers, Starts(c) PROVE UNCHANGED runs
    BY <1>1 DEF Starts, Status, Release, FanOut, Retry, Cancel, Begin
  <1>2. ASSUME NEW c \in Callers, Fails(c) PROVE UNCHANGED runs
    BY <1>2 DEF Fails, GetRunFails, SubmitFails, DirectFails, Crash
  <1>3. ASSUME NEW r \in RunIds, RunEnds(r) PROVE Waits
    BY <1>3, NoNewRun DEF RunEnds
  <1>4. UNCHANGED vars => UNCHANGED runs
    BY DEF vars
  <1>. QED  BY <1>1, <1>2, <1>3, <1>4, CallWaits, NoNewRun DEF Next

\* ReducerWaitsForChunks: however many calls release chunks at once, and whoever
\* dies, the reducer is held back until the last chunk is out.
THEOREM ReducersWait == Spec => ReducerWaitsForChunks
  <1>1. RootInv /\ [Next]_vars => [Waits]_vars
    BY StepWaits
  <1>2. [][Waits]_vars => ReducerWaitsForChunks
    BY PTL DEF ReducerWaitsForChunks, Waits
  <1>. QED  BY <1>1, <1>2, RootInvariant, PTL DEF Spec

-----------------------------------------------------------------------------
(* Calls that follow one another: no run is lost, no shard runs twice, and  *)
(* the reducer waits for the attempts that count, whatever the backend      *)
(* refuses.                                                                 *)

\* Every attempt of the key is over.
OverFor(jobs, key) == \A i \in Stored(jobs) : i[1] = key => jobs[i].state \in Terminal
IsLive(run, rs) == run \in RunIds /\ rs[run].state = "live"

\* What a call knows of the store if nobody else writes it: the runs it listed
\* are those stored, and no shard it resubmits has an attempt under way.
AloneOK(m, jobs, rs) ==
  /\ m.pc \in {"refresh", "update"} => \A j \in m.todo : jobs[j].run = m.snap[j].run
  /\ m.pc = "update" => /\ m.rec.run = jobs[m.cur].run /\ ~IsLive(m.rec.run, rs)
                        /\ m.cur \notin m.todo
  /\ m.pc \in {"submit", "record"} =>
       /\ m.todo \subseteq Pending(jobs)
       /\ \A j \in Stored(m.snap) : j[1] = "reduce" => jobs[j] = m.snap[j]
  /\ m.pc = "record" =>
       /\ \A h \in m.held : h[1] \in Pending(jobs) \ m.todo /\ h[2][1] = h[1]
       /\ \A h, i \in m.held : h[1] = i[1] => h = i
  /\ m.pc = "recordReducer" => /\ m.cur[1] = "reduce" /\ jobs[m.cur].run = NoRunId
                               /\ m.rec.run \in RunIds /\ m.rec.run[1] = m.cur
  /\ m.pc = "create" => /\ m.target \notin Stored(jobs)
                        /\ m.rec.run \in RunIds /\ m.rec.run[1] = m.target
                        /\ m.target[1] # "reduce" =>
                             /\ OverFor(jobs, m.target[1])
                             /\ \A j \in m.plan : j[1] # m.target[1]
  /\ m.pc # "idle" => /\ \A j \in m.plan : OverFor(jobs, j[1])
                      /\ \A i, j \in m.plan : i[1] = j[1] => i = j
  /\ m.pc \in {"cancel", "cancelled"} => m.rec.run = jobs[m.target].run
  /\ m.pc = "cancelled" => ~IsLive(m.rec.run, rs)
  /\ m.pc = "store" => Stored(jobs) \subseteq FirstJobs /\ m.plan = {}

\* A stored run is a run of its job, and over if the job is; a shard has one
\* attempt that is not over.
RunsFit(jobs, rs) ==
  /\ \A j \in JobIds : /\ jobs[j].state = "none" => jobs[j].run = NoRunId
                       /\ jobs[j].run # NoRunId => jobs[j].run[1] = j
                       /\ jobs[j].state \in Terminal => ~IsLive(jobs[j].run, rs)
  /\ \A i, j \in Children(jobs) :
       i[1] = j[1] /\ jobs[i].state \notin Terminal /\ jobs[j].state \notin Terminal => i = j

\* The call is about to store the run.
Holds(m, r) ==
  \/ m.pc = "record" /\ <<r[1], r>> \in m.held
  \/ m.pc \in {"recordReducer", "create"} /\ m.rec.run = r

\* One call at a time, and each run the backend accepted is stored or held.
AloneInv ==
  /\ \A c, d \in Callers : me[c].pc # "idle" /\ me[d].pc # "idle" => c = d
  /\ \A c \in Callers : AloneOK(me[c], job, runs)
  /\ RunsFit(job, runs)
  /\ \A r \in RunIds : runs[r].state # "none" =>
       job[r[1]].run = r \/ \E c \in Callers : Holds(me[c], r)

SequentialInv == ~overlap /\ crashes = 0 => AloneInv

-----------------------------------------------------------------------------
(* What every step has to show. *)

\* What the invariant says of the one call under way.
LEMMA AloneFacts ==
  ASSUME AloneInv, NEW c \in Callers, me[c].pc # "idle"
  PROVE  /\ \A d \in Callers \ {c} : me[d].pc = "idle"
         /\ AloneOK(me[c], job, runs) /\ RunsFit(job, runs)
         /\ \A r \in RunIds : runs[r].state # "none" =>
              job[r[1]].run = r \/ Holds(me[c], r)
  <1>1. \A d \in Callers \ {c} : me[d].pc = "idle"
    BY DEF AloneInv
  <1>2. \A d \in Callers, r \in RunIds : Holds(me[d], r) => d = c
    BY <1>1 DEF Holds
  <1>. QED  BY <1>1, <1>2 DEF AloneInv

\* A step of the one call keeps the invariant if its locals fit, and the runs
\* of the store, and no run is lost.
LEMMA AloneMoves ==
  ASSUME RootInv, NEW c \in Callers, \A d \in Callers \ {c} : me[d].pc = "idle",
         NEW new, Go(c, new), AloneOK(new, job', runs'), RunsFit(job', runs'),
         \A r \in RunIds : runs'[r].state # "none" => job'[r[1]].run = r \/ Holds(new, r)
  PROVE  AloneInv'
  <1>1. me'[c] = new /\ \A d \in Callers \ {c} : me'[d] = me[d]
    BY DEF Go, RootInv, CallsOK
  <1>2. \A d \in Callers \ {c} : AloneOK(me'[d], job', runs')
    <2>. SUFFICES ASSUME NEW d \in Callers \ {c} PROVE AloneOK(me[d], job', runs')
      BY <1>1
    <2>1. me[d].pc = "idle"
      OBVIOUS
    <2>. QED  BY <2>1 DEF AloneOK
  <1>3. \A d, e \in Callers : me'[d].pc # "idle" /\ me'[e].pc # "idle" => d = e
    BY <1>1
  <1>4. \A d \in Callers : AloneOK(me'[d], job', runs')
    BY <1>1, <1>2
  <1>. HIDE DEF Holds, AloneOK, RunsFit
  <1>. QED  BY <1>1, <1>3, <1>4 DEF AloneInv

\* The same of a step that writes neither the store nor the backend.
LEMMA AloneLocal ==
  ASSUME RootInv, AloneInv, NEW c \in Callers, me[c].pc # "idle", NEW new, Go(c, new),
         UNCHANGED <<job, runs>>, AloneOK(new, job, runs),
         me[c].pc \notin {"record", "recordReducer", "create"}
  PROVE  AloneInv'
  <1>1. \A r \in RunIds : ~Holds(me[c], r)
    BY DEF Holds
  <1>2. job' = job /\ runs' = runs
    OBVIOUS
  <1>. HIDE DEF Holds, AloneOK, RunsFit
  <1>. QED  BY <1>1, <1>2, AloneFacts, AloneMoves

\* A record that may be stored: it keeps the run of the job, or gives it its
\* first one, and a job that is not over is the only one of its shard.
MayStore(rec, j) ==
  /\ rec.state # "none" /\ (rec.run # NoRunId => rec.run[1] = j)
  /\ rec.state \in Terminal => ~IsLive(rec.run, runs)
  /\ \/ rec.state \in Terminal \/ j[1] = "reduce"
     \/ \A i \in Stored(job) \ {j} : i[1] = j[1] => job[i].state \in Terminal
  /\ job[j].run \in {NoRunId, rec.run}

\* The same of a step that writes one job.
LEMMA AloneWrites ==
  ASSUME RootInv, AloneInv, NEW c \in Callers, me[c].pc # "idle", NEW new, Go(c, new),
         UNCHANGED runs, NEW j \in JobIds, NEW rec, job' = [job EXCEPT ![j] = rec],
         MayStore(rec, j),
         \A r \in RunIds : Holds(me[c], r) => (rec.run = r /\ r[1] = j) \/ Holds(new, r),
         AloneOK(new, job', runs)
  PROVE  AloneInv'
  <1>1. job'[j] = rec /\ \A i \in JobIds \ {j} : job'[i] = job[i]
    BY CallFacts DEF Listings
  <1>2. Stored(job') = Stored(job) \cup {j}
    BY <1>1 DEF Stored, MayStore
  <1>3. RunsFit(job, runs)
    BY DEF AloneInv
  <1>4. \A i \in JobIds : /\ job'[i].state = "none" => job'[i].run = NoRunId
                          /\ job'[i].run # NoRunId => job'[i].run[1] = i
                          /\ job'[i].state \in Terminal => ~IsLive(job'[i].run, runs)
    BY <1>1, <1>3 DEF RunsFit, MayStore
  <1>5. ASSUME NEW a \in Children(job'), NEW b \in Children(job'), a[1] = b[1],
               job'[a].state \notin Terminal, job'[b].state \notin Terminal
        PROVE  a = b
    <2>1. a \in JobIds /\ b \in JobIds /\ a[1] # "reduce" /\ b[1] # "reduce"
      BY DEF Children, Stored
    <2>2. CASE a # j /\ b # j
      <3>1. a \in Children(job) /\ b \in Children(job)
        BY <1>2, <2>1, <2>2 DEF Children
      <3>. QED  BY <1>1, <1>3, <1>5, <2>1, <2>2, <3>1 DEF RunsFit
    <2>3. CASE a = j /\ b # j
      <3>1. b \in Stored(job) \ {j}
        BY <1>2, <2>1, <2>3 DEF Children
      <3>. QED  BY <1>1, <1>5, <2>1, <2>3, <3>1 DEF MayStore
    <2>4. CASE a # j /\ b = j
      <3>1. a \in Stored(job) \ {j}
        BY <1>2, <2>1, <2>4 DEF Children
      <3>. QED  BY <1>1, <1>5, <2>1, <2>4, <3>1 DEF MayStore
    <2>. QED  BY <2>2, <2>3, <2>4
  <1>6. RunsFit(job', runs)
    BY <1>4, <1>5 DEF RunsFit
  <1>7. ASSUME NEW r \in RunIds, runs[r].state # "none"
        PROVE  job'[r[1]].run = r \/ Holds(new, r)
    <2>1. r[1] \in JobIds /\ r # NoRunId
      BY IdParts, NoRunIdIsNoRun
    <2>2. job[r[1]].run = r \/ Holds(me[c], r)
      BY <1>7, AloneFacts
    <2>. QED  BY <1>1, <2>1, <2>2 DEF MayStore
  <1>8. runs' = runs
    OBVIOUS
  <1>9. \A d \in Callers \ {c} : me[d].pc = "idle"
    BY AloneFacts
  <1>. HIDE DEF Holds, AloneOK, RunsFit
  <1>. QED  BY <1>6, <1>7, <1>8, <1>9, AloneMoves

\* The same of a submission: the jobs have no run yet, and the call holds the
\* accepted ones.
LEMMA AloneSubmits ==
  ASSUME RootInv, AloneInv, NEW c \in Callers, me[c].pc # "idle", NEW new, Go(c, new),
         UNCHANGED job, NEW js \in SUBSET JobIds, NEW run \in RunRecord, run.state # "none",
         Accept(js, run), me[c].pc \notin {"record", "recordReducer", "create"},
         \A j \in js : job[j].run = NoRunId /\ Holds(new, NextRun(j)),
         AloneOK(new, job, runs')
  PROVE  AloneInv'
  <1>1. \A r \in RunIds : ~Holds(me[c], r)
    BY DEF Holds
  <1>2. /\ \A d \in Callers \ {c} : me[d].pc = "idle"
        /\ RunsFit(job, runs)
        /\ \A r \in RunIds : runs[r].state # "none" => job[r[1]].run = r
    BY <1>1, AloneFacts
  <1>. HIDE DEF Holds
  <1>3. runs' = [r \in RunIds |-> IF r \in {NextRun(j) : j \in js} THEN run ELSE runs[r]]
    BY DEF Accept
  <1>4. \A j : NextRun(j)[1] = j
    BY DEF NextRun
  <1>. HIDE DEF NextRun
  <1>5. ASSUME NEW r \in RunIds, runs'[r].state # "none"
        PROVE  job[r[1]].run = r \/ Holds(new, r)
    BY <1>2, <1>3, <1>5
  <1>6. ASSUME NEW j \in JobIds, job[j].run # NoRunId, job[j].state \in Terminal
        PROVE  ~IsLive(job[j].run, runs')
    <2>1. job[j].run \in RunIds /\ job[j].run[1] = j
      BY <1>2, <1>6, CallFacts DEF RunsFit, Listings, JobRecord
    <2>2. ~IsLive(job[j].run, runs)
      BY <1>2, <1>6 DEF RunsFit
    <2>3. job[j].run \notin {NextRun(i) : i \in js}
      BY <1>4, <1>6, <2>1
    <2>. QED  BY <1>3, <2>1, <2>2, <2>3 DEF IsLive
  <1>7. RunsFit(job, runs')
    BY <1>2, <1>6, NoRunIdIsNoRun DEF RunsFit, IsLive
  <1>8. job' = job
    OBVIOUS
  <1>. HIDE DEF AloneOK, RunsFit
  <1>. QED  BY <1>2, <1>5, <1>7, <1>8, AloneMoves

\* Runs that end change nothing of what a call knows.
LEMMA AloneCalms ==
  ASSUME NEW m, NEW jobs, NEW rs, NEW rt, AloneOK(m, jobs, rs),
         \A run : IsLive(run, rt) => IsLive(run, rs)
  PROVE  AloneOK(m, jobs, rt)
  BY DEF AloneOK

-----------------------------------------------------------------------------
(* The steps of a release. *)

\* The first listing keeps the invariant: its runs are those stored.
LEMMA ListJobsAlone ==
  ASSUME RootInv, AloneInv, NEW c \in Callers, ListJobs(c)
  PROVE  AloneInv'
  <1>. DEFINE new == [On(c, "refresh") EXCEPT !.snap = job, !.todo = InFlight(job)]
  <1>1. me[c].pc = "list" /\ Go(c, new) /\ UNCHANGED <<job, runs>>
    BY DEF ListJobs, At, StoreUnchanged
  <1>2. new.pc = "refresh" /\ new.snap = job /\ new.plan = me[c].plan
    <2>1. me[c] \in Call
      BY CallFacts
    <2>. QED  BY <2>1 DEF On, Call
  <1>. HIDE DEF new
  <1>3. AloneOK(new, job, runs)
    BY <1>1, <1>2, AloneFacts DEF AloneOK
  <1>. QED  BY <1>1, <1>3, AloneLocal

\* Asking for the state of a run keeps the invariant.
LEMMA GetRunAlone ==
  ASSUME RootInv, AloneInv, NEW c \in Callers, GetRun(c) \/ GetRunFails(c)
  PROVE  AloneInv'
  <1>. DEFINE j     == FirstListed(me[c].todo)
              state == runs[me[c].snap[j].run].state
              js    == me[c].todo \ {j}
              rest  == [me[c] EXCEPT !.todo = js]
              rec   == [me[c].snap[j] EXCEPT !.state = state]
              new   == [rest EXCEPT !.pc = "update", !.cur = j, !.rec = rec]
  <1>1. /\ me[c].pc = "refresh" /\ me[c].todo # {} /\ UNCHANGED <<job, runs>>
        /\ \/ Go(c, rest)
           \/ state # "live" /\ Go(c, new)
    BY DEF GetRun, GetRunFails, At, StoreUnchanged
  <1>2. me[c] \in Call /\ AloneOK(me[c], job, runs)
    BY <1>1, CallFacts, AloneFacts
  <1>3. CASE Go(c, rest)
    <2>1. /\ rest.pc = "refresh" /\ rest.snap = me[c].snap /\ rest.plan = me[c].plan
          /\ rest.todo = js
      BY <1>1, <1>2 DEF Call
    <2>. HIDE DEF rest
    <2>2. AloneOK(rest, job, runs)
      BY <1>1, <1>2, <2>1 DEF AloneOK
    <2>. QED  BY <1>1, <1>3, <2>2, AloneLocal
  <1>4. CASE state # "live" /\ Go(c, new)
    <2>1. j \in me[c].todo /\ me[c].snap[j] \in JobRecord
      BY <1>1, ListedRun
    <2>. HIDE DEF j
    <2>2. rec.run = me[c].snap[j].run
      BY <2>1 DEF JobRecord
    <2>3. rec.run = job[j].run /\ ~IsLive(rec.run, runs)
      BY <1>1, <1>2, <1>4, <2>1, <2>2 DEF AloneOK, IsLive
    <2>. HIDE DEF rec, state
    <2>4. /\ new.pc = "update" /\ new.snap = me[c].snap /\ new.plan = me[c].plan
          /\ new.todo = js /\ new.cur = j /\ new.rec = rec
      BY <1>1, <1>2 DEF Call
    <2>. HIDE DEF new
    <2>5. AloneOK(new, job, runs)
      BY <1>1, <1>2, <2>3, <2>4 DEF AloneOK
    <2>. QED  BY <1>1, <1>4, <2>5, AloneLocal
  <1>. QED  BY <1>1, <1>3, <1>4

\* Storing the state of a run that is over keeps the invariant.
LEMMA UpdateRefreshedAlone ==
  ASSUME RootInv, AloneInv, NEW c \in Callers, UpdateRefreshed(c)
  PROVE  AloneInv'
  <1>. DEFINE new == [On(c, "refresh") EXCEPT !.cur = <<>>, !.rec = NoJob]
              rec == me[c].rec
              j   == me[c].cur
  <1>1. /\ me[c].pc = "update" /\ Go(c, new) /\ UNCHANGED runs
        /\ job' = [job EXCEPT ![j] = rec]
    BY DEF UpdateRefreshed, At, OnlyStore
  <1>2. /\ me[c] \in Call /\ AloneOK(me[c], job, runs) /\ RunsFit(job, runs)
        /\ CallOK(me[c], job, runs)
    BY <1>1, CallFacts, AloneFacts
  <1>3. /\ new.pc = "refresh" /\ new.snap = me[c].snap /\ new.todo = me[c].todo
        /\ new.plan = me[c].plan
    BY <1>2 DEF On, Call
  <1>4. /\ rec.state \in Terminal /\ j \in Stored(job) /\ j \in JobIds
        /\ rec.run = job[j].run /\ ~IsLive(rec.run, runs) /\ j \notin me[c].todo
    BY <1>1, <1>2, ChildrenOfShards DEF CallOK, AloneOK
  <1>5. MayStore(rec, j)
    BY <1>2, <1>4 DEF RunsFit, Terminal, MayStore
  <1>6. \A r \in RunIds : ~Holds(me[c], r)
    BY <1>1 DEF Holds
  <1>. HIDE DEF new, rec, j
  <1>7. AloneOK(new, job', runs)
    <2>1. job'[j] = rec /\ \A i \in JobIds \ {j} : job'[i] = job[i]
      BY <1>1, <1>4, CallFacts DEF Listings
    <2>2. \A i \in me[c].plan : OverFor(job', i[1])
      <3>1. \A i \in me[c].plan : OverFor(job, i[1])
        BY <1>1, <1>2 DEF AloneOK
      <3>. QED  BY <1>4, <2>1, <3>1 DEF OverFor, Stored
    <2>3. me[c].todo \subseteq JobIds
      BY <1>2 DEF Call
    <2>. HIDE DEF OverFor
    <2>. QED  BY <1>1, <1>2, <1>3, <1>4, <2>1, <2>2, <2>3 DEF AloneOK
  <1>. QED  BY <1>1, <1>4, <1>5, <1>6, <1>7, AloneWrites

\* The second listing keeps the invariant: the jobs it takes wait.
LEMMA ListAgainAlone ==
  ASSUME RootInv, AloneInv, NEW c \in Callers, ListAgain(c)
  PROVE  AloneInv'
  <1>. DEFINE js  == FirstChunks(job, Slots(job, me[c].force))
              new == [On(c, "submit") EXCEPT !.snap = job, !.todo = js]
  <1>1. me[c].pc = "refresh" /\ Go(c, new) /\ UNCHANGED <<job, runs>>
    BY DEF ListAgain, At, StoreUnchanged
  <1>2. js \subseteq Pending(job)
    BY DEF FirstChunks
  <1>. HIDE DEF js
  <1>3. new.pc = "submit" /\ new.snap = job /\ new.todo = js /\ new.plan = me[c].plan
    <2>1. me[c] \in Call
      BY CallFacts
    <2>. QED  BY <2>1 DEF On, Call
  <1>. HIDE DEF new
  <1>4. AloneOK(new, job, runs)
    BY <1>1, <1>2, <1>3, AloneFacts DEF AloneOK
  <1>. QED  BY <1>1, <1>4, AloneLocal

\* Submitting a chunk keeps the invariant: its runs are held.
LEMMA SubmitChunkAlone ==
  ASSUME RootInv, AloneInv, NEW c \in Callers, SubmitChunk(c)
  PROVE  AloneInv'
  <1>1. PICK js \in NextBatches(me[c].todo) :
          /\ me[c].pc = "submit"
          /\ Accept(js, Run("live", {}, {j[1] : j \in js}, "release"))
          /\ Go(c, [On(c, "record") EXCEPT !.todo = @ \ js,
                      !.held = {<<j, NextRun(j)>> : j \in js}])
          /\ UNCHANGED job
    BY DEF SubmitChunk, At, StoreUnchanged
  <1>. DEFINE run  == Run("live", {}, {j[1] : j \in js}, "release")
              held == {<<j, NextRun(j)>> : j \in js}
              rest == me[c].todo \ js
              new  == [On(c, "record") EXCEPT !.todo = rest, !.held = held]
  <1>2. me[c] \in Call /\ AloneOK(me[c], job, runs)
    BY <1>1, CallFacts, AloneFacts
  <1>3. me[c].todo \subseteq Pending(job)
    BY <1>1, <1>2 DEF AloneOK
  <1>4. js \subseteq me[c].todo
    BY DEF NextBatches
  <1>5. js \in SUBSET JobIds /\ {j[1] : j \in js} \in SUBSET Shards /\ js \subseteq Pending(job)
    BY <1>3, <1>4, ChildrenOfShards
  <1>6. run \in RunRecord /\ run.state = "live"
    BY <1>5, RunType DEF OpNames
  <1>7. \A j : NextRun(j)[1] = j
    BY DEF NextRun
  <1>8. Go(c, new)
    BY <1>1, <1>2 DEF On, Call
  <1>. HIDE DEF run, NextRun
  <1>9. /\ \A h \in held : h[1] \in Pending(job) \ rest /\ h[2][1] = h[1]
        /\ \A h, i \in held : h[1] = i[1] => h = i
    BY <1>5, <1>7
  <1>10. \A j \in js : <<NextRun(j)[1], NextRun(j)>> \in held
    BY <1>7
  <1>11. rest \subseteq Pending(job)
    BY <1>3
  <1>. HIDE DEF held, rest
  <1>12. /\ new.pc = "record" /\ new.snap = me[c].snap /\ new.plan = me[c].plan
         /\ new.todo = rest /\ new.held = held
    BY <1>2 DEF On, Call
  <1>. HIDE DEF new
  <1>13. AloneOK(new, job, runs')
    BY <1>1, <1>2, <1>9, <1>11, <1>12 DEF AloneOK
  <1>14. \A j \in js : job[j].run = NoRunId /\ Holds(new, NextRun(j))
    <2>1. \A j \in js : job[j].run = NoRunId
      BY <1>5 DEF Pending, IsPending
    <2>. QED  BY <1>10, <1>12, <2>1 DEF Holds
  <1>15. Accept(js, run) /\ run.state # "none" /\ UNCHANGED job /\ me[c].pc = "submit"
    BY <1>1, <1>6 DEF run
  <1>. QED  BY <1>5, <1>6, <1>8, <1>13, <1>14, <1>15, AloneSubmits

\* Between its listings a call relies on the attempts it resubmits only.
LEMMA AloneRests ==
  ASSUME NEW m, NEW jobs, NEW rs, AloneOK(m, jobs, rs), m.pc # "idle",
         NEW new, new.plan \subseteq m.plan,
         new.pc \in {"idle", "list", "return", "collect", "check", "defer", "direct", "resubmit"}
  PROVE  AloneOK(new, jobs, rs)
  BY DEF AloneOK

\* What a write leaves of a plan: the shards to resubmit have no attempt under
\* way, unless the write makes one.
LEMMA PlanStays ==
  ASSUME RootInv, NEW m, AloneOK(m, job, runs), m.pc # "idle",
         NEW j \in JobIds, NEW rec, job' = [job EXCEPT ![j] = rec],
         rec.state \in Terminal \/ \A i \in m.plan : i[1] # j[1]
  PROVE  \A i \in m.plan : OverFor(job', i[1])
  <1>1. job'[j] = rec /\ \A i \in JobIds \ {j} : job'[i] = job[i]
    BY CallFacts DEF Listings, RootInv, StoreOK
  <1>2. \A i \in m.plan : OverFor(job, i[1])
    BY DEF AloneOK
  <1>. QED  BY <1>1, <1>2 DEF OverFor, Stored

\* Storing an accepted run keeps the invariant: the call lets go of it.
LEMMA RecordRunAlone ==
  ASSUME RootInv, AloneInv, NEW c \in Callers, RecordRun(c)
  PROVE  AloneInv'
  <1>1. PICK h \in me[c].held :
         /\ me[c].pc = "record" /\ UNCHANGED runs
         /\ job' = [job EXCEPT ![h[1]] =
                      [me[c].snap[h[1]] EXCEPT !.state = "active", !.run = h[2],
                                               !.forced = @ \/ me[c].force > 0]]
         /\ Go(c, [On(c, IF me[c].held = {h} THEN "submit" ELSE "record")
                     EXCEPT !.held = @ \ {h}])
    BY DEF RecordRun, At, OnlyStore
  <1>. DEFINE j    == h[1]
              old  == me[c].snap[j]
              rec  == [old EXCEPT !.state = "active", !.run = h[2],
                                  !.forced = old.forced \/ me[c].force > 0]
              pc   == IF me[c].held = {h} THEN "submit" ELSE "record"
              held == me[c].held \ {h}
              new  == [On(c, pc) EXCEPT !.held = held]
  <1>2. /\ me[c] \in Call /\ AloneOK(me[c], job, runs) /\ RunsFit(job, runs)
        /\ CallOK(me[c], job, runs)
    BY <1>1, CallFacts, AloneFacts
  <1>3. /\ j \in Pending(job) /\ j \notin me[c].todo /\ h[2][1] = j
        /\ \A i \in held : i[1] \in Pending(job) \ me[c].todo /\ i[2][1] = i[1] /\ i[1] # j
    BY <1>1, <1>2 DEF AloneOK
  <1>4. /\ j \in JobIds /\ j \in Stored(job) /\ j[1] # "reduce" /\ j \in Children(job)
        /\ job[j].run = NoRunId /\ job[j].state = "dispatching"
    BY <1>3, ChildrenOfShards DEF Pending, IsPending, Children
  <1>5. old \in JobRecord
    <2>1. SnapOK(me[c].snap, job, runs)
      BY <1>1, <1>2 DEF CallOK, Looking
    <2>. QED  BY <1>4, <2>1 DEF SnapOK, Listings
  <1>6. job' = [job EXCEPT ![j] = rec] /\ Go(c, new)
    BY <1>1, <1>2, <1>5 DEF On, Call, JobRecord
  <1>7. /\ h[2] \in RunIds
        /\ \A r \in RunIds : <<r[1], r>> = h => r = h[2] /\ r[1] = j
    BY <1>2 DEF Call
  <1>. HIDE DEF j, old
  <1>8. rec.state = "active" /\ rec.run = h[2]
    BY <1>5 DEF JobRecord
  <1>. HIDE DEF rec
  <1>9. pc \in {"submit", "record"} /\ (pc = "submit" => held = {})
    BY <1>1
  <1>10. \A r \in RunIds : Holds(me[c], r) => (rec.run = r /\ r[1] = j) \/ <<r[1], r>> \in held
    BY <1>1, <1>7, <1>8 DEF Holds
  <1>. HIDE DEF held, pc
  <1>11. /\ new.pc = pc /\ new.snap = me[c].snap /\ new.plan = me[c].plan
         /\ new.todo = me[c].todo /\ new.held = held
    BY <1>2 DEF On, Call
  <1>. HIDE DEF new
  <1>12. AloneOK(new, job', runs)
    <2>1. job'[j] = rec /\ \A i \in JobIds \ {j} : job'[i] = job[i]
      BY <1>4, <1>6, CallFacts DEF Listings
    <2>2. \A i \in Pending(job) : i # j => i \in Pending(job')
      <3>1. rec.state # "none"
        BY <1>8
      <3>. QED  BY <2>1 DEF Pending, Children, Stored
    <2>3. \A i \in me[c].plan : OverFor(job', i[1])
      <3>1. \A i \in me[c].plan : i[1] # j[1]
        <4>1. \A i \in me[c].plan : OverFor(job, i[1])
          BY <1>1, <1>2 DEF AloneOK
        <4>. QED  BY <1>4, <4>1 DEF OverFor, Terminal
      <3>. QED  BY <1>1, <1>2, <1>4, <1>6, <3>1, PlanStays
    <2>4. \A i \in Stored(me[c].snap) : i[1] = "reduce" => job'[i] = me[c].snap[i]
      <3>1. Stored(me[c].snap) \subseteq JobIds
        BY ChildrenOfShards
      <3>. QED  BY <1>1, <1>2, <1>4, <2>1, <3>1 DEF AloneOK
    <2>5. me[c].todo \subseteq Pending(job')
      BY <1>1, <1>2, <1>3, <2>2 DEF AloneOK
    <2>6. /\ \A i \in held : i[1] \in Pending(job') \ me[c].todo /\ i[2][1] = i[1]
          /\ \A i, k \in held : i[1] = k[1] => i = k
      <3>1. \A i, k \in held : i[1] = k[1] => i = k
        BY <1>1, <1>2 DEF AloneOK, held
      <3>. QED  BY <1>3, <2>2, <3>1
    <2>7. \A i, k \in me[c].plan : i[1] = k[1] => i = k
      BY <1>1, <1>2 DEF AloneOK
    <2>. HIDE DEF OverFor
    <2>. QED  BY <1>9, <1>11, <2>3, <2>4, <2>5, <2>6, <2>7 DEF AloneOK
  <1>13. \A r \in RunIds : Holds(me[c], r) => (rec.run = r /\ r[1] = j) \/ Holds(new, r)
    <2>1. \A r \in RunIds : <<r[1], r>> \in held => Holds(new, r)
      BY <1>9, <1>11 DEF Holds
    <2>. HIDE DEF Holds
    <2>. QED  BY <1>10, <2>1
  <1>14. \A i \in Stored(job) \ {j} : i[1] = j[1] => job[i].state \in Terminal
    BY <1>2, <1>4 DEF RunsFit, Children, Terminal
  <1>15. MayStore(rec, j)
    BY <1>3, <1>4, <1>8, <1>14 DEF Terminal, MayStore, j
  <1>16. UNCHANGED runs /\ me[c].pc # "idle"
    BY <1>1
  <1>. QED  BY <1>4, <1>6, <1>12, <1>13, <1>15, <1>16, AloneWrites

\* Submitting the deferred reducer keeps the invariant.
LEMMA SubmitReducerAlone ==
  ASSUME RootInv, AloneInv, NEW c \in Callers, SubmitReducer(c)
  PROVE  AloneInv'
  <1>. DEFINE snap == me[c].snap
              j    == Effective(snap, "reduce")
              kids == EffectiveChildren(snap)
              run  == Run("live", RunsOf(snap, kids), {k[1] : k \in kids}, "release")
              rec  == [snap[j] EXCEPT !.state = "active", !.run = NextRun(j)]
              new  == [On(c, "recordReducer") EXCEPT !.cur = j, !.rec = rec]
  <1>1. /\ me[c].pc = "submit" /\ ReducerIsDue(snap) /\ UNCHANGED job
        /\ Accept({j}, run) /\ Go(c, new)
    BY DEF SubmitReducer, At, StoreUnchanged
  <1>2. /\ me[c] \in Call /\ AloneOK(me[c], job, runs) /\ SnapOK(snap, job, runs)
    BY <1>1, CallFacts, AloneFacts DEF CallOK, Looking
  <1>3. snap \in Listings /\ j \in Stored(snap) /\ j[1] = "reduce" /\ IsPending(snap[j])
    BY <1>1, <1>2, EffectiveType DEF SnapOK, ReducerIsDue
  <1>4. j \in JobIds /\ snap[j] \in JobRecord /\ job[j].run = NoRunId
    BY <1>1, <1>2, <1>3, ChildrenOfShards DEF Listings, AloneOK, IsPending
  <1>5. kids \in SUBSET JobIds /\ {k[1] : k \in kids} \in SUBSET Shards
    BY <1>3, EffectiveChildrenType, ChildrenOfShards
  <1>6. run \in RunRecord /\ run.state = "live"
    BY <1>3, <1>5, RunType, RunsOfType DEF OpNames
  <1>7. NextRun(j)[1] = j
    BY DEF NextRun
  <1>. HIDE DEF run, j, kids
  <1>8. NextRun(j) \in RunIds
    BY <1>1, <1>4, <1>6, AcceptGrows
  <1>. HIDE DEF NextRun
  <1>9. rec.run = NextRun(j)
    BY <1>4 DEF JobRecord
  <1>. HIDE DEF rec
  <1>10. /\ new.pc = "recordReducer" /\ new.plan = me[c].plan /\ new.cur = j /\ new.rec = rec
    BY <1>2 DEF On, Call
  <1>. HIDE DEF new
  <1>11. AloneOK(new, job, runs')
    BY <1>1, <1>2, <1>3, <1>4, <1>7, <1>8, <1>9, <1>10 DEF AloneOK
  <1>12. Holds(new, NextRun(j))
    BY <1>9, <1>10 DEF Holds
  <1>13. {j} \in SUBSET JobIds /\ run.state # "none"
    BY <1>4, <1>6
  <1>14. \A i \in {j} : job[i].run = NoRunId /\ Holds(new, NextRun(i))
    BY <1>4, <1>12
  <1>. QED  BY <1>1, <1>6, <1>11, <1>13, <1>14, AloneSubmits

\* The end of a release leaves the locals of the call in order.
LEMMA EndReleaseRests ==
  ASSUME RootInv, NEW c \in Callers, EndRelease(c)
  PROVE  \E new : /\ Go(c, new) /\ new.pc \in {"idle", "return"}
                  /\ new.plan \subseteq me[c].plan
  <1>1. CASE me[c].op = "status"
    BY <1>1, IdleType DEF EndRelease
  <1>2. CASE me[c].op # "status"
    <2>. DEFINE new == [On(c, "return") EXCEPT !.snap = <<>>, !.cur = <<>>,
                         !.todo = {}, !.rec = NoJob]
    <2>1. Go(c, new)
      BY <1>2 DEF EndRelease
    <2>2. me[c] \in Call
      BY CallFacts
    <2>3. new.pc = "return" /\ new.plan = me[c].plan
      BY <2>2 DEF On, Call
    <2>. QED  BY <2>1, <2>3
  <1>. QED  BY <1>1, <1>2

\* Storing the reducer's run keeps the invariant.
LEMMA RecordReducerAlone ==
  ASSUME RootInv, AloneInv, NEW c \in Callers, RecordReducer(c)
  PROVE  AloneInv'
  <1>. DEFINE rec == me[c].rec
              j   == me[c].cur
  <1>1. /\ me[c].pc = "recordReducer" /\ EndRelease(c) /\ UNCHANGED runs
        /\ job' = [job EXCEPT ![j] = rec]
    BY DEF RecordReducer, At, OnlyStore
  <1>2. PICK new : /\ Go(c, new) /\ new.pc \in {"idle", "return"}
                   /\ new.plan \subseteq me[c].plan
    BY <1>1, EndReleaseRests
  <1>3. me[c] \in Call /\ CallOK(me[c], job, runs) /\ AloneOK(me[c], job, runs)
    BY <1>1, CallFacts, AloneFacts
  <1>4. /\ rec.state = "active" /\ j \in JobIds
        /\ j[1] = "reduce" /\ job[j].run = NoRunId /\ rec.run \in RunIds /\ rec.run[1] = j
    BY <1>1, <1>3, ChildrenOfShards DEF CallOK, AloneOK
  <1>5. \A r \in RunIds : Holds(me[c], r) => rec.run = r /\ r[1] = j
    BY <1>1, <1>4 DEF Holds
  <1>6. \A i \in me[c].plan : i[1] # "reduce"
    BY <1>3 DEF CallOK, Children
  <1>. HIDE DEF rec, j
  <1>7. AloneOK(new, job', runs)
    <2>1. \A i \in me[c].plan : OverFor(job', i[1])
      BY <1>1, <1>3, <1>4, <1>6, PlanStays
    <2>2. \A i, k \in me[c].plan : i[1] = k[1] => i = k
      BY <1>1, <1>3 DEF AloneOK
    <2>. QED  BY <1>2, <2>1, <2>2 DEF AloneOK
  <1>8. MayStore(rec, j)
    BY <1>4 DEF Terminal, MayStore
  <1>9. \A r \in RunIds : Holds(me[c], r) => (rec.run = r /\ r[1] = j) \/ Holds(new, r)
    BY <1>5
  <1>10. /\ me[c].pc # "idle" /\ job' = [job EXCEPT ![j] = rec] /\ Go(c, new) /\ UNCHANGED runs
         /\ j \in JobIds
    BY <1>1, <1>2, <1>4
  <1>. QED  BY <1>7, <1>8, <1>9, <1>10, AloneWrites

\* A call that ends between two writes keeps the invariant.
LEMMA QuitAlone ==
  ASSUME RootInv, AloneInv, NEW c \in Callers, Quit(c), UNCHANGED <<job, runs>>,
         me[c].pc \notin {"idle", "record", "recordReducer", "create"}
  PROVE  AloneInv'
  <1>1. AloneOK(Idle, job, runs)
    BY IdleType DEF AloneOK
  <1>. QED  BY <1>1, AloneLocal DEF Quit

\* A release that has nothing to submit, or fails, keeps the invariant.
LEMMA NothingToSubmitAlone ==
  ASSUME RootInv, AloneInv, NEW c \in Callers, NothingToSubmit(c) \/ SubmitFails(c)
  PROVE  AloneInv'
  <1>1. me[c].pc = "submit" /\ UNCHANGED <<job, runs>> /\ (Quit(c) \/ EndRelease(c))
    BY DEF NothingToSubmit, SubmitFails, At, StoreUnchanged
  <1>2. CASE EndRelease(c)
    <2>1. PICK new : /\ Go(c, new) /\ new.pc \in {"idle", "return"}
                     /\ new.plan \subseteq me[c].plan
      BY <1>2, EndReleaseRests
    <2>2. AloneOK(new, job, runs)
      BY <1>1, <2>1, AloneFacts, AloneRests
    <2>. QED  BY <1>1, <2>1, <2>2, AloneLocal
  <1>. QED  BY <1>1, <1>2, QuitAlone

\* What the caller does after a release keeps the invariant.
LEMMA ReturnAlone ==
  ASSUME RootInv, AloneInv, NEW c \in Callers, Return(c)
  PROVE  AloneInv'
  <1>. DEFINE j == me[c].target
              fan == On(c, "collect")
              redo == [On(c, "resubmit") EXCEPT !.target = <<>>, !.deps = @ \cup RunsOf(job, {j})]
              end == [On(c, "cancel") EXCEPT !.rec = job[j]]
  <1>1. /\ me[c].pc = "return" /\ UNCHANGED <<job, runs>>
        /\ Go(c, Listing) \/ Go(c, fan) \/ Go(c, redo) \/ Go(c, end)
    BY DEF Return, At, StoreUnchanged
  <1>2. me[c] \in Call /\ AloneOK(me[c], job, runs)
    BY <1>1, CallFacts, AloneFacts
  <1>3. CASE Go(c, Listing)
    <2>1. Listing.pc = "refresh" /\ Listing.snap = job /\ Listing.plan = {}
      BY DEF Listing, Idle
    <2>2. AloneOK(Listing, job, runs)
      BY <2>1 DEF AloneOK
    <2>. QED  BY <1>1, <1>3, <2>2, AloneLocal
  <1>4. CASE Go(c, fan)
    <2>1. fan.pc = "collect" /\ fan.plan = me[c].plan
      BY <1>2 DEF On, Call
    <2>. HIDE DEF fan
    <2>2. AloneOK(fan, job, runs)
      BY <1>1, <1>2, <2>1, AloneRests
    <2>. QED  BY <1>1, <1>4, <2>2, AloneLocal
  <1>5. CASE Go(c, redo)
    <2>1. redo.pc = "resubmit" /\ redo.plan = me[c].plan
      BY <1>2 DEF On, Call
    <2>. HIDE DEF redo
    <2>2. AloneOK(redo, job, runs)
      BY <1>1, <1>2, <2>1, AloneRests
    <2>. QED  BY <1>1, <1>5, <2>2, AloneLocal
  <1>6. CASE Go(c, end)
    <2>1. end.pc = "cancel" /\ end.plan = me[c].plan /\ end.target = j /\ end.rec = job[j]
      BY <1>2 DEF On, Call
    <2>. HIDE DEF end
    <2>2. AloneOK(end, job, runs)
      BY <1>1, <1>2, <2>1 DEF AloneOK
    <2>. QED  BY <1>1, <1>6, <2>2, AloneLocal
  <1>. QED  BY <1>1, <1>3, <1>4, <1>5, <1>6

-----------------------------------------------------------------------------
(* The calls. *)

\* A call that begins while no other is under way keeps the invariant.
LEMMA BeginAlone ==
  ASSUME RootInv, AloneInv, NEW c \in Callers, NEW op, NEW local, Begin(c, op, local), ~overlap',
         NEW new, new = [local EXCEPT !.op = op], AloneOK(new, job, runs)
  PROVE  AloneInv'
  <1>1. /\ Go(c, new) /\ UNCHANGED <<job, runs>> /\ me[c].pc = "idle"
        /\ overlap' = (overlap \/ \E d \in Callers \ {c} : ~At(d, "idle"))
    BY DEF Begin, At
  <1>2. \A d \in Callers \ {c} : me[d].pc = "idle"
    BY <1>1 DEF At
  <1>3. \A d \in Callers, r \in RunIds : ~Holds(me[d], r)
    BY <1>1, <1>2 DEF Holds
  <1>4. /\ RunsFit(job', runs') /\ AloneOK(new, job', runs')
        /\ \A r \in RunIds : runs'[r].state # "none" => job'[r[1]].run = r \/ Holds(new, r)
    <2>1. job' = job /\ runs' = runs
      BY <1>1
    <2>. QED  BY <1>3, <2>1 DEF AloneInv
  <1>. QED  BY <1>1, <1>2, <1>4, AloneMoves

\* A lookup keeps the invariant.
LEMMA StatusAlone ==
  ASSUME RootInv, AloneInv, NEW c \in Callers, Status(c), ~overlap'
  PROVE  AloneInv'
  <1>. DEFINE new == [Listing EXCEPT !.op = "status"]
  <1>1. Begin(c, "status", Listing)
    BY DEF Status
  <1>2. new.pc = "refresh" /\ new.snap = job /\ new.plan = {}
    BY DEF Listing, Idle
  <1>3. AloneOK(new, job, runs)
    BY <1>2 DEF AloneOK
  <1>. QED  BY <1>1, <1>3, BeginAlone

\* So do a forced release and a cancellation, which list the jobs first.
LEMMA ReleaseAlone ==
  ASSUME RootInv, AloneInv, NEW c \in Callers, Release(c) \/ Cancel(c), ~overlap'
  PROVE  AloneInv'
  <1>1. PICK op, local : /\ Begin(c, op, local)
                         /\ LET new == [local EXCEPT !.op = op]
                            IN  new.pc = "list" /\ new.plan = {}
    <2>1. CASE Release(c)
      <3>1. PICK n \in 1 .. MaxForced : Begin(c, "release", [Idle EXCEPT !.pc = "list", !.force = n])
        BY <2>1 DEF Release
      <3>. DEFINE local == [Idle EXCEPT !.pc = "list", !.force = n]
                  new   == [local EXCEPT !.op = "release"]
      <3>2. new.pc = "list" /\ new.plan = {}
        BY DEF Idle
      <3>. QED  BY <3>1, <3>2
    <2>2. CASE Cancel(c)
      <3>1. PICK j \in Stored(job) : Begin(c, "cancel", [Idle EXCEPT !.pc = "list", !.target = j])
        BY <2>2 DEF Cancel
      <3>. DEFINE local == [Idle EXCEPT !.pc = "list", !.target = j]
                  new   == [local EXCEPT !.op = "cancel"]
      <3>2. new.pc = "list" /\ new.plan = {}
        BY DEF Idle
      <3>. QED  BY <3>1, <3>2
    <2>. QED  BY <2>1, <2>2
  <1>. DEFINE new == [local EXCEPT !.op = op]
  <1>2. new.pc = "list" /\ new.plan = {} /\ Begin(c, op, local)
    BY <1>1
  <1>3. new = [local EXCEPT !.op = op]
    OBVIOUS
  <1>. HIDE DEF new
  <1>4. AloneOK(new, job, runs)
    BY <1>2 DEF AloneOK
  <1>. QED  BY <1>2, <1>3, <1>4, BeginAlone

\* If the attempt that counts is over, every attempt is.
LEMMA EffectiveIsOver ==
  ASSUME NEW jobs \in Listings, NEW key, \E j \in Stored(jobs) : j[1] = key,
         jobs[Effective(jobs, key)].state \in Terminal
  PROVE  OverFor(jobs, key)
  <1>. DEFINE all == {j \in Stored(jobs) : j[1] = key}
              open == {j \in all : jobs[j].state \notin Terminal}
              good == {j \in all : jobs[j].state = "succeeded"}
  <1>1. Effective(jobs, key) = Latest(IF open # {} THEN open ELSE IF good # {} THEN good ELSE all)
    BY DEF Effective
  <1>2. CASE open # {}
    <2>1. open \in SUBSET JobIds
      BY ChildrenOfShards
    <2>2. Latest(open) \in open
      BY <1>2, <2>1, LatestType
    <2>3. Effective(jobs, key) = Latest(open)
      BY <1>1, <1>2
    <2>. QED  BY <2>2, <2>3
  <1>3. CASE open = {}
    BY <1>3 DEF OverFor
  <1>. QED  BY <1>2, <1>3

\* Asking for a retry keeps the invariant: the attempts it plans to repeat are
\* over, and one for each shard.
LEMMA RetryAlone ==
  ASSUME RootInv, AloneInv, NEW c \in Callers, Retry(c), ~overlap'
  PROVE  AloneInv'
  <1>1. PICK includeCancelled \in BOOLEAN, resubmitReducer \in BOOLEAN :
         LET kids == EffectiveChildren(job)
             plan == {j \in kids : ShouldRetry(job[j], includeCancelled)}
         IN  Begin(c, "retry", [Idle EXCEPT !.pc = "resubmit", !.plan = plan,
                         !.covers = {j[1] : j \in kids},
                         !.deps = RunsOf(job, kids \ plan),
                         !.redo = /\ resubmitReducer
                                  /\ \E j \in Stored(job) : j[1] = "reduce"])
    BY DEF Retry
  <1>. DEFINE kids   == EffectiveChildren(job)
              plan   == {j \in kids : ShouldRetry(job[j], includeCancelled)}
              covers == {j[1] : j \in kids}
              deps   == RunsOf(job, kids \ plan)
              redo   == resubmitReducer /\ \E j \in Stored(job) : j[1] = "reduce"
              local  == [Idle EXCEPT !.pc = "resubmit", !.plan = plan, !.covers = covers,
                          !.deps = deps, !.redo = redo]
              new    == [local EXCEPT !.op = "retry"]
  <1>2. job \in Listings
    BY CallFacts
  <1>3. \A j \in kids : j = Effective(job, j[1]) /\ \E i \in Stored(job) : i[1] = j[1]
    <2>. SUFFICES ASSUME NEW i \in Children(job)
                  PROVE  LET j == Effective(job, i[1]) IN
                         j = Effective(job, j[1]) /\ \E k \in Stored(job) : k[1] = j[1]
      BY DEF EffectiveChildren
    <2>1. i \in Stored(job)
      BY ChildrenOfShards
    <2>2. Effective(job, i[1])[1] = i[1]
      BY <1>2, <2>1, EffectiveType
    <2>. QED  BY <2>1, <2>2
  <1>4. \A j \in plan : OverFor(job, j[1])
    <2>. SUFFICES ASSUME NEW j \in plan PROVE OverFor(job, j[1])
      OBVIOUS
    <2>1. job[j].state \in Terminal
      BY DEF ShouldRetry, Terminal
    <2>2. j = Effective(job, j[1]) /\ \E i \in Stored(job) : i[1] = j[1]
      BY <1>3
    <2>. HIDE DEF plan
    <2>. QED  BY <1>2, <2>1, <2>2, EffectiveIsOver
  <1>5. \A i, j \in plan : i[1] = j[1] => i = j
    BY <1>3
  <1>6. Begin(c, "retry", local) /\ new = [local EXCEPT !.op = "retry"]
    BY <1>1
  <1>. HIDE DEF kids, plan, covers, deps, redo
  <1>7. new.pc = "resubmit" /\ new.plan = plan
    BY DEF Idle
  <1>. HIDE DEF new, local
  <1>8. AloneOK(new, job, runs)
    BY <1>4, <1>5, <1>7 DEF AloneOK
  <1>. QED  BY <1>6, <1>8, BeginAlone

\* The fan-out begins on an empty root, and keeps the invariant.
LEMMA FanOutAlone ==
  ASSUME RootInv, AloneInv, NEW c \in Callers, FanOut(c), ~overlap'
  PROVE  AloneInv'
  <1>. DEFINE pc    == IF FirstJobs = {} THEN "check" ELSE "store"
              local == [Idle EXCEPT !.todo = FirstJobs, !.covers = Shards, !.pc = pc]
              new   == [local EXCEPT !.op = "fanout"]
  <1>1. ~fanned /\ Begin(c, "fanout", local)
    BY DEF FanOut, FirstJobs
  <1>2. Stored(job) = {}
    BY <1>1 DEF RootInv, OneFanOut
  <1>3. pc \in {"check", "store"}
    OBVIOUS
  <1>. HIDE DEF pc
  <1>4. new.pc = pc /\ new.plan = {} /\ new = [local EXCEPT !.op = "fanout"]
    BY DEF Idle
  <1>. HIDE DEF new, local
  <1>5. AloneOK(new, job, runs)
    BY <1>2, <1>3, <1>4 DEF AloneOK
  <1>. QED  BY <1>1, <1>4, <1>5, BeginAlone

\* Storing a child keeps the invariant: it is the only attempt of its shard.
LEMMA StoreChildAlone ==
  ASSUME RootInv, AloneInv, NEW c \in Callers, StoreChild(c)
  PROVE  AloneInv'
  <1>1. PICK j \in me[c].todo :
         /\ me[c].pc = "store" /\ UNCHANGED runs
         /\ job' = [job EXCEPT ![j] = Job("dispatching", NoRunId, FALSE, FALSE)]
         /\ Go(c, [On(c, IF me[c].todo = {j} THEN "list" ELSE "store")
                     EXCEPT !.todo = @ \ {j}])
    BY DEF StoreChild, At, OnlyStore
  <1>. DEFINE rec  == Job("dispatching", NoRunId, FALSE, FALSE)
              pc   == IF me[c].todo = {j} THEN "list" ELSE "store"
              rest == me[c].todo \ {j}
              new  == [On(c, pc) EXCEPT !.todo = rest]
  <1>2. /\ me[c] \in Call /\ StoringOK(me[c], job) /\ AloneOK(me[c], job, runs)
        /\ RunsFit(job, runs) /\ job \in Listings
    BY <1>1, CallFacts, AloneFacts
  <1>3. j \in FirstJobs /\ j \notin Stored(job) /\ j \in JobIds
    BY <1>1, <1>2 DEF StoringOK, Call
  <1>4. Stored(job) \subseteq FirstJobs /\ me[c].plan = {}
    BY <1>1, <1>2 DEF AloneOK
  <1>5. rec.state = "dispatching" /\ rec.run = NoRunId
    BY DEF Job
  <1>6. Go(c, new) /\ job' = [job EXCEPT ![j] = rec]
    BY <1>1, <1>2 DEF On, Call
  <1>. HIDE DEF rec
  <1>7. pc \in {"list", "store"}
    OBVIOUS
  <1>. HIDE DEF rest, pc
  <1>8. new.pc = pc /\ new.plan = {}
    BY <1>2, <1>4 DEF On, Call
  <1>. HIDE DEF new
  <1>9. Stored(job') = Stored(job) \cup {j}
    BY <1>2, <1>3, <1>5, <1>6 DEF Stored, Listings
  <1>10. AloneOK(new, job', runs)
    BY <1>3, <1>4, <1>7, <1>8, <1>9 DEF AloneOK
  <1>11. MayStore(rec, j)
    <2>1. \A i \in Stored(job) \ {j} : i[1] # j[1]
      BY <1>3, <1>4 DEF FirstJobs
    <2>2. job[j].run = NoRunId
      BY <1>2, <1>3 DEF RunsFit, Stored
    <2>. QED  BY <1>5, <2>1, <2>2 DEF MayStore, IsLive, Terminal
  <1>12. /\ \A r \in RunIds : Holds(me[c], r) => (rec.run = r /\ r[1] = j) \/ Holds(new, r)
         /\ me[c].pc # "idle" /\ UNCHANGED runs
    BY <1>1 DEF Holds
  <1>. QED  BY <1>3, <1>6, <1>10, <1>11, <1>12, AloneWrites

\* Looking at the children again keeps the invariant.
LEMMA CollectAlone ==
  ASSUME RootInv, AloneInv, NEW c \in Callers, CollectRuns(c) \/ CheckChildren(c)
  PROVE  AloneInv'
  <1>1. /\ me[c].pc \in {"collect", "check"} /\ UNCHANGED <<job, runs>>
        /\ me[c] \in Call /\ AloneOK(me[c], job, runs)
    <2>1. me[c].pc \in {"collect", "check"} /\ UNCHANGED <<job, runs>>
      BY DEF CollectRuns, CheckChildren, At, StoreUnchanged
    <2>. QED  BY <2>1, CallFacts, AloneFacts
  <1>2. PICK new : /\ Go(c, new) /\ new.pc \in {"check", "defer", "direct"}
                   /\ new.plan \subseteq me[c].plan
    <2>1. CASE CollectRuns(c)
      <3>. DEFINE deps == RunsOf(job, {<<s, 1>> : s \in Shards \ Cached})
                  new  == [On(c, "check") EXCEPT !.deps = deps]
      <3>1. Go(c, new)
        BY <2>1 DEF CollectRuns
      <3>. HIDE DEF deps
      <3>2. new.pc = "check" /\ new.plan = me[c].plan
        BY <1>1 DEF On, Call
      <3>. QED  BY <3>1, <3>2
    <2>2. CASE CheckChildren(c)
      <3>. DEFINE pc  == IF \E s \in Shards \ Cached : IsPending(job[<<s, 1>>])
                         THEN "defer" ELSE "direct"
                  new == On(c, pc)
      <3>1. Go(c, new) /\ pc \in {"defer", "direct"}
        BY <2>2 DEF CheckChildren
      <3>. HIDE DEF pc
      <3>2. new.pc = pc /\ new.plan = me[c].plan
        BY <1>1 DEF On, Call
      <3>. QED  BY <3>1, <3>2
    <2>. QED  BY <2>1, <2>2
  <1>3. AloneOK(new, job, runs)
    BY <1>1, <1>2, AloneRests
  <1>. QED  BY <1>1, <1>2, <1>3, AloneLocal

\* A new job is not stored yet.
LEMMA NewJobIsFree ==
  ASSUME RootInv, NEW key, NewJob(key) \in JobIds
  PROVE  NewJob(key) \notin Stored(job) /\ NewJob(key)[1] = key
  <1>. DEFINE n == NewJob(key)
  <1>1. n[1] = key /\ \A i \in Stored(job) : i[1] = key => i[2] < n[2]
    BY NewJobIsNew
  <1>2. n[2] \in Nat
    BY IdParts, DispatchAssumption
  <1>. HIDE DEF n
  <1>3. n \notin Stored(job)
    BY <1>1, <1>2
  <1>. QED  BY <1>1, <1>3 DEF n

\* Storing the deferred reducer keeps the invariant.
LEMMA DeferReducerAlone ==
  ASSUME RootInv, AloneInv, NEW c \in Callers, DeferReducer(c)
  PROVE  AloneInv'
  <1>. DEFINE j   == NewJob("reduce")
              rec == Job("dispatching", NoRunId, FALSE, FALSE)
  <1>1. /\ me[c].pc = "defer" /\ j \in JobIds /\ Go(c, Idle) /\ UNCHANGED runs
        /\ job' = [job EXCEPT ![j] = rec]
    BY DEF DeferReducer, At, OnlyStore, Quit
  <1>2. j \notin Stored(job) /\ j[1] = "reduce"
    BY <1>1, NewJobIsFree
  <1>3. rec.state = "dispatching" /\ rec.run = NoRunId
    BY DEF Job
  <1>. HIDE DEF j, rec
  <1>4. job[j].run = NoRunId
    BY <1>1, <1>2 DEF AloneInv, RunsFit, Stored
  <1>5. MayStore(rec, j)
    BY <1>2, <1>3, <1>4 DEF MayStore, Terminal
  <1>6. AloneOK(Idle, job', runs)
    BY IdleType DEF AloneOK
  <1>7. /\ \A r \in RunIds : Holds(me[c], r) => (rec.run = r /\ r[1] = j) \/ Holds(Idle, r)
        /\ me[c].pc # "idle"
    BY <1>1 DEF Holds
  <1>. QED  BY <1>1, <1>5, <1>6, <1>7, AloneWrites

\* Submitting a reducer directly keeps the invariant: the call holds its run.
LEMMA SubmitDirectAlone ==
  ASSUME RootInv, AloneInv, NEW c \in Callers, SubmitDirect(c)
  PROVE  AloneInv'
  <1>. DEFINE j   == NewJob("reduce")
              run == Run("live", me[c].deps, me[c].covers, me[c].op)
              rec == Job("active", NextRun(j), FALSE, FALSE)
              new == [On(c, "create") EXCEPT !.target = j, !.rec = rec]
  <1>1. /\ me[c].pc = "direct" /\ j \in JobIds /\ UNCHANGED job
        /\ Accept({j}, run) /\ Go(c, new)
    BY DEF SubmitDirect, At, StoreUnchanged
  <1>2. me[c] \in Call /\ AloneOK(me[c], job, runs)
    BY <1>1, CallFacts, AloneFacts
  <1>3. run \in RunRecord /\ run.state = "live"
    <2>1. /\ me[c].deps \in SUBSET RunIds /\ me[c].covers \in SUBSET Shards
          /\ me[c].op \in OpNames
      BY <1>2 DEF Call
    <2>. QED  BY <2>1, RunType
  <1>4. j \notin Stored(job) /\ j[1] = "reduce"
    BY <1>1, NewJobIsFree
  <1>5. NextRun(j)[1] = j
    BY DEF NextRun
  <1>. HIDE DEF run, j
  <1>6. NextRun(j) \in RunIds
    BY <1>1, <1>3, AcceptGrows
  <1>. HIDE DEF NextRun
  <1>7. rec.run = NextRun(j)
    BY DEF Job
  <1>. HIDE DEF rec
  <1>8. new.pc = "create" /\ new.target = j /\ new.plan = me[c].plan /\ new.rec = rec
    BY <1>2 DEF On, Call
  <1>. HIDE DEF new
  <1>9. AloneOK(new, job, runs')
    BY <1>1, <1>2, <1>4, <1>5, <1>6, <1>7, <1>8 DEF AloneOK
  <1>10. job[j].run = NoRunId
    BY <1>1, <1>4 DEF AloneInv, RunsFit, Stored
  <1>11. \A i \in {j} : job[i].run = NoRunId /\ Holds(new, NextRun(i))
    BY <1>7, <1>8, <1>10 DEF Holds
  <1>12. {j} \in SUBSET JobIds /\ run.state # "none"
    BY <1>1, <1>3
  <1>. QED  BY <1>1, <1>3, <1>9, <1>11, <1>12, AloneSubmits

\* A submission that fails keeps the invariant.
LEMMA DirectFailsAlone ==
  ASSUME RootInv, AloneInv, NEW c \in Callers, DirectFails(c)
  PROVE  AloneInv'
  BY QuitAlone DEF DirectFails, StoreUnchanged

\* Resubmitting a shard keeps the invariant: no attempt of it is under way.
LEMMA ResubmitAlone ==
  ASSUME RootInv, AloneInv, NEW c \in Callers, Resubmit(c)
  PROVE  AloneInv'
  <1>1. PICK j \in me[c].plan :
         /\ me[c].pc = "resubmit" /\ UNCHANGED job
         /\ \/ Go(c, [me[c] EXCEPT !.plan = @ \ {j}]) /\ UNCHANGED runs
            \/ /\ NewJob(j[1]) \in JobIds
               /\ Accept({NewJob(j[1])}, Run("live", {}, {j[1]}, "retry"))
               /\ Go(c, [[me[c] EXCEPT !.plan = @ \ {j}] EXCEPT !.pc = "create",
                           !.target = NewJob(j[1]),
                           !.rec = Job("active", NextRun(NewJob(j[1])), job[j].forced, TRUE)])
    BY DEF Resubmit, At, StoreUnchanged
  <1>. DEFINE plan == me[c].plan \ {j}
              rest == [me[c] EXCEPT !.plan = plan]
              id   == NewJob(j[1])
              run  == Run("live", {}, {j[1]}, "retry")
              rec  == Job("active", NextRun(id), job[j].forced, TRUE)
              next == [rest EXCEPT !.pc = "create", !.target = id, !.rec = rec]
  <1>2. me[c] \in Call /\ CallOK(me[c], job, runs) /\ AloneOK(me[c], job, runs)
    BY <1>1, CallFacts, AloneFacts
  <1>3. /\ \A i \in me[c].plan : OverFor(job, i[1])
        /\ \A i, k \in me[c].plan : i[1] = k[1] => i = k
    BY <1>1, <1>2 DEF AloneOK
  <1>4. j[1] \in Shards /\ plan \subseteq me[c].plan /\ \A i \in plan : i[1] # j[1]
    BY <1>2, <1>3, ChildrenOfShards DEF CallOK
  <1>. HIDE DEF plan
  <1>5. rest.pc = "resubmit" /\ rest.plan = plan
    BY <1>1, <1>2 DEF Call
  <1>6. CASE Go(c, rest) /\ UNCHANGED runs
    <2>. HIDE DEF rest
    <2>1. AloneOK(rest, job, runs)
      BY <1>1, <1>2, <1>4, <1>5, AloneRests
    <2>. QED  BY <1>1, <1>6, <2>1, AloneLocal
  <1>7. CASE id \in JobIds /\ Accept({id}, run) /\ Go(c, next)
    <2>1. id \notin Stored(job) /\ id[1] = j[1]
      BY <1>7, NewJobIsFree
    <2>2. NextRun(id)[1] = id
      BY DEF NextRun
    <2>3. run \in RunRecord /\ run.state = "live"
      BY <1>4, RunType DEF OpNames
    <2>. HIDE DEF id, run
    <2>4. NextRun(id) \in RunIds
      BY <1>7, <2>3, AcceptGrows
    <2>. HIDE DEF NextRun
    <2>5. rec.run = NextRun(id)
      BY DEF Job
    <2>. HIDE DEF rec
    <2>6. next.pc = "create" /\ next.plan = plan /\ next.target = id /\ next.rec = rec
      BY <1>2 DEF Call
    <2>. HIDE DEF next
    <2>7. AloneOK(next, job, runs')
      BY <1>3, <1>4, <2>1, <2>2, <2>4, <2>5, <2>6 DEF AloneOK
    <2>8. job[id].run = NoRunId
      BY <1>7, <2>1 DEF AloneInv, RunsFit, Stored
    <2>9. \A i \in {id} : job[i].run = NoRunId /\ Holds(next, NextRun(i))
      BY <2>5, <2>6, <2>8 DEF Holds
    <2>10. {id} \in SUBSET JobIds /\ run.state # "none"
      BY <1>7, <2>3
    <2>. QED  BY <1>1, <1>7, <2>3, <2>7, <2>9, <2>10, AloneSubmits
  <1>8. \/ Go(c, rest) /\ UNCHANGED runs
        \/ id \in JobIds /\ Accept({id}, run) /\ Go(c, next)
    BY <1>1 DEF plan
  <1>. QED  BY <1>6, <1>7, <1>8

\* Storing the job of a submission keeps the invariant.
LEMMA CreateJobAlone ==
  ASSUME RootInv, AloneInv, NEW c \in Callers, CreateJob(c)
  PROVE  AloneInv'
  <1>. DEFINE j   == me[c].target
              rec == me[c].rec
              next == [On(c, "list") EXCEPT !.rec = NoJob]
              new  == IF j[1] = "reduce" THEN Idle ELSE next
  <1>1. /\ me[c].pc = "create" /\ UNCHANGED runs /\ job' = [job EXCEPT ![j] = rec]
        /\ Go(c, new)
    BY DEF CreateJob, At, Quit, OnlyStore
  <1>2. /\ me[c] \in Call /\ CallOK(me[c], job, runs) /\ AloneOK(me[c], job, runs)
        /\ RunsFit(job, runs)
    BY <1>1, CallFacts, AloneFacts
  <1>3. /\ rec.state = "active" /\ j \in JobIds /\ j \notin Stored(job)
        /\ rec.run \in RunIds /\ rec.run[1] = j
        /\ j[1] # "reduce" => OverFor(job, j[1]) /\ \A i \in me[c].plan : i[1] # j[1]
    BY <1>1, <1>2 DEF CallOK, AloneOK
  <1>4. job[j].run = NoRunId
    BY <1>2, <1>3 DEF RunsFit, Stored
  <1>5. \A r \in RunIds : Holds(me[c], r) => rec.run = r /\ r[1] = j
    BY <1>1, <1>3 DEF Holds
  <1>6. MayStore(rec, j)
    BY <1>3, <1>4 DEF MayStore, Terminal, OverFor
  <1>7. next.pc = "list" /\ next.plan = me[c].plan
    BY <1>2 DEF On, Call
  <1>. HIDE DEF rec, j, next
  <1>8. AloneOK(new, job', runs)
    <2>1. CASE j[1] = "reduce"
      BY <2>1, IdleType DEF AloneOK
    <2>2. CASE j[1] # "reduce"
      <3>1. \A i \in me[c].plan : OverFor(job', i[1])
        BY <1>1, <1>2, <1>3, <2>2, PlanStays
      <3>2. \A i, k \in me[c].plan : i[1] = k[1] => i = k
        BY <1>1, <1>2 DEF AloneOK
      <3>. QED  BY <1>7, <2>2, <3>1, <3>2 DEF AloneOK
    <2>. QED  BY <2>1, <2>2
  <1>. HIDE DEF new
  <1>9. \A r \in RunIds : Holds(me[c], r) => (rec.run = r /\ r[1] = j) \/ Holds(new, r)
    BY <1>5
  <1>10. /\ me[c].pc # "idle" /\ job' = [job EXCEPT ![j] = rec] /\ Go(c, new) /\ UNCHANGED runs
         /\ j \in JobIds
    BY <1>1, <1>3
  <1>. QED  BY <1>6, <1>8, <1>9, <1>10, AloneWrites

\* The end of a retry keeps the invariant.
LEMMA EndRetryAlone ==
  ASSUME RootInv, AloneInv, NEW c \in Callers, EndRetry(c)
  PROVE  AloneInv'
  <1>. DEFINE new == On(c, "direct")
  <1>1. /\ me[c].pc = "resubmit" /\ UNCHANGED <<job, runs>> /\ (Go(c, new) \/ Quit(c))
    BY DEF EndRetry, At, StoreUnchanged
  <1>2. me[c] \in Call /\ AloneOK(me[c], job, runs)
    BY <1>1, CallFacts, AloneFacts
  <1>3. CASE Go(c, new)
    <2>1. new.pc = "direct" /\ new.plan = me[c].plan
      BY <1>2 DEF On, Call
    <2>. HIDE DEF new
    <2>2. AloneOK(new, job, runs)
      BY <1>1, <1>2, <2>1, AloneRests
    <2>. QED  BY <1>1, <1>3, <2>2, AloneLocal
  <1>. QED  BY <1>1, <1>3, QuitAlone

-----------------------------------------------------------------------------
(* Runs that end. *)

\* The end of a run leaves fewer of them under way, and none unknown.
LEMMA RunsCalm ==
  ASSUME RootInv, NEW r \in RunIds, NEW state \in Terminal, runs[r].state # "none",
         runs' = [runs EXCEPT ![r].state = state]
  PROVE  /\ \A run : IsLive(run, runs') => IsLive(run, runs)
         /\ \A q \in RunIds : runs'[q].state # "none" => runs[q].state # "none"
         /\ ~IsLive(r, runs')
  <1>1. runs \in [RunIds -> RunRecord]
    BY DEF RootInv
  <1>2. runs'[r].state = state /\ \A q \in RunIds \ {r} : runs'[q] = runs[q]
    BY <1>1 DEF RunRecord
  <1>. QED  BY <1>2 DEF IsLive, Terminal

\* So the runs of the store fit still.
LEMMA RunsFitCalm ==
  ASSUME NEW jobs, NEW rs, NEW rt, RunsFit(jobs, rs),
         \A run : IsLive(run, rt) => IsLive(run, rs)
  PROVE  RunsFit(jobs, rt)
  BY DEF RunsFit

\* Cancelling the run keeps the invariant.
LEMMA CancelRunAlone ==
  ASSUME RootInv, AloneInv, NEW c \in Callers, CancelRun(c)
  PROVE  AloneInv'
  <1>. DEFINE run == me[c].rec.run
              new == On(c, "cancelled")
  <1>1. /\ me[c].pc = "cancel" /\ UNCHANGED job
        /\ \/ Quit(c) /\ UNCHANGED runs
           \/ /\ Go(c, new)
              /\ \/ runs' = runs /\ (run = NoRunId \/ runs[run].state # "live")
                 \/ /\ run # NoRunId /\ runs[run].state = "live"
                    /\ runs' = [runs EXCEPT ![run].state = "cancelled"]
    BY DEF CancelRun, At, StoreUnchanged
  <1>2. CASE Quit(c) /\ UNCHANGED runs
    BY <1>1, <1>2, QuitAlone
  <1>3. CASE /\ Go(c, new)
             /\ \/ runs' = runs /\ (run = NoRunId \/ runs[run].state # "live")
                \/ /\ run # NoRunId /\ runs[run].state = "live"
                   /\ runs' = [runs EXCEPT ![run].state = "cancelled"]
    <2>1. me[c] \in Call /\ CallOK(me[c], job, runs) /\ AloneOK(me[c], job, runs)
      BY <1>1, CallFacts, AloneFacts
    <2>2. new.pc = "cancelled" /\ new.plan = me[c].plan /\ new.target = me[c].target
          /\ new.rec = me[c].rec
      BY <2>1 DEF On, Call
    <2>. HIDE DEF new
    <2>3. run = NoRunId \/ run \in RunIds
      BY <1>1, <2>1 DEF CallOK, Accepted
    <2>4. /\ \A q : IsLive(q, runs') => IsLive(q, runs)
          /\ \A q \in RunIds : runs'[q].state # "none" => runs[q].state # "none"
          /\ ~IsLive(run, runs')
      <3>1. CASE runs' = runs /\ (run = NoRunId \/ runs[run].state # "live")
        BY <3>1, NoRunIdIsNoRun DEF IsLive
      <3>2. CASE /\ run # NoRunId /\ runs[run].state = "live"
                 /\ runs' = [runs EXCEPT ![run].state = "cancelled"]
        <4>1. run \in RunIds /\ "cancelled" \in Terminal
          BY <2>3, <3>2 DEF Terminal
        <4>. HIDE DEF run
        <4>. QED  BY <3>2, <4>1, RunsCalm
      <3>. QED  BY <1>3, <3>1, <3>2
    <2>5. AloneOK(me[c], job, runs')
      BY <2>1, <2>4, AloneCalms
    <2>6. AloneOK(new, job, runs')
      BY <1>1, <2>2, <2>4, <2>5 DEF AloneOK
    <2>7. RunsFit(job, runs')
      BY <2>4, RunsFitCalm DEF AloneInv
    <2>8. \A q \in RunIds : runs'[q].state # "none" => job[q[1]].run = q \/ Holds(new, q)
      <3>1. \A q \in RunIds : ~Holds(me[c], q)
        BY <1>1 DEF Holds
      <3>2. me[c].pc # "idle"
        BY <1>1
      <3>. QED  BY <2>4, <3>1, <3>2, AloneFacts
    <2>9. job' = job /\ \A d \in Callers \ {c} : me[d].pc = "idle"
      BY <1>1, AloneFacts
    <2>. QED  BY <1>3, <2>6, <2>7, <2>8, <2>9, AloneMoves
  <1>. QED  BY <1>1, <1>2, <1>3

\* Storing the cancellation keeps the invariant: the run is over.
LEMMA RecordCancelledAlone ==
  ASSUME RootInv, AloneInv, NEW c \in Callers, RecordCancelled(c)
  PROVE  AloneInv'
  <1>. DEFINE j   == me[c].target
              rec == [me[c].rec EXCEPT !.state = "cancelled"]
  <1>1. /\ me[c].pc = "cancelled" /\ UNCHANGED runs /\ Go(c, Idle)
        /\ job' = [job EXCEPT ![j] = rec]
    BY DEF RecordCancelled, At, Quit, OnlyStore
  <1>2. /\ me[c] \in Call /\ CallOK(me[c], job, runs) /\ AloneOK(me[c], job, runs)
        /\ RunsFit(job, runs)
    BY <1>1, CallFacts, AloneFacts
  <1>3. /\ me[c].rec \in JobRecord /\ j \in JobIds
        /\ me[c].rec.run = job[j].run /\ ~IsLive(job[j].run, runs)
    BY <1>1, <1>2, ChildrenOfShards DEF CallOK, Call, AloneOK
  <1>4. rec.state = "cancelled" /\ rec.run = job[j].run
    BY <1>3 DEF JobRecord
  <1>. HIDE DEF j, rec
  <1>5. MayStore(rec, j)
    BY <1>2, <1>3, <1>4 DEF MayStore, RunsFit, Terminal
  <1>6. AloneOK(Idle, job', runs)
    BY IdleType DEF AloneOK
  <1>7. /\ \A r \in RunIds : Holds(me[c], r) => (rec.run = r /\ r[1] = j) \/ Holds(Idle, r)
        /\ me[c].pc # "idle"
    BY <1>1 DEF Holds
  <1>. QED  BY <1>1, <1>3, <1>5, <1>6, <1>7, AloneWrites

\* The end of a run keeps the invariant.
LEMMA RunEndsAlone ==
  ASSUME RootInv, AloneInv, NEW r \in RunIds, RunEnds(r)
  PROVE  AloneInv'
  <1>1. PICK state \in Outcomes[r[1][1]] :
          /\ runs[r].state = "live" /\ runs' = [runs EXCEPT ![r].state = state]
          /\ UNCHANGED <<job, me>>
    BY DEF RunEnds
  <1>2. state \in Terminal
    BY IdParts, DispatchAssumption DEF Keys, Terminal
  <1>3. /\ \A run : IsLive(run, runs') => IsLive(run, runs)
        /\ \A q \in RunIds : runs'[q].state # "none" => runs[q].state # "none"
    BY <1>1, <1>2, RunsCalm
  <1>4. \A c \in Callers : AloneOK(me[c], job, runs')
    BY <1>3, AloneCalms DEF AloneInv
  <1>5. RunsFit(job, runs')
    BY <1>3, RunsFitCalm DEF AloneInv
  <1>6. job' = job /\ me' = me
    BY <1>1
  <1>. QED  BY <1>3, <1>4, <1>5, <1>6 DEF AloneInv

-----------------------------------------------------------------------------
(* The invariant. *)

\* Every step of the one call keeps the invariant.
LEMMA CallAlone ==
  ASSUME RootInv, AloneInv, NEW c \in Callers, CallStep(c)
  PROVE  AloneInv'
  <1>1. CASE ReleaseStep(c)
    BY <1>1, ListJobsAlone, GetRunAlone, UpdateRefreshedAlone, ListAgainAlone,
       SubmitChunkAlone, RecordRunAlone, SubmitReducerAlone, RecordReducerAlone,
       NothingToSubmitAlone, ReturnAlone DEF ReleaseStep
  <1>. QED  BY <1>1, StoreChildAlone, CollectAlone, DeferReducerAlone, SubmitDirectAlone,
               ResubmitAlone, CreateJobAlone, EndRetryAlone, CancelRunAlone,
               RecordCancelledAlone DEF CallStep

\* A step never forgets that two calls met, or that a session died.
LEMMA HistoryStays ==
  ASSUME RootInv, [Next]_vars, ~overlap', crashes' = 0
  PROVE  ~overlap /\ crashes = 0
  <1>1. crashes \in Nat
    BY DispatchAssumption DEF RootInv, CountersOK
  <1>2. ASSUME NEW c \in Callers, Starts(c)
        PROVE  (overlap => overlap') /\ crashes' = crashes
    BY <1>2 DEF Starts, Status, Release, FanOut, Retry, Cancel, Begin
  <1>3. ASSUME NEW c \in Callers, ReleaseStep(c) PROVE UNCHANGED <<overlap, crashes>>
    BY <1>3 DEF ReleaseStep, ListJobs, GetRun, UpdateRefreshed, ListAgain, SubmitChunk, RecordRun,
                SubmitReducer, RecordReducer, NothingToSubmit, Return, StoreUnchanged, OnlyStore
  <1>4. ASSUME NEW c \in Callers, CallStep(c) PROVE UNCHANGED <<overlap, crashes>>
    BY <1>3, <1>4 DEF CallStep, StoreChild, CollectRuns, CheckChildren, DeferReducer,
                      SubmitDirect, Resubmit, CreateJob, EndRetry, CancelRun, RecordCancelled,
                      StoreUnchanged, OnlyStore
  <1>5. ASSUME NEW c \in Callers, Fails(c)
        PROVE  overlap' = overlap /\ crashes' \in {crashes, crashes + 1}
    BY <1>5 DEF Fails, GetRunFails, SubmitFails, DirectFails, Crash, StoreUnchanged
  <1>6. ASSUME NEW r \in RunIds, RunEnds(r) PROVE UNCHANGED <<overlap, crashes>>
    BY <1>6 DEF RunEnds
  <1>. QED  BY <1>1, <1>2, <1>4, <1>5, <1>6 DEF Next, vars

\* The empty root satisfies the invariant.
LEMMA SequentialInit == Init => SequentialInv
  <1>. SUFFICES ASSUME Init PROVE AloneInv
    BY DEF SequentialInv
  <1>1. \A c \in Callers : me[c] = Idle
    BY DEF Init
  <1>2. NoJob.run = NoRunId /\ NoJob.state = "none" /\ \A j \in JobIds : job[j] = NoJob
    BY DEF Init, NoJob, Job
  <1>3. Children(job) = {}
    BY <1>2 DEF Children, Stored
  <1>4. \A r \in RunIds : runs[r].state = "none"
    BY DEF Init, NoRun, Run
  <1>5. RunsFit(job, runs)
    BY <1>2, <1>3 DEF RunsFit, Terminal
  <1>6. \A c \in Callers : AloneOK(me[c], job, runs)
    BY <1>1, IdleType DEF AloneOK
  <1>. QED  BY <1>1, <1>4, <1>5, <1>6, IdleType DEF AloneInv

\* Every step keeps the invariant, while calls follow one another.
LEMMA SequentialNext == RootInv /\ SequentialInv /\ [Next]_vars => SequentialInv'
  <1>. SUFFICES ASSUME RootInv, SequentialInv, [Next]_vars, ~overlap', crashes' = 0
                PROVE  AloneInv'
    BY DEF SequentialInv
  <1>1. AloneInv
    BY HistoryStays DEF SequentialInv
  <1>2. ASSUME NEW c \in Callers, Starts(c) PROVE AloneInv'
    BY <1>1, <1>2, StatusAlone, ReleaseAlone, FanOutAlone, RetryAlone DEF Starts
  <1>3. ASSUME NEW c \in Callers, CallStep(c) PROVE AloneInv'
    BY <1>1, <1>3, CallAlone
  <1>4. ASSUME NEW c \in Callers, Fails(c) PROVE AloneInv'
    <2>1. ~Crash(c)
      <3>1. crashes = 0
        BY HistoryStays
      <3>. QED  BY <3>1 DEF Crash
    <2>. QED  BY <1>1, <1>4, <2>1, GetRunAlone, NothingToSubmitAlone, DirectFailsAlone DEF Fails
  <1>5. ASSUME NEW r \in RunIds, RunEnds(r) PROVE AloneInv'
    BY <1>1, <1>5, RunEndsAlone
  <1>6. ASSUME UNCHANGED vars PROVE AloneInv'
    <2>1. job' = job /\ runs' = runs /\ me' = me
      BY <1>6 DEF vars
    <2>. QED  BY <1>1, <2>1 DEF AloneInv
  <1>. QED  BY <1>2, <1>3, <1>4, <1>5, <1>6 DEF Next

\* The invariant of calls that follow one another.
THEOREM SequentialInvariant == Spec => [](RootInv /\ SequentialInv)
  BY RootInit, RootNext, SequentialInit, SequentialNext, PTL DEF Spec

\* RunsAreAccountedFor: while calls follow one another and none dies, each run
\* under way is the run of its job or about to be stored, and a shard has one.
THEOREM NoRunIsLost == Spec => []RunsAreAccountedFor
  <1>1. RootInv /\ SequentialInv => RunsAreAccountedFor
    <2>. SUFFICES ASSUME RootInv, AloneInv, NEW r \in LiveRuns
                  PROVE  /\ \/ job[r[1]].run = r
                            \/ \E c \in Callers : \/ <<r[1], r>> \in me[c].held
                                                  \/ me[c].rec.run = r
                         /\ r[1][1] \in Shards =>
                              \A q \in LiveRuns : q[1][1] = r[1][1] => q = r
      BY DEF SequentialInv, RunsAreAccountedFor
    <2>1. \A q \in LiveRuns : /\ q \in RunIds /\ q[1] \in JobIds /\ IsLive(q, runs)
                              /\ job[q[1]].run = q \/ \E c \in Callers : Holds(me[c], q)
      BY IdParts DEF AloneInv, LiveRuns, IsLive
    <2>2. \A c \in Callers, q \in RunIds : Holds(me[c], q) =>
            (<<q[1], q>> \in me[c].held \/ me[c].rec.run = q) /\ me[c].pc # "idle"
      BY DEF Holds
    <2>3. ASSUME NEW q \in LiveRuns, job[q[1]].run = q, q[1][1] \in Shards
          PROVE  q[1] \in Children(job) /\ job[q[1]].state \notin Terminal
      BY <2>1, <2>3, NoRunIdIsNoRun, DispatchAssumption
      DEF AloneInv, RunsFit, Children, Stored
    <2>4. ASSUME NEW p \in LiveRuns, NEW q \in LiveRuns, p[1][1] = q[1][1], p[1][1] \in Shards,
                 job[p[1]].run = p, job[q[1]].run = q
          PROVE  p = q
      <3>1. p[1] = q[1]
        BY <2>3, <2>4 DEF AloneInv, RunsFit
      <3>. QED  BY <2>4, <3>1
    <2>5. ASSUME NEW p \in LiveRuns, NEW q \in LiveRuns, p[1][1] = q[1][1], p[1][1] \in Shards,
                 job[p[1]].run = p, NEW c \in Callers, Holds(me[c], q)
          PROVE  FALSE
      <3>1. AloneOK(me[c], job, runs) /\ p[1] \in Children(job) /\ job[p[1]].state \notin Terminal
        BY <2>3, <2>5 DEF AloneInv
      <3>2. CASE me[c].pc = "record" /\ <<q[1], q>> \in me[c].held
        <4>1. q[1] \in Pending(job)
          BY <3>1, <3>2 DEF AloneOK
        <4>2. q[1] \in Children(job) /\ job[q[1]].state \notin Terminal /\ job[q[1]].run = NoRunId
          BY <4>1 DEF Pending, IsPending, Terminal
        <4>3. p[1] = q[1]
          BY <2>5, <3>1, <4>2 DEF AloneInv, RunsFit
        <4>. QED  BY <2>1, <2>5, <4>2, <4>3, NoRunIdIsNoRun
      <3>3. CASE me[c].pc = "recordReducer" /\ me[c].rec.run = q
        BY <2>5, <3>1, <3>3, DispatchAssumption DEF AloneOK
      <3>4. CASE me[c].pc = "create" /\ me[c].rec.run = q
        <4>1. OverFor(job, q[1][1])
          BY <2>5, <3>1, <3>4, DispatchAssumption DEF AloneOK
        <4>. QED  BY <2>5, <3>1, <4>1, ChildrenOfShards DEF OverFor
      <3>. QED  BY <2>5, <3>2, <3>3, <3>4 DEF Holds
    <2>6. ASSUME NEW p \in LiveRuns, NEW q \in LiveRuns, p[1][1] = q[1][1], p[1][1] \in Shards,
                 NEW c \in Callers, Holds(me[c], p), NEW d \in Callers, Holds(me[d], q)
          PROVE  p = q
      <3>1. c = d /\ AloneOK(me[c], job, runs)
        BY <2>1, <2>2, <2>6 DEF AloneInv
      <3>2. CASE me[c].pc = "record"
        <4>1. <<p[1], p>> \in me[c].held /\ <<q[1], q>> \in me[c].held
          BY <2>6, <3>1, <3>2 DEF Holds
        <4>2. p[1] \in Pending(job) /\ q[1] \in Pending(job)
          BY <3>1, <3>2, <4>1 DEF AloneOK
        <4>3. p[1] = q[1]
          BY <2>6, <4>2 DEF AloneInv, RunsFit, Pending, IsPending, Terminal
        <4>4. <<p[1], p>> = <<q[1], q>>
          BY <3>1, <3>2, <4>1, <4>3 DEF AloneOK
        <4>. QED  BY <4>4
      <3>3. CASE me[c].pc # "record"
        BY <2>6, <3>1, <3>3 DEF Holds
      <3>. QED  BY <3>2, <3>3
    <2>. QED  BY <2>1, <2>2, <2>4, <2>5, <2>6
  <1>. QED  BY <1>1, SequentialInvariant, PTL

-----------------------------------------------------------------------------
(* The reducer waits for the attempts that count. *)

\* What a call knows of the children if nobody else writes them: a listing in
\* which no shard waits is the store, and a fan-out has stored all its children
\* and none of another attempt.
LatestOK(m, jobs) ==
  /\ m.pc \in {"submit", "record"} /\ Pending(m.snap) = {} => m.snap = jobs
  /\ m.op = "fanout" /\ m.pc # "idle" =>
       /\ m.covers = Shards
       /\ m.pc = "store" => Children(jobs) \cup m.todo = FirstJobs
       /\ m.pc = "create" => m.target[1] = "reduce"
       /\ m.pc \notin {"store", "create"} => Children(jobs) = FirstJobs
       /\ m.pc \in {"check", "direct"} => m.deps = RunsOf(jobs, FirstJobs)

\* One call at a time, and each knows the children.
LatestInv ==
  ~overlap => /\ \A c, d \in Callers : me[c].pc # "idle" /\ me[d].pc # "idle" => c = d
              /\ \A c \in Callers : LatestOK(me[c], job)

\* A step of the one call keeps the invariant if its locals fit.
LEMMA LatestMoves ==
  ASSUME RootInv, NEW c \in Callers, \A d \in Callers \ {c} : me[d].pc = "idle",
         NEW new, Go(c, new), LatestOK(new, job')
  PROVE  LatestInv'
  <1>1. me'[c] = new /\ \A d \in Callers \ {c} : me'[d] = me[d]
    BY DEF Go, RootInv, CallsOK
  <1>2. \A d \in Callers \ {c} : LatestOK(me[d], job')
    BY DEF LatestOK
  <1>3. \A d \in Callers : LatestOK(me'[d], job')
    BY <1>1, <1>2
  <1>4. \A d, e \in Callers : me'[d].pc # "idle" /\ me'[e].pc # "idle" => d = e
    BY <1>1
  <1>. QED  BY <1>3, <1>4 DEF LatestInv

\* What the invariant says of the one call under way.
LEMMA LatestFacts ==
  ASSUME RootInv, LatestInv, ~overlap, NEW c \in Callers, me[c].pc # "idle"
  PROVE  /\ \A d \in Callers \ {c} : me[d].pc = "idle"
         /\ LatestOK(me[c], job)
  BY DEF LatestInv

\* A call that ends keeps the invariant.
LEMMA LatestQuit ==
  ASSUME RootInv, LatestInv, ~overlap, NEW c \in Callers, me[c].pc # "idle", Go(c, Idle)
  PROVE  LatestInv'
  <1>1. LatestOK(Idle, job')
    BY IdleType DEF LatestOK
  <1>. QED  BY <1>1, LatestFacts, LatestMoves

\* So does a step that writes no new child, and goes where a fan-out relies on
\* its children only.
LEMMA LatestStep ==
  ASSUME RootInv, LatestInv, ~overlap, NEW c \in Callers,
         me[c].pc \notin {"idle", "store", "create"}, NEW new, Go(c, new),
         Children(job') = Children(job), new.op = me[c].op, new.covers = me[c].covers,
         new.pc \in Releasing \cup {"collect", "defer"},
         new.pc \in {"submit", "record"} /\ Pending(new.snap) = {} => new.snap = job'
  PROVE  LatestInv'
  <1>1. LatestOK(new, job')
    BY LatestFacts DEF LatestOK, Releasing, Looking
  <1>. QED  BY <1>1, LatestFacts, LatestMoves

\* A write of a stored job makes no child.
LEMMA SameChildren ==
  ASSUME RootInv, NEW j \in Stored(job), NEW rec, rec.state # "none",
         job' = [job EXCEPT ![j] = rec]
  PROVE  Children(job') = Children(job)
  <1>1. j \in JobIds /\ job'[j] = rec /\ \A i \in JobIds \ {j} : job'[i] = job[i]
    BY ChildrenOfShards DEF RootInv, StoreOK, Listings
  <1>2. Stored(job') = Stored(job)
    BY <1>1 DEF Stored
  <1>. QED  BY <1>2 DEF Children

\* The end of a release keeps the invariant.
LEMMA LatestEnd ==
  ASSUME RootInv, LatestInv, ~overlap, NEW c \in Callers, EndRelease(c),
         me[c].pc \in {"submit", "recordReducer"}, Children(job') = Children(job)
  PROVE  LatestInv'
  <1>1. CASE me[c].op = "status"
    BY <1>1, LatestQuit DEF EndRelease
  <1>2. CASE me[c].op # "status"
    <2>. DEFINE new == [On(c, "return") EXCEPT !.snap = <<>>, !.cur = <<>>,
                         !.todo = {}, !.rec = NoJob]
    <2>1. Go(c, new)
      BY <1>2 DEF EndRelease
    <2>2. me[c] \in Call
      BY CallFacts
    <2>3. new.pc = "return" /\ new.op = me[c].op /\ new.covers = me[c].covers
      BY <2>2 DEF On, Call
    <2>. HIDE DEF new
    <2>. QED  BY <2>1, <2>3, LatestStep DEF Releasing, Looking
  <1>. QED  BY <1>1, <1>2

\* The listings of a release, and its looks at the backend.
LEMMA LatestListing ==
  ASSUME RootInv, LatestInv, ~overlap, NEW c \in Callers,
         ListJobs(c) \/ GetRun(c) \/ GetRunFails(c) \/ ListAgain(c)
  PROVE  LatestInv'
  <1>1. me[c] \in Call
    BY CallFacts
  <1>2. PICK new : /\ Go(c, new) /\ me[c].pc \in {"list", "refresh"} /\ job' = job
                   /\ new.op = me[c].op /\ new.covers = me[c].covers
                   /\ new.pc \in {"refresh", "update", "submit"}
                   /\ new.pc = "submit" => new.snap = job
    <2>1. CASE ListJobs(c)
      <3>. DEFINE new == [On(c, "refresh") EXCEPT !.snap = job, !.todo = InFlight(job)]
      <3>1. Go(c, new) /\ job' = job /\ me[c].pc = "list"
        BY <2>1 DEF ListJobs, StoreUnchanged, At
      <3>2. new.pc = "refresh" /\ new.op = me[c].op /\ new.covers = me[c].covers
        BY <1>1 DEF On, Call
      <3>. HIDE DEF new
      <3>. QED  BY <3>1, <3>2
    <2>2. CASE GetRun(c) \/ GetRunFails(c)
      <3>. DEFINE j     == FirstListed(me[c].todo)
                  state == runs[me[c].snap[j].run].state
                  rest  == [me[c] EXCEPT !.todo = @ \ {j}]
                  rec   == [me[c].snap[j] EXCEPT !.state = state]
                  new   == [rest EXCEPT !.pc = "update", !.cur = j, !.rec = rec]
      <3>1. (Go(c, rest) \/ Go(c, new)) /\ job' = job /\ me[c].pc = "refresh"
        BY <2>2 DEF GetRun, GetRunFails, StoreUnchanged, At
      <3>. HIDE DEF j, rec
      <3>2. rest.pc = me[c].pc /\ rest.op = me[c].op /\ rest.covers = me[c].covers
        BY <1>1 DEF Call
      <3>3. new.pc = "update" /\ new.op = me[c].op /\ new.covers = me[c].covers
        BY <1>1 DEF Call
      <3>. HIDE DEF rest, new
      <3>. QED  BY <3>1, <3>2, <3>3
    <2>3. CASE ListAgain(c)
      <3>. DEFINE js  == FirstChunks(job, Slots(job, me[c].force))
                  new == [On(c, "submit") EXCEPT !.snap = job, !.todo = js]
      <3>1. Go(c, new) /\ job' = job /\ me[c].pc = "refresh"
        BY <2>3 DEF ListAgain, StoreUnchanged, At
      <3>. HIDE DEF js
      <3>2. new.pc = "submit" /\ new.op = me[c].op /\ new.covers = me[c].covers /\ new.snap = job
        BY <1>1 DEF On, Call
      <3>. HIDE DEF new
      <3>. QED  BY <3>1, <3>2
    <2>. QED  BY <2>1, <2>2, <2>3
  <1>3. /\ me[c].pc \notin {"idle", "store", "create"} /\ Children(job') = Children(job)
        /\ new.pc \in Releasing \cup {"collect", "defer"}
        /\ new.pc \in {"submit", "record"} /\ Pending(new.snap) = {} => new.snap = job'
    BY <1>2 DEF Releasing, Looking
  <1>. QED  BY <1>2, <1>3, LatestStep

\* Its writes, of jobs that are stored.
LEMMA LatestWrites ==
  ASSUME RootInv, LatestInv, ~overlap, NEW c \in Callers,
         UpdateRefreshed(c) \/ RecordRun(c) \/ RecordReducer(c)
  PROVE  LatestInv'
  <1>1. me[c] \in Call /\ CallOK(me[c], job, runs)
    BY CallFacts
  <1>2. CASE UpdateRefreshed(c)
    <2>. DEFINE new == [On(c, "refresh") EXCEPT !.cur = <<>>, !.rec = NoJob]
    <2>1. /\ me[c].pc = "update" /\ Go(c, new)
          /\ job' = [job EXCEPT ![me[c].cur] = me[c].rec]
      BY <1>2 DEF UpdateRefreshed, At
    <2>2. me[c].cur \in Stored(job) /\ me[c].rec.state # "none"
      BY <1>1, <2>1 DEF CallOK, Terminal
    <2>3. new.pc = "refresh" /\ new.op = me[c].op /\ new.covers = me[c].covers
      BY <1>1 DEF On, Call
    <2>. HIDE DEF new
    <2>4. Children(job') = Children(job)
      BY <2>1, <2>2, SameChildren
    <2>. QED  BY <2>1, <2>3, <2>4, LatestStep DEF Releasing, Looking
  <1>3. CASE RecordRun(c)
    <2>1. PICK h \in me[c].held :
           /\ me[c].pc = "record"
           /\ job' = [job EXCEPT ![h[1]] =
                        [me[c].snap[h[1]] EXCEPT !.state = "active", !.run = h[2],
                                                 !.forced = @ \/ me[c].force > 0]]
           /\ Go(c, [On(c, IF me[c].held = {h} THEN "submit" ELSE "record")
                       EXCEPT !.held = @ \ {h}])
      BY <1>3 DEF RecordRun, At
    <2>. DEFINE old  == me[c].snap[h[1]]
                rec  == [old EXCEPT !.state = "active", !.run = h[2],
                                    !.forced = @ \/ me[c].force > 0]
                pc   == IF me[c].held = {h} THEN "submit" ELSE "record"
                held == me[c].held \ {h}
                new  == [On(c, pc) EXCEPT !.held = held]
    <2>2. SnapOK(me[c].snap, job, runs) /\ h[1] \in Pending(me[c].snap)
      BY <1>1, <2>1 DEF CallOK, Looking
    <2>3. h[1] \in Stored(job) /\ old \in JobRecord
      BY <2>2, ChildrenOfShards DEF SnapOK, Listings
    <2>. HIDE DEF old
    <2>4. rec.state # "none"
      BY <2>3 DEF JobRecord
    <2>5. job' = [job EXCEPT ![h[1]] = rec] /\ Go(c, new)
      BY <1>1, <2>1 DEF old, On, Call
    <2>. HIDE DEF rec, held
    <2>6. Children(job') = Children(job)
      BY <2>3, <2>4, <2>5, SameChildren
    <2>7. pc \in {"submit", "record"}
      OBVIOUS
    <2>. HIDE DEF pc
    <2>8. /\ new.pc = pc /\ new.op = me[c].op /\ new.covers = me[c].covers
          /\ new.snap = me[c].snap
      BY <1>1 DEF On, Call
    <2>. HIDE DEF new
    <2>9. Pending(new.snap) # {}
      BY <2>2, <2>8
    <2>10. me[c].pc = "record"
      BY <2>1
    <2>. QED  BY <2>5, <2>6, <2>7, <2>8, <2>9, <2>10, LatestStep DEF Releasing, Looking
  <1>4. CASE RecordReducer(c)
    <2>1. /\ me[c].pc = "recordReducer" /\ EndRelease(c)
          /\ job' = [job EXCEPT ![me[c].cur] = me[c].rec]
      BY <1>4 DEF RecordReducer, At
    <2>2. me[c].cur \in Stored(job) /\ me[c].rec.state # "none"
      BY <1>1, <2>1 DEF CallOK
    <2>3. Children(job') = Children(job)
      BY <2>1, <2>2, SameChildren
    <2>. QED  BY <2>1, <2>3, LatestEnd
  <1>. QED  BY <1>2, <1>3, <1>4

\* Its submissions, and those that are not due or fail.
LEMMA LatestSubmits ==
  ASSUME RootInv, LatestInv, ~overlap, NEW c \in Callers,
         SubmitChunk(c) \/ SubmitReducer(c) \/ NothingToSubmit(c) \/ SubmitFails(c)
  PROVE  LatestInv'
  <1>1. /\ me[c].pc = "submit" /\ me[c] \in Call /\ CallOK(me[c], job, runs)
        /\ Children(job') = Children(job) /\ job' = job
    BY CallFacts DEF SubmitChunk, SubmitReducer, NothingToSubmit, SubmitFails, At, StoreUnchanged
  <1>2. CASE SubmitChunk(c)
    <2>1. PICK js \in NextBatches(me[c].todo) :
            /\ me[c].todo # {}
            /\ Go(c, [On(c, "record") EXCEPT !.todo = @ \ js,
                        !.held = {<<j, NextRun(j)>> : j \in js}])
      BY <1>2 DEF SubmitChunk
    <2>. DEFINE held == {<<j, NextRun(j)>> : j \in js}
                rest == me[c].todo \ js
                new  == [On(c, "record") EXCEPT !.todo = rest, !.held = held]
    <2>2. Go(c, new)
      BY <1>1, <2>1 DEF On, Call
    <2>. HIDE DEF held, rest
    <2>3. /\ new.pc = "record" /\ new.op = me[c].op /\ new.covers = me[c].covers
          /\ new.snap = me[c].snap
      BY <1>1 DEF On, Call
    <2>. HIDE DEF new
    <2>4. Pending(new.snap) # {}
      BY <1>1, <2>1, <2>3 DEF CallOK
    <2>. QED  BY <1>1, <2>2, <2>3, <2>4, LatestStep DEF Releasing, Looking
  <1>3. CASE SubmitReducer(c)
    <2>. DEFINE j   == Effective(me[c].snap, "reduce")
                rec == [me[c].snap[j] EXCEPT !.state = "active", !.run = NextRun(j)]
                new == [On(c, "recordReducer") EXCEPT !.cur = j, !.rec = rec]
    <2>1. Go(c, new)
      BY <1>3 DEF SubmitReducer
    <2>. HIDE DEF j, rec
    <2>2. new.pc = "recordReducer" /\ new.op = me[c].op /\ new.covers = me[c].covers
      BY <1>1 DEF On, Call
    <2>. HIDE DEF new
    <2>. QED  BY <1>1, <2>1, <2>2, LatestStep DEF Releasing, Looking
  <1>4. CASE NothingToSubmit(c) \/ SubmitFails(c)
    <2>1. EndRelease(c) \/ Go(c, Idle)
      BY <1>4 DEF NothingToSubmit, SubmitFails, Quit
    <2>2. me[c].pc # "idle"
      BY <1>1
    <2>. QED  BY <1>1, <2>1, <2>2, LatestEnd, LatestQuit
  <1>. QED  BY <1>2, <1>3, <1>4

\* A step of a call that is no fan-out relies on its listing only.
LEMMA LatestElse ==
  ASSUME RootInv, LatestInv, ~overlap, NEW c \in Callers, me[c].pc # "idle",
         NEW new, Go(c, new), new.op # "fanout", new.pc \notin {"submit", "record"}
  PROVE  LatestInv'
  <1>1. LatestOK(new, job')
    BY DEF LatestOK
  <1>. QED  BY <1>1, LatestFacts, LatestMoves

\* What a call does after a release.
LEMMA LatestReturn ==
  ASSUME RootInv, LatestInv, ~overlap, NEW c \in Callers, Return(c)
  PROVE  LatestInv'
  <1>. DEFINE j == me[c].target
              fan == On(c, "collect")
              redo == [On(c, "resubmit") EXCEPT !.target = <<>>, !.deps = @ \cup RunsOf(job, {j})]
              end == [On(c, "cancel") EXCEPT !.rec = job[j]]
  <1>1. /\ me[c].pc = "return" /\ job' = job /\ me[c] \in Call
        /\ \/ me[c].op = "release" /\ Go(c, Listing)
           \/ me[c].op = "fanout" /\ Go(c, fan)
           \/ me[c].op = "retry" /\ Go(c, redo)
           \/ me[c].op = "cancel" /\ Go(c, end)
    BY CallFacts DEF Return, At, StoreUnchanged
  <1>2. Listing.op = "status" /\ Listing.pc = "refresh"
    BY DEF Listing, Idle
  <1>3. fan.pc = "collect" /\ fan.op = me[c].op /\ fan.covers = me[c].covers
    BY <1>1 DEF On, Call
  <1>4. redo.op = me[c].op /\ redo.pc = "resubmit"
    BY <1>1 DEF On, Call
  <1>5. end.op = me[c].op /\ end.pc = "cancel"
    BY <1>1 DEF On, Call
  <1>. HIDE DEF fan, redo, end
  <1>6. CASE me[c].op = "fanout" /\ Go(c, fan)
    BY <1>1, <1>3, <1>6, LatestStep
  <1>7. CASE Go(c, Listing)
    BY <1>1, <1>2, <1>7, LatestElse
  <1>8. CASE me[c].op = "retry" /\ Go(c, redo)
    BY <1>1, <1>4, <1>8, LatestElse
  <1>9. CASE me[c].op = "cancel" /\ Go(c, end)
    BY <1>1, <1>5, <1>9, LatestElse
  <1>. QED  BY <1>1, <1>6, <1>7, <1>8, <1>9

\* The steps of a fan-out: it stores its children, and collects their runs.
LEMMA LatestFanOut ==
  ASSUME RootInv, LatestInv, ~overlap, NEW c \in Callers,
         StoreChild(c) \/ CollectRuns(c) \/ CheckChildren(c) \/ DeferReducer(c)
  PROVE  LatestInv'
  <1>1. /\ me[c].pc \in FanningOut /\ me[c] \in Call /\ StoringOK(me[c], job)
        /\ me[c].op = "fanout"
    <2>1. me[c].pc \in FanningOut
      BY DEF StoreChild, CollectRuns, CheckChildren, DeferReducer, At, FanningOut
    <2>. QED  BY <2>1, CallFacts DEF CallOK
  <1>2. LatestOK(me[c], job) /\ me[c].pc # "idle"
    BY <1>1, LatestFacts DEF FanningOut
  <1>3. CASE StoreChild(c)
    <2>1. PICK j \in me[c].todo :
           /\ me[c].pc = "store"
           /\ job' = [job EXCEPT ![j] = Job("dispatching", NoRunId, FALSE, FALSE)]
           /\ Go(c, [On(c, IF me[c].todo = {j} THEN "list" ELSE "store")
                       EXCEPT !.todo = @ \ {j}])
      BY <1>3 DEF StoreChild, At
    <2>. DEFINE rec  == Job("dispatching", NoRunId, FALSE, FALSE)
                pc   == IF me[c].todo = {j} THEN "list" ELSE "store"
                rest == me[c].todo \ {j}
                new  == [On(c, pc) EXCEPT !.todo = rest]
    <2>2. Go(c, new)
      BY <1>1, <2>1 DEF On, Call
    <2>3. j \in JobIds /\ j[1] # "reduce" /\ rec.state # "none"
      <3>1. j \in FirstJobs /\ j \in JobIds
        BY <1>1, <2>1 DEF StoringOK, Call
      <3>. QED  BY <3>1, DispatchAssumption DEF FirstJobs, Job
    <2>4. Children(job') = Children(job) \cup {j}
      <3>. HIDE DEF rec
      <3>1. job'[j] = rec /\ \A i \in JobIds \ {j} : job'[i] = job[i]
        BY <2>1, <2>3, CallFacts DEF Listings, rec
      <3>. QED  BY <2>3, <3>1 DEF Children, Stored
    <2>5. Children(job) \cup me[c].todo = FirstJobs /\ me[c].covers = Shards
      BY <1>1, <1>2, <2>1 DEF LatestOK
    <2>6. /\ pc \in {"list", "store"}
          /\ Children(job') \cup rest = FirstJobs
          /\ pc = "list" => Children(job') = FirstJobs
      BY <2>4, <2>5
    <2>. HIDE DEF pc, rest
    <2>7. new.pc = pc /\ new.covers = me[c].covers /\ new.todo = rest
      BY <1>1 DEF On, Call
    <2>. HIDE DEF new
    <2>8. LatestOK(new, job')
      BY <2>5, <2>6, <2>7 DEF LatestOK
    <2>. QED  BY <1>2, <2>2, <2>8, LatestFacts, LatestMoves
  <1>4. CASE CollectRuns(c)
    <2>. DEFINE deps == RunsOf(job, FirstJobs)
                new  == [On(c, "check") EXCEPT !.deps = deps]
    <2>1. Go(c, new) /\ job' = job /\ me[c].pc = "collect"
      BY <1>4 DEF CollectRuns, FirstJobs, StoreUnchanged, At
    <2>. HIDE DEF deps
    <2>2. new.pc = "check" /\ new.covers = me[c].covers /\ new.deps = deps
      BY <1>1 DEF On, Call
    <2>. HIDE DEF new
    <2>3. LatestOK(new, job)
      BY <1>1, <1>2, <2>1, <2>2 DEF LatestOK, deps
    <2>. QED  BY <1>2, <2>1, <2>3, LatestFacts, LatestMoves
  <1>5. CASE CheckChildren(c)
    <2>. DEFINE pc  == IF \E s \in Shards \ Cached : IsPending(job[<<s, 1>>])
                       THEN "defer" ELSE "direct"
                new == On(c, pc)
    <2>1. Go(c, new) /\ job' = job /\ me[c].pc = "check" /\ pc \in {"defer", "direct"}
      BY <1>5 DEF CheckChildren, StoreUnchanged, At
    <2>. HIDE DEF pc
    <2>2. new.pc = pc /\ new.covers = me[c].covers /\ new.deps = me[c].deps
      BY <1>1 DEF On, Call
    <2>. HIDE DEF new
    <2>3. LatestOK(new, job)
      BY <1>1, <1>2, <2>1, <2>2 DEF LatestOK
    <2>. QED  BY <1>2, <2>1, <2>3, LatestFacts, LatestMoves
  <1>6. CASE DeferReducer(c)
    BY <1>2, <1>6, LatestQuit DEF DeferReducer, Quit
  <1>. QED  BY <1>3, <1>4, <1>5, <1>6

\* The steps of a retry and of a cancellation, and the submission of a reducer.
LEMMA LatestCommands ==
  ASSUME RootInv, LatestInv, ~overlap, NEW c \in Callers,
         \/ SubmitDirect(c) \/ DirectFails(c) \/ Resubmit(c) \/ CreateJob(c) \/ EndRetry(c)
         \/ CancelRun(c) \/ RecordCancelled(c) \/ Crash(c)
  PROVE  LatestInv'
  <1>1. me[c].pc # "idle"
    BY DEF SubmitDirect, DirectFails, Resubmit, CreateJob, EndRetry, CancelRun,
           RecordCancelled, Crash, At
  <1>2. me[c] \in Call /\ CallOK(me[c], job, runs) /\ LatestOK(me[c], job)
    BY <1>1, CallFacts, LatestFacts
  <1>3. CASE SubmitDirect(c)
    <2>. DEFINE j   == NewJob("reduce")
                rec == Job("active", NextRun(j), FALSE, FALSE)
                new == [On(c, "create") EXCEPT !.target = j, !.rec = rec]
    <2>1. Go(c, new) /\ me[c].pc = "direct" /\ job' = job
      BY <1>3 DEF SubmitDirect, StoreUnchanged, At
    <2>2. j[1] = "reduce"
      BY NewJobIsNew
    <2>. HIDE DEF j, rec
    <2>3. /\ new.pc = "create" /\ new.op = me[c].op /\ new.target = j
          /\ new.covers = me[c].covers
      BY <1>2 DEF On, Call
    <2>. HIDE DEF new
    <2>4. LatestOK(new, job)
      BY <1>2, <2>1, <2>2, <2>3 DEF LatestOK
    <2>. QED  BY <1>1, <2>1, <2>4, LatestFacts, LatestMoves
  <1>4. CASE Resubmit(c)
    <2>1. PICK j \in me[c].plan :
           /\ me[c].pc = "resubmit"
           /\ \/ Go(c, [me[c] EXCEPT !.plan = @ \ {j}])
              \/ Go(c, [[me[c] EXCEPT !.plan = @ \ {j}] EXCEPT !.pc = "create",
                          !.target = NewJob(j[1]),
                          !.rec = Job("active", NextRun(NewJob(j[1])), job[j].forced, TRUE)])
      BY <1>4 DEF Resubmit, At
    <2>. DEFINE plan == me[c].plan \ {j}
                rest == [me[c] EXCEPT !.plan = plan]
                rec  == Job("active", NextRun(NewJob(j[1])), job[j].forced, TRUE)
                id   == NewJob(j[1])
                next == [rest EXCEPT !.pc = "create", !.target = id, !.rec = rec]
    <2>2. Go(c, rest) \/ Go(c, next)
      BY <2>1
    <2>. HIDE DEF plan, rec, id
    <2>3. /\ me[c].op = "retry" /\ rest.pc = "resubmit" /\ rest.op = me[c].op
          /\ next.pc = "create" /\ next.op = me[c].op
      BY <1>2, <2>1 DEF CallOK, Call
    <2>. HIDE DEF rest, next
    <2>. QED  BY <1>1, <2>2, <2>3, LatestElse
  <1>5. CASE CreateJob(c)
    <2>. DEFINE next == [On(c, "list") EXCEPT !.rec = NoJob]
    <2>1. /\ me[c].pc = "create"
          /\ IF me[c].target[1] = "reduce" THEN Go(c, Idle) ELSE Go(c, next)
      BY <1>5 DEF CreateJob, Quit, At
    <2>2. me[c].target[1] # "reduce" => me[c].op # "fanout"
      BY <1>2, <2>1 DEF LatestOK
    <2>3. next.pc = "list" /\ next.op = me[c].op
      BY <1>2 DEF On, Call
    <2>. HIDE DEF next
    <2>. QED  BY <1>1, <2>1, <2>2, <2>3, LatestElse, LatestQuit
  <1>6. CASE EndRetry(c)
    <2>. DEFINE new == On(c, "direct")
    <2>1. me[c].pc = "resubmit" /\ (Go(c, Idle) \/ Go(c, new))
      BY <1>6 DEF EndRetry, Quit, At
    <2>2. me[c].op = "retry" /\ new.pc = "direct" /\ new.op = me[c].op
      BY <1>2, <2>1 DEF CallOK, On, Call
    <2>. HIDE DEF new
    <2>. QED  BY <1>1, <2>1, <2>2, LatestElse, LatestQuit
  <1>7. CASE CancelRun(c)
    <2>. DEFINE new == On(c, "cancelled")
    <2>1. me[c].pc = "cancel" /\ (Go(c, Idle) \/ Go(c, new))
      BY <1>7 DEF CancelRun, Quit, At
    <2>2. me[c].op = "cancel" /\ new.pc = "cancelled" /\ new.op = me[c].op
      BY <1>2, <2>1 DEF CallOK, On, Call
    <2>. HIDE DEF new
    <2>. QED  BY <1>1, <2>1, <2>2, LatestElse, LatestQuit
  <1>8. CASE DirectFails(c) \/ RecordCancelled(c) \/ Crash(c)
    BY <1>1, <1>8, LatestQuit DEF DirectFails, RecordCancelled, Crash, Quit
  <1>. QED  BY <1>3, <1>4, <1>5, <1>6, <1>7, <1>8

\* A call begins only if no other is under way, and keeps the invariant if its
\* locals fit.
LEMMA LatestBegin ==
  ASSUME RootInv, NEW c \in Callers, NEW op, NEW local, Begin(c, op, local), ~overlap',
         NEW new, new = [local EXCEPT !.op = op], LatestOK(new, job)
  PROVE  LatestInv'
  <1>1. /\ Go(c, new) /\ job' = job
        /\ overlap' = (overlap \/ \E d \in Callers \ {c} : ~At(d, "idle"))
    BY DEF Begin
  <1>2. \A d \in Callers \ {c} : me[d].pc = "idle"
    BY <1>1 DEF At
  <1>3. LatestOK(new, job')
    BY <1>1
  <1>. QED  BY <1>1, <1>2, <1>3, LatestMoves

\* So every call begins: the fan-out does on an empty root.
LEMMA LatestStarts ==
  ASSUME RootInv, NEW c \in Callers, Starts(c), ~overlap'
  PROVE  LatestInv'
  <1>1. ASSUME NEW op, op # "fanout", NEW local, Begin(c, op, local),
               [local EXCEPT !.op = op].op = op,
               [local EXCEPT !.op = op].pc \notin {"submit", "record"}
        PROVE  LatestInv'
    <2>. DEFINE new == [local EXCEPT !.op = op]
    <2>1. LatestOK(new, job)
      <3>1. new.op # "fanout" /\ new.pc \notin {"submit", "record"}
        BY <1>1
      <3>. HIDE DEF new
      <3>. QED  BY <3>1 DEF LatestOK
    <2>. QED  BY <1>1, <2>1, LatestBegin
  <1>2. CASE Status(c)
    <2>1. Begin(c, "status", Listing)
      BY <1>2 DEF Status
    <2>2. [Listing EXCEPT !.op = "status"].op = "status"
          /\ [Listing EXCEPT !.op = "status"].pc = "refresh"
      BY DEF Listing, Idle
    <2>. QED  BY <1>1, <2>1, <2>2
  <1>3. CASE Release(c)
    <2>1. PICK n \in 1 .. MaxForced : Begin(c, "release", [Idle EXCEPT !.pc = "list", !.force = n])
      BY <1>3 DEF Release
    <2>. DEFINE local == [Idle EXCEPT !.pc = "list", !.force = n]
    <2>2. [local EXCEPT !.op = "release"].op = "release"
          /\ [local EXCEPT !.op = "release"].pc = "list"
      BY DEF Idle
    <2>3. Begin(c, "release", local)
      BY <2>1
    <2>. HIDE DEF local
    <2>. QED  BY <1>1, <2>2, <2>3
  <1>4. CASE Cancel(c)
    <2>1. PICK j \in Stored(job) : Begin(c, "cancel", [Idle EXCEPT !.pc = "list", !.target = j])
      BY <1>4 DEF Cancel
    <2>. DEFINE local == [Idle EXCEPT !.pc = "list", !.target = j]
    <2>2. [local EXCEPT !.op = "cancel"].op = "cancel"
          /\ [local EXCEPT !.op = "cancel"].pc = "list"
      BY DEF Idle
    <2>3. Begin(c, "cancel", local)
      BY <2>1
    <2>. HIDE DEF local
    <2>. QED  BY <1>1, <2>2, <2>3
  <1>5. CASE Retry(c)
    <2>1. PICK plan, covers, deps, redo :
            Begin(c, "retry", [Idle EXCEPT !.pc = "resubmit", !.plan = plan,
                                !.covers = covers, !.deps = deps, !.redo = redo])
      BY <1>5 DEF Retry
    <2>. DEFINE local == [Idle EXCEPT !.pc = "resubmit", !.plan = plan, !.covers = covers,
                           !.deps = deps, !.redo = redo]
    <2>2. [local EXCEPT !.op = "retry"].op = "retry"
          /\ [local EXCEPT !.op = "retry"].pc = "resubmit"
      BY DEF Idle
    <2>3. Begin(c, "retry", local)
      BY <2>1
    <2>. HIDE DEF local
    <2>. QED  BY <1>1, <2>2, <2>3
  <1>6. CASE FanOut(c)
    <2>. DEFINE pc    == IF FirstJobs = {} THEN "check" ELSE "store"
                local == [Idle EXCEPT !.todo = FirstJobs, !.covers = Shards, !.pc = pc]
                new   == [local EXCEPT !.op = "fanout"]
    <2>1. ~fanned /\ Begin(c, "fanout", local)
      BY <1>6 DEF FanOut, FirstJobs
    <2>2. Children(job) = {}
      BY <2>1 DEF RootInv, OneFanOut, Children
    <2>3. pc \in {"check", "store"} /\ (pc = "check" => FirstJobs = {})
      OBVIOUS
    <2>. HIDE DEF pc
    <2>4. /\ new.pc = pc /\ new.covers = Shards /\ new.todo = FirstJobs /\ new.deps = {}
          /\ new = [local EXCEPT !.op = "fanout"]
      BY DEF Idle
    <2>. HIDE DEF new, local
    <2>5. RunsOf(job, {}) = {}
      BY DEF RunsOf
    <2>6. LatestOK(new, job)
      BY <2>2, <2>3, <2>4, <2>5 DEF LatestOK
    <2>. QED  BY <2>1, <2>4, <2>6, LatestBegin
  <1>. QED  BY <1>2, <1>3, <1>4, <1>5, <1>6 DEF Starts

\* A step never forgets that two calls met.
LEMMA OverlapStays ==
  ASSUME [Next]_vars, ~overlap', RootInv
  PROVE  ~overlap
  <1>1. ASSUME NEW c \in Callers, Starts(c) PROVE overlap => overlap'
    BY <1>1 DEF Starts, Status, Release, FanOut, Retry, Cancel, Begin
  <1>2. ASSUME NEW c \in Callers, ReleaseStep(c) PROVE UNCHANGED overlap
    BY <1>2 DEF ReleaseStep, ListJobs, GetRun, UpdateRefreshed, ListAgain, SubmitChunk, RecordRun,
                SubmitReducer, RecordReducer, NothingToSubmit, Return, StoreUnchanged, OnlyStore
  <1>3. ASSUME NEW c \in Callers, CallStep(c) PROVE UNCHANGED overlap
    BY <1>2, <1>3 DEF CallStep, StoreChild, CollectRuns, CheckChildren, DeferReducer,
                      SubmitDirect, Resubmit, CreateJob, EndRetry, CancelRun, RecordCancelled,
                      StoreUnchanged, OnlyStore
  <1>4. ASSUME NEW c \in Callers, Fails(c) PROVE UNCHANGED overlap
    BY <1>4 DEF Fails, GetRunFails, SubmitFails, DirectFails, Crash, StoreUnchanged
  <1>5. ASSUME NEW r \in RunIds, RunEnds(r) PROVE UNCHANGED overlap
    BY <1>5 DEF RunEnds
  <1>. QED  BY <1>1, <1>3, <1>4, <1>5 DEF Next, vars

\* The empty root satisfies the invariant.
LEMMA LatestInit == Init => LatestInv
  <1>. SUFFICES ASSUME Init PROVE LatestInv
    OBVIOUS
  <1>1. \A c \in Callers : me[c].pc = "idle" /\ me[c].op = "status"
    BY IdleType DEF Init
  <1>. QED  BY <1>1 DEF LatestInv, LatestOK

\* Every step keeps it, crashes included.
LEMMA LatestNext == RootInv /\ LatestInv /\ [Next]_vars => LatestInv'
  <1>. SUFFICES ASSUME RootInv, LatestInv, [Next]_vars, ~overlap' PROVE LatestInv'
    BY DEF LatestInv
  <1>1. ~overlap
    BY OverlapStays
  <1>2. ASSUME NEW c \in Callers, Starts(c) PROVE LatestInv'
    BY <1>2, LatestStarts
  <1>3. ASSUME NEW c \in Callers, CallStep(c) PROVE LatestInv'
    BY <1>1, <1>3, LatestListing, LatestWrites, LatestSubmits, LatestReturn, LatestFanOut,
       LatestCommands DEF CallStep, ReleaseStep
  <1>4. ASSUME NEW c \in Callers, Fails(c) PROVE LatestInv'
    BY <1>1, <1>4, LatestListing, LatestSubmits, LatestCommands DEF Fails
  <1>5. ASSUME me' = me, job' = job PROVE LatestInv'
    BY <1>1, <1>5 DEF LatestInv
  <1>. QED  BY <1>2, <1>3, <1>4, <1>5 DEF Next, RunEnds, vars

-----------------------------------------------------------------------------
(* The reducer that is submitted. *)

\* What a reducer is given, unless a retry asked for it.
SeesLatest(run) ==
  run.via # "retry" => /\ run.deps = RunsOf(job, EffectiveChildren(job))
                       /\ {j[1] : j \in EffectiveChildren(job)} \subseteq run.covers

Sees == \A r \in NewReducers : ~overlap => SeesLatest(runs'[r])

\* A step that adds no reducer has nothing to show.
LEMMA NoReducerSees ==
  ASSUME RootInv,
         \/ UNCHANGED runs
         \/ \E r \in RunIds : \E state : /\ runs[r].state = "live"
                                         /\ runs' = [runs EXCEPT ![r].state = state]
         \/ \E js \in SUBSET JobIds, run \in RunRecord :
              /\ \A j \in js : j[1] \in Shards
              /\ run.state # "none" /\ Accept(js, run)
  PROVE  Sees
  <1>1. runs \in [RunIds -> RunRecord] /\ NoRun.state = "none"
    BY DEF RootInv, NoRun, Run
  <1>2. CASE UNCHANGED runs
    BY <1>2 DEF Sees, NewReducers
  <1>3. CASE \E r \in RunIds : \E state : /\ runs[r].state = "live"
                                          /\ runs' = [runs EXCEPT ![r].state = state]
    <2>1. ASSUME NEW q \in RunIds, runs[q] = NoRun PROVE runs'[q] = runs[q]
      BY <1>1, <1>3, <2>1
    <2>. QED  BY <2>1 DEF Sees, NewReducers
  <1>4. CASE \E js \in SUBSET JobIds, run \in RunRecord :
               /\ \A j \in js : j[1] \in Shards
               /\ run.state # "none" /\ Accept(js, run)
    <2>1. PICK js \in SUBSET JobIds, run \in RunRecord :
               /\ \A j \in js : j[1] \in Shards
               /\ run.state # "none" /\ Accept(js, run)
      BY <1>4
    <2>2. \A r \in RunIds : runs'[r] # runs[r] => r[1] \in js
      BY <2>1, AcceptGrows
    <2>. QED  BY <2>1, <2>2, DispatchAssumption DEF Sees, NewReducers
  <1>. QED  BY <1>2, <1>3, <1>4

\* Nor has one that submits a run that sees the attempts that count.
LEMMA SubmittedSees ==
  ASSUME RootInv, NEW j \in JobIds, NEW run \in RunRecord, run.state # "none",
         Accept({j}, run), ~overlap => SeesLatest(run)
  PROVE  Sees
  <1>1. {j} \in SUBSET JobIds
    OBVIOUS
  <1>2. \A r \in RunIds : runs'[r] # runs[r] => runs'[r] = run
    BY <1>1, AcceptGrows
  <1>. QED  BY <1>2 DEF Sees, NewReducers

\* With one attempt for each shard, that attempt counts.
LEMMA FirstAttemptsCount ==
  ASSUME NEW jobs \in Listings, Children(jobs) = FirstJobs
  PROVE  EffectiveChildren(jobs) = FirstJobs
  <1>1. \A j \in FirstJobs : Effective(jobs, j[1]) = j
    <2>. SUFFICES ASSUME NEW j \in FirstJobs PROVE Effective(jobs, j[1]) = j
      OBVIOUS
    <2>. DEFINE e == Effective(jobs, j[1])
    <2>1. j \in Stored(jobs) /\ j[1] # "reduce"
      BY DEF Children
    <2>2. e \in Stored(jobs) /\ e[1] = j[1]
      BY <2>1, EffectiveType
    <2>. HIDE DEF e
    <2>3. e \in FirstJobs
      BY <2>1, <2>2 DEF Children
    <2>4. e = j
      BY <2>2, <2>3 DEF FirstJobs
    <2>. QED  BY <2>4 DEF e
  <1>. QED  BY <1>1 DEF EffectiveChildren

\* The deferred reducer is given the listed attempts, and the listing is the
\* store since no shard waits.
LEMMA DeferredSees ==
  ASSUME RootInv, LatestInv, NEW c \in Callers, SubmitReducer(c)
  PROVE  Sees
  <1>. DEFINE snap == me[c].snap
              j    == Effective(snap, "reduce")
              kids == EffectiveChildren(snap)
              run  == Run("live", RunsOf(snap, kids), {k[1] : k \in kids}, "release")
  <1>1. me[c].pc = "submit" /\ ReducerIsDue(snap) /\ Accept({j}, run)
    BY DEF SubmitReducer, At
  <1>2. SnapOK(snap, job, runs)
    BY <1>1, CallFacts DEF CallOK, Looking
  <1>3. snap \in Listings /\ j \in Stored(snap)
    BY <1>1, <1>2, EffectiveType DEF SnapOK, ReducerIsDue
  <1>4. j \in JobIds
    BY <1>3, ChildrenOfShards
  <1>5. kids \in SUBSET JobIds /\ {k[1] : k \in kids} \in SUBSET Shards
    BY <1>3, EffectiveChildrenType, ChildrenOfShards
  <1>6. run \in RunRecord /\ run.state = "live"
    BY <1>3, <1>5, RunType, RunsOfType DEF OpNames
  <1>7. ~overlap => snap = job
    BY <1>1, LatestFacts DEF LatestOK, ReducerIsDue
  <1>8. run.deps = RunsOf(snap, kids) /\ run.covers = {k[1] : k \in kids}
    BY DEF Run
  <1>. HIDE DEF run
  <1>9. ~overlap => SeesLatest(run)
    BY <1>7, <1>8 DEF SeesLatest
  <1>. QED  BY <1>1, <1>4, <1>6, <1>9, SubmittedSees

\* The reducer a fan-out submits at once is given the children it has stored.
LEMMA DirectSees ==
  ASSUME RootInv, LatestInv, NEW c \in Callers, SubmitDirect(c)
  PROVE  Sees
  <1>. DEFINE j   == NewJob("reduce")
              run == Run("live", me[c].deps, me[c].covers, me[c].op)
  <1>1. me[c].pc = "direct" /\ j \in JobIds /\ Accept({j}, run)
    BY DEF SubmitDirect, At
  <1>2. me[c] \in Call /\ CallOK(me[c], job, runs) /\ job \in Listings
    BY CallFacts
  <1>3. run \in RunRecord /\ run.state = "live"
    <2>1. /\ me[c].deps \in SUBSET RunIds /\ me[c].covers \in SUBSET Shards
          /\ me[c].op \in OpNames
      BY <1>2 DEF Call
    <2>. QED  BY <2>1, RunType
  <1>4. run.deps = me[c].deps /\ run.covers = me[c].covers /\ run.via = me[c].op
    BY DEF Run
  <1>. HIDE DEF run, j
  <1>5. ASSUME ~overlap, me[c].op # "retry" PROVE SeesLatest(run)
    <2>1. me[c].op = "fanout" /\ LatestOK(me[c], job)
      BY <1>1, <1>2, <1>5, LatestFacts DEF CallOK
    <2>2. /\ Children(job) = FirstJobs /\ me[c].covers = Shards
          /\ me[c].deps = RunsOf(job, FirstJobs)
      BY <1>1, <2>1 DEF LatestOK
    <2>3. EffectiveChildren(job) = FirstJobs /\ \A i \in FirstJobs : i[1] \in Shards
      BY <1>2, <2>2, FirstAttemptsCount DEF FirstJobs
    <2>. QED  BY <1>4, <2>2, <2>3 DEF SeesLatest
  <1>6. ~overlap => SeesLatest(run)
    BY <1>4, <1>5 DEF SeesLatest
  <1>. QED  BY <1>1, <1>3, <1>6, SubmittedSees

\* No other step submits a reducer.
LEMMA StepSees ==
  ASSUME RootInv, LatestInv, [Next]_vars
  PROVE  Sees
  <1>1. ASSUME NEW c \in Callers, SubmitChunk(c) PROVE Sees
    <2>1. PICK js \in NextBatches(me[c].todo) :
            /\ me[c].pc = "submit"
            /\ Accept(js, Run("live", {}, {j[1] : j \in js}, "release"))
      BY <1>1 DEF SubmitChunk, At
    <2>2. js \subseteq Pending(me[c].snap)
      BY <2>1, CallFacts DEF CallOK, NextBatches
    <2>3. /\ js \in SUBSET JobIds /\ {j[1] : j \in js} \in SUBSET Shards
          /\ \A j \in js : j[1] \in Shards
      BY <2>2, ChildrenOfShards
    <2>4. LET run == Run("live", {}, {j[1] : j \in js}, "release") IN
          run \in RunRecord /\ run.state # "none"
      BY <2>3, RunType DEF OpNames
    <2>. QED  BY <2>1, <2>3, <2>4, NoReducerSees
  <1>2. ASSUME NEW c \in Callers, Resubmit(c) PROVE Sees
    <2>1. PICK j \in me[c].plan :
           \/ UNCHANGED runs
           \/ /\ NewJob(j[1]) \in JobIds
              /\ Accept({NewJob(j[1])}, Run("live", {}, {j[1]}, "retry"))
      BY <1>2 DEF Resubmit
    <2>2. j[1] \in Shards
      BY CallFacts, ChildrenOfShards DEF CallOK
    <2>3. NewJob(j[1])[1] = j[1]
      BY NewJobIsNew
    <2>4. LET run == Run("live", {}, {j[1]}, "retry") IN
          run \in RunRecord /\ run.state # "none"
      BY <2>2, RunType DEF OpNames
    <2>5. CASE UNCHANGED runs
      BY <2>5, NoReducerSees
    <2>6. CASE /\ NewJob(j[1]) \in JobIds
               /\ Accept({NewJob(j[1])}, Run("live", {}, {j[1]}, "retry"))
      <3>. DEFINE js == {NewJob(j[1])}
      <3>1. js \in SUBSET JobIds /\ \A i \in js : i[1] \in Shards
        BY <2>2, <2>3, <2>6
      <3>. QED  BY <2>4, <2>6, <3>1, NoReducerSees
    <2>. QED  BY <2>1, <2>5, <2>6
  <1>3. ASSUME NEW c \in Callers, CancelRun(c) PROVE Sees
    <2>. DEFINE run == me[c].rec.run
    <2>1. /\ me[c].pc = "cancel"
          /\ \/ UNCHANGED runs
             \/ /\ run # NoRunId /\ runs[run].state = "live"
                /\ runs' = [runs EXCEPT ![run].state = "cancelled"]
      BY <1>3 DEF CancelRun, At
    <2>2. run # NoRunId => run \in RunIds
      BY <2>1, CallFacts DEF CallOK, Accepted
    <2>. HIDE DEF run
    <2>. QED  BY <2>1, <2>2, NoReducerSees
  <1>4. ASSUME NEW c \in Callers,
               \/ Starts(c) \/ Fails(c)
               \/ ListJobs(c) \/ GetRun(c) \/ UpdateRefreshed(c) \/ ListAgain(c) \/ RecordRun(c)
               \/ RecordReducer(c) \/ NothingToSubmit(c) \/ Return(c)
               \/ StoreChild(c) \/ CollectRuns(c) \/ CheckChildren(c) \/ DeferReducer(c)
               \/ CreateJob(c) \/ EndRetry(c) \/ RecordCancelled(c)
        PROVE  Sees
    <2>1. CASE Starts(c) \/ Fails(c)
      <3>1. UNCHANGED runs
        BY <2>1 DEF Starts, Status, Release, FanOut, Retry, Cancel, Begin,
                    Fails, GetRunFails, SubmitFails, DirectFails, Crash
      <3>. QED  BY <3>1, NoReducerSees
    <2>2. CASE ~(Starts(c) \/ Fails(c))
      <3>1. UNCHANGED runs
        BY <1>4, <2>2 DEF ListJobs, GetRun, UpdateRefreshed, ListAgain, RecordRun, RecordReducer,
             NothingToSubmit, Return, StoreChild, CollectRuns, CheckChildren, DeferReducer,
             CreateJob, EndRetry, RecordCancelled, OnlyStore
      <3>. QED  BY <3>1, NoReducerSees
    <2>. QED  BY <2>1, <2>2
  <1>5. ASSUME NEW c \in Callers, CallStep(c) PROVE Sees
    BY <1>1, <1>2, <1>3, <1>4, <1>5, DeferredSees, DirectSees DEF CallStep, ReleaseStep
  <1>6. ASSUME NEW r \in RunIds, RunEnds(r) PROVE Sees
    BY <1>6, NoReducerSees DEF RunEnds
  <1>7. UNCHANGED vars => Sees
    BY NoReducerSees DEF vars
  <1>. QED  BY <1>4, <1>5, <1>6, <1>7 DEF Next

\* ReducerSeesLatestAttempts: when calls follow one another, whoever dies, the
\* reducer waits for exactly the runs of the attempts that count, and is given
\* exactly their shards.
THEOREM ReducerSeesThem == Spec => ReducerSeesLatestAttempts
  <1>1. Spec => [](RootInv /\ LatestInv)
    BY RootInit, RootNext, LatestInit, LatestNext, PTL DEF Spec
  <1>2. RootInv /\ LatestInv /\ [Next]_vars => [Sees]_vars
    BY StepSees
  <1>3. Sees => \A r \in NewReducers : runs'[r].via # "retry" /\ ~overlap =>
          /\ runs'[r].deps = RunsOf(job, EffectiveChildren(job))
          /\ {j[1] : j \in EffectiveChildren(job)} \subseteq runs'[r].covers
    BY DEF Sees, SeesLatest
  <1>. QED  BY <1>1, <1>2, <1>3, PTL DEF Spec, ReducerSeesLatestAttempts
=============================================================================
