---------------------------- MODULE RootDispatch ----------------------------
(***************************************************************************)
(* The jobs of one root: a request is fanned out into shards, the shards   *)
(* are submitted in chunks as batch slots open, and a reducer is submitted *)
(* once every chunk is out.  There is no scheduler: any call that looks at *)
(* a job of the root (a status call, a lookup, a cancellation, a retry)    *)
(* runs releaseDispatchingRootChildren on its way.  Calls share nothing    *)
(* but the job store and take no lock, so each one here is a sequence of   *)
(* steps with a program counter, separated where the code reads or writes  *)
(* the store or asks the backend.                                          *)
(*                                                                         *)
(* Abstractions.  A run is "live" until it ends; queued and running are    *)
(* one job state, "active"; "failed" stands for failed, preempted and      *)
(* timed out.  A cancelled run is over at once.  The refresh of the looked *)
(* up job after the release is left to the release's own refresh.  Jobs    *)
(* are handled in any order where the code follows the store's listing.    *)
(* An alias for a result in the cache carries no root, so it is no job of  *)
(* the store here.  Left out: a fan-out without a reducer, administrators, *)
(* for whom there is no budget, and the release of results.                *)
(***************************************************************************)
EXTENDS Naturals, FiniteSets

CONSTANTS
    Shards,         \* the shards of the request
    Cached,         \* those whose result is in the cache when it is made
    ChunkOf,        \* [Shards -> Nat], the dispatch_chunk of a shard
    Callers,        \* sessions of broker processes
    Ops,            \* [Callers -> SUBSET OpNames], the calls each one makes
    BatchBackend,   \* whether the backend submits a chunk in one call
    Cacheable,      \* whether the task type takes part in the result cache
    MaxActive,      \* ParallelMaxActiveBatches, 0 for no limit
    MaxForced,      \* RootActionMaxAdditionalBatches
    MaxRetried,     \* RootActionMaxRetriedShards
    Faults,         \* subset of {"status", "submit", "cancel"}
    Outcomes,       \* how runs end: [Shards and "reduce" ->
                    \* SUBSET {"succeeded", "failed"}]
    MaxAttempts,    \* bound: jobs per shard, and reducers
    MaxRuns,        \* bound: runs the backend accepts for one job
    MaxCommands,    \* bound: releases, retries and cancellations asked for
    MaxCrashes      \* bound: sessions that die in a call

OpNames == {"fanout", "status", "release", "retry", "cancel"}

ASSUME DispatchAssumption ==
    /\ Cached \subseteq Shards /\ "reduce" \notin Shards
    /\ IsFiniteSet(Shards) /\ ChunkOf \in [Shards -> Nat]
    /\ Ops \in [Callers -> SUBSET OpNames]
    /\ BatchBackend \in BOOLEAN /\ Cacheable \in BOOLEAN
    /\ \A k \in Shards \cup {"reduce"} : Outcomes[k] \subseteq {"succeeded", "failed"}
    /\ MaxActive \in Nat /\ MaxForced \in Nat /\ MaxRetried \in Nat
    /\ MaxAttempts \in Nat \ {0} /\ MaxRuns \in Nat
    /\ MaxCommands \in Nat /\ MaxCrashes \in Nat

Keys == Shards \cup {"reduce"}
JobIds == Keys \X (1 .. MaxAttempts)

\* The n-th run the backend accepted for job j is <<j, n>>.
RunIds == JobIds \X (1 .. MaxRuns)
NoRunId == <<>>

Terminal == {"succeeded", "failed", "cancelled"}
JobStates == {"none", "dispatching", "active"} \cup Terminal

Job(state, run, forced, retry) ==
    [state |-> state, run |-> run, forced |-> forced, retry |-> retry]
NoJob == Job("none", NoRunId, FALSE, FALSE)

\* What the backend knows of a run: its state, the runs it waits for, the
\* shards in its task, and (a history) the call that submitted it.
Run(state, deps, covers, via) ==
    [state |-> state, deps |-> deps, covers |-> covers, via |-> via]
NoRun == Run("none", {}, {}, "status")

VARIABLES
    job,        \* the job store: [JobIds -> job records]
    runs,       \* the backend: [RunIds -> run records]
    me,         \* the local state of each caller
    fanned,     \* whether the request has been made
    commands,   \* releases, retries and cancellations asked for
    crashes,    \* sessions that died in a call
    overlap     \* history: two calls have been under way at once

vars == <<job, runs, me, fanned, commands, crashes, overlap>>

\* The local variables of a call: the listing it works from, the jobs it has
\* still to handle, the (job, run) pairs it has still to record, the record it
\* is about to write and under which id, the forced batches, the job the call
\* is about, and what a retry collects for the reducer.
Idle == [pc |-> "idle", op |-> "status", snap |-> <<>>, todo |-> {}, held |-> {},
         cur |-> <<>>, rec |-> NoJob, force |-> 0, target |-> <<>>, plan |-> {},
         deps |-> {}, covers |-> {}, redo |-> FALSE]

Init ==
    /\ job = [j \in JobIds |-> NoJob]
    /\ runs = [r \in RunIds |-> NoRun]
    /\ me = [c \in Callers |-> Idle]
    /\ fanned = FALSE
    /\ commands = 0
    /\ crashes = 0
    /\ overlap = FALSE

-----------------------------------------------------------------------------
(* What the code computes from a listing of the root's jobs.               *)

Stored(jobs) == {j \in JobIds : jobs[j].state # "none"}
Children(jobs) == {j \in Stored(jobs) : j[1] # "reduce"}

IsPending(rec) == rec.state = "dispatching" /\ rec.run = NoRunId
Pending(jobs) == {j \in Children(jobs) : IsPending(jobs[j])}

InFlight(jobs) ==
    {j \in Stored(jobs) : jobs[j].run # NoRunId /\ jobs[j].state \notin Terminal}

Chunks(js) == {ChunkOf[j[1]] : j \in js}

\* Mutant: a pending chunk counts as active.
MutantActiveChunks(jobs) == Chunks((InFlight(jobs) \cap Children(jobs)) \cup Pending(jobs))

ActiveChunks(jobs) == Chunks(InFlight(jobs) \cap Children(jobs))

Slots(jobs, force) ==
    LET active == Cardinality(ActiveChunks(jobs))
    IN  IF force > 0 THEN force
        ELSE IF MaxActive = 0 THEN Cardinality(Shards)
        ELSE IF active >= MaxActive THEN 0 ELSE MaxActive - active

\* The pending jobs of the first n pending chunks.
FirstChunks(jobs, n) ==
    {j \in Pending(jobs) :
        Cardinality({k \in Chunks(Pending(jobs)) : k < ChunkOf[j[1]]}) < n}

ForcedChunks(jobs) == Chunks({j \in Children(jobs) : jobs[j].forced})
Retried(jobs) == {j \in Stored(jobs) : jobs[j].retry}

\* The attempt that counts: the latest that is not over, else the latest that
\* succeeded, else the latest.
Latest(js) == CHOOSE j \in js : \A i \in js : i[2] <= j[2]
Effective(jobs, key) ==
    LET all  == {j \in Stored(jobs) : j[1] = key}
        open == {j \in all : jobs[j].state \notin Terminal}
        good == {j \in all : jobs[j].state = "succeeded"}
    IN  Latest(IF open # {} THEN open ELSE IF good # {} THEN good ELSE all)

EffectiveChildren(jobs) ==
    {Effective(jobs, j[1]) : j \in Children(jobs)}

RunsOf(jobs, js) == {jobs[j].run : j \in js} \ {NoRunId}

ShouldRetry(rec, includeCancelled) ==
    rec.state = "failed" \/ (rec.state = "cancelled" /\ includeCancelled)

\* The cumulative limit on what a caller who is no administrator may ask for.
WithinBudget(requested, existing, limit) ==
    requested <= limit /\ existing + requested <= limit

-----------------------------------------------------------------------------
(* Steps of a call.                                                        *)

At(c, pc) == me[c].pc = pc
Go(c, local) == me' = [me EXCEPT ![c] = local]
Quit(c) == Go(c, Idle)

\* The local state of c with another program counter.
On(c, pc) == [me[c] EXCEPT !.pc = pc]

Begin(c, op, local) ==
    /\ At(c, "idle") /\ op \in Ops[c]
    /\ Go(c, [local EXCEPT !.op = op])
    /\ overlap' = (overlap \/ \E d \in Callers \ {c} : ~At(d, "idle"))
    /\ UNCHANGED <<job, runs, crashes>>

\* The calls whose number is bounded.
IsCommand == commands < MaxCommands /\ commands' = commands + 1

\* A new job id: later than every stored one and every one about to be.
NewJob(key) ==
    LET used == {j[2] : j \in {i \in Stored(job) : i[1] = key}}
                \cup {me[d].target[2] : d \in {e \in Callers :
                        me[e].pc = "create" /\ me[e].target[1] = key}}
        n == CHOOSE m \in 1 .. MaxAttempts + 1 :
                /\ \A u \in used : u < m
                /\ m = 1 \/ (m - 1) \in used
    IN  <<key, n>>

\* The run the backend accepts next for job j.
NextRun(j) == <<j, 1 + Cardinality({n \in 1 .. MaxRuns : runs[<<j, n>>] # NoRun})>>

Accept(js, run) ==
    /\ \A j \in js : NextRun(j) \in RunIds
    /\ runs' = [r \in RunIds |-> IF r \in {NextRun(j) : j \in js} THEN run ELSE runs[r]]

StoreUnchanged == UNCHANGED <<job, fanned, commands, crashes, overlap>>
OnlyStore == UNCHANGED <<runs, fanned, commands, crashes, overlap>>

-----------------------------------------------------------------------------
(* releaseDispatchingRootChildren.                                         *)

\* The first listing; the jobs to refresh are those with a run under way.
Listing == [Idle EXCEPT !.pc = "refresh", !.snap = job, !.todo = InFlight(job)]

ListJobs(c) ==
    /\ At(c, "list")
    /\ Go(c, [On(c, "refresh") EXCEPT !.snap = job, !.todo = InFlight(job)])
    /\ StoreUnchanged /\ UNCHANGED runs

\* Jobs are refreshed in the order of the listing.
FirstListed(js) == CHOOSE j \in js : TRUE

\* The end of a release: a status call has nothing left to do.
EndRelease(c) == Go(c, IF me[c].op = "status" THEN Idle
                       ELSE [On(c, "return") EXCEPT !.snap = <<>>, !.cur = <<>>,
                               !.todo = {}, !.rec = NoJob])

\* Mutant: the state is written even if it did not change.
MutantGetRun(c) ==
    /\ At(c, "refresh")
    /\ me[c].todo # {}
    /\ LET j == FirstListed(me[c].todo)
       IN  Go(c, [On(c, "update") EXCEPT !.todo = @ \ {j}, !.cur = j,
                    !.rec = [me[c].snap[j] EXCEPT !.state = runs[me[c].snap[j].run].state]])
    /\ StoreUnchanged /\ UNCHANGED runs

\* GetRun of a listed job: an unchanged state is passed over, and so is an error.
GetRun(c) ==
    /\ At(c, "refresh")
    /\ me[c].todo # {}
    /\ LET j     == FirstListed(me[c].todo)
           state == runs[me[c].snap[j].run].state
           rest  == [me[c] EXCEPT !.todo = @ \ {j}]
       IN  Go(c, IF state = "live" THEN rest
                 ELSE [rest EXCEPT !.pc = "update", !.cur = j,
                          !.rec = [me[c].snap[j] EXCEPT !.state = state]])
    /\ StoreUnchanged /\ UNCHANGED runs

GetRunFails(c) ==
    /\ "status" \in Faults /\ At(c, "refresh") /\ me[c].todo # {}
    /\ Go(c, [me[c] EXCEPT !.todo = @ \ {FirstListed(me[c].todo)}])
    /\ StoreUnchanged /\ UNCHANGED runs

\* UpdateJob writes the whole record as it was listed, with the new state.
UpdateRefreshed(c) ==
    /\ At(c, "update")
    /\ job' = [job EXCEPT ![me[c].cur] = me[c].rec]
    /\ Go(c, [On(c, "refresh") EXCEPT !.cur = <<>>, !.rec = NoJob])
    /\ OnlyStore

\* The second listing decides which chunks get the free slots.
ListAgain(c) ==
    /\ At(c, "refresh") /\ me[c].todo = {}
    /\ Go(c, [On(c, "submit") EXCEPT !.snap = job,
                !.todo = FirstChunks(job, Slots(job, me[c].force))])
    /\ StoreUnchanged /\ UNCHANGED runs

\* The jobs handed to the backend in one call: a chunk, or one of its jobs.
NextBatches(todo) ==
    LET first == {j \in todo : \A i \in todo : ChunkOf[j[1]] <= ChunkOf[i[1]]}
    IN  IF BatchBackend THEN {first} ELSE {{j} : j \in first}

SubmitChunk(c) ==
    /\ At(c, "submit") /\ me[c].todo # {}
    /\ \E js \in NextBatches(me[c].todo) :
         /\ Accept(js, Run("live", {}, {j[1] : j \in js}, "release"))
         /\ Go(c, [On(c, "record") EXCEPT !.todo = @ \ js,
                     !.held = {<<j, NextRun(j)>> : j \in js}])
    /\ StoreUnchanged

\* Mutant: the state is stored but not the run.
MutantRecordRun(c) ==
    /\ At(c, "record")
    /\ \E h \in me[c].held :
         /\ job' = [job EXCEPT ![h[1]] = [me[c].snap[h[1]] EXCEPT !.state = "active"]]
         /\ Go(c, [On(c, IF me[c].held = {h} THEN "submit" ELSE "record")
                     EXCEPT !.held = @ \ {h}])
    /\ OnlyStore

\* applyStoredSubmission, one job at a time.
RecordRun(c) ==
    /\ At(c, "record")
    /\ \E h \in me[c].held :
         /\ job' = [job EXCEPT ![h[1]] =
                      [me[c].snap[h[1]] EXCEPT !.state = "active", !.run = h[2],
                                               !.forced = @ \/ me[c].force > 0]]
         /\ Go(c, [On(c, IF me[c].held = {h} THEN "submit" ELSE "record")
                     EXCEPT !.held = @ \ {h}])
    /\ OnlyStore

\* Mutant: pending chunks do not hold the reducer back.
MutantReducerIsDue(snap) ==
    /\ \E j \in Stored(snap) : j[1] = "reduce"
    /\ IsPending(snap[Effective(snap, "reduce")])

\* The reducer goes out only in a call that listed no pending chunk.
ReducerIsDue(snap) ==
    /\ Pending(snap) = {}
    /\ \E j \in Stored(snap) : j[1] = "reduce"
    /\ IsPending(snap[Effective(snap, "reduce")])

\* Mutant: the reducer waits for every attempt there ever was.
MutantSubmitReducer(c) ==
    /\ At(c, "submit") /\ me[c].todo = {} /\ ReducerIsDue(me[c].snap)
    /\ LET snap == me[c].snap
           j    == Effective(snap, "reduce")
           kids == Children(snap)
       IN  /\ Accept({j}, Run("live", RunsOf(snap, kids), {k[1] : k \in kids}, "release"))
           /\ Go(c, [On(c, "recordReducer") EXCEPT !.cur = j,
                       !.rec = [snap[j] EXCEPT !.state = "active", !.run = NextRun(j)]])
    /\ StoreUnchanged

SubmitReducer(c) ==
    /\ At(c, "submit") /\ me[c].todo = {} /\ ReducerIsDue(me[c].snap)
    /\ LET snap == me[c].snap
           j    == Effective(snap, "reduce")
           kids == EffectiveChildren(snap)
       IN  /\ Accept({j}, Run("live", RunsOf(snap, kids), {k[1] : k \in kids}, "release"))
           /\ Go(c, [On(c, "recordReducer") EXCEPT !.cur = j,
                       !.rec = [snap[j] EXCEPT !.state = "active", !.run = NextRun(j)]])
    /\ StoreUnchanged

RecordReducer(c) ==
    /\ At(c, "recordReducer")
    /\ job' = [job EXCEPT ![me[c].cur] = me[c].rec]
    /\ EndRelease(c)
    /\ OnlyStore

NothingToSubmit(c) ==
    /\ At(c, "submit") /\ me[c].todo = {} /\ ~ReducerIsDue(me[c].snap)
    /\ EndRelease(c)
    /\ StoreUnchanged /\ UNCHANGED runs

\* An error of the backend ends the release.  The callers that look at a job
\* ignore it, the fan-out and the forced release return it.
SubmitFails(c) ==
    /\ "submit" \in Faults /\ At(c, "submit")
    /\ me[c].todo # {} \/ ReducerIsDue(me[c].snap)
    /\ IF me[c].op \in {"fanout", "release"} THEN Quit(c) ELSE EndRelease(c)
    /\ StoreUnchanged /\ UNCHANGED runs

\* What the caller does next.  A forced release ends with a status call, a
\* retry takes the run of the job it made, a cancellation the stored record.
Return(c) ==
    /\ At(c, "return")
    /\ LET op == me[c].op
           j  == me[c].target
       IN  \/ op = "release" /\ Go(c, Listing)
           \/ op = "fanout" /\ Go(c, On(c, "collect"))
           \/ op = "retry" /\ Go(c, [On(c, "resubmit") EXCEPT !.target = <<>>,
                                       !.deps = @ \cup RunsOf(job, {j})])
           \/ op = "cancel" /\ Go(c, [On(c, "cancel") EXCEPT !.rec = job[j]])
    /\ StoreUnchanged /\ UNCHANGED runs

-----------------------------------------------------------------------------
(* GetRootJobStatus, and every lookup of a job of the root.                *)

Status(c) ==
    /\ Stored(job) # {}
    /\ Begin(c, "status", Listing)
    /\ UNCHANGED <<fanned, commands>>

\* ReleaseDeferredRootChunks: the budget is checked on a listing of its own.
Release(c) ==
    /\ Stored(job) # {}
    /\ \E n \in 1 .. MaxForced :
         /\ WithinBudget(n, Cardinality(ForcedChunks(job)), MaxForced)
         /\ Begin(c, "release", [Idle EXCEPT !.pc = "list", !.force = n])
    /\ IsCommand /\ UNCHANGED fanned

-----------------------------------------------------------------------------
(* SubmitParallelJobs.  A shard found in the cache becomes an alias job    *)
(* that carries no root; the others are stored as pending jobs.            *)

FanOut(c) ==
    /\ ~fanned /\ fanned' = TRUE
    /\ LET uncached == {<<s, 1>> : s \in Shards \ Cached}
       IN  Begin(c, "fanout", [Idle EXCEPT !.todo = uncached,
                    !.covers = Shards,
                    !.pc = IF uncached = {} THEN "check" ELSE "store"])
    /\ UNCHANGED commands

StoreChild(c) ==
    /\ At(c, "store")
    /\ \E j \in me[c].todo :
         /\ job' = [job EXCEPT ![j] = Job("dispatching", NoRunId, FALSE, FALSE)]
         /\ Go(c, [On(c, IF me[c].todo = {j} THEN "list" ELSE "store")
                     EXCEPT !.todo = @ \ {j}])
    /\ OnlyStore

\* refreshParallelChildStates reads the runs of the children.
CollectRuns(c) ==
    /\ At(c, "collect")
    /\ Go(c, [On(c, "check") EXCEPT
                !.deps = RunsOf(job, {<<s, 1>> : s \in Shards \ Cached})])
    /\ StoreUnchanged /\ UNCHANGED runs

\* hasDispatchingChildrenForJobIDs decides whether the reducer is deferred.
CheckChildren(c) ==
    /\ At(c, "check")
    /\ Go(c, On(c, IF \E s \in Shards \ Cached : IsPending(job[<<s, 1>>])
                   THEN "defer" ELSE "direct"))
    /\ StoreUnchanged /\ UNCHANGED runs

DeferReducer(c) ==
    /\ At(c, "defer") /\ NewJob("reduce") \in JobIds
    /\ job' = [job EXCEPT ![NewJob("reduce")] = Job("dispatching", NoRunId, FALSE, FALSE)]
    /\ Quit(c)
    /\ OnlyStore

\* SubmitJob of a reducer: the run first, the job after it.
SubmitDirect(c) ==
    /\ At(c, "direct") /\ NewJob("reduce") \in JobIds
    /\ LET j == NewJob("reduce")
       IN  /\ Accept({j}, Run("live", me[c].deps, me[c].covers, me[c].op))
           /\ Go(c, [On(c, "create") EXCEPT !.target = j,
                       !.rec = Job("active", NextRun(j), FALSE, FALSE)])
    /\ StoreUnchanged

DirectFails(c) ==
    /\ "submit" \in Faults /\ me[c].pc \in {"direct", "resubmit"}
    /\ Quit(c)
    /\ StoreUnchanged /\ UNCHANGED runs

-----------------------------------------------------------------------------
(* RetryFailedRootShards.                                                  *)

Retry(c) ==
    /\ Stored(job) # {}
    /\ \E includeCancelled, resubmitReducer \in BOOLEAN :
         LET kids == EffectiveChildren(job)
             plan == {j \in kids : ShouldRetry(job[j], includeCancelled)}
         IN  /\ plan # {}
             /\ WithinBudget(Cardinality(plan), Cardinality(Retried(job)), MaxRetried)
             /\ Begin(c, "retry", [Idle EXCEPT !.pc = "resubmit", !.plan = plan,
                         !.covers = {j[1] : j \in kids},
                         !.deps = RunsOf(job, kids \ plan),
                         !.redo = /\ resubmitReducer
                                  /\ \E j \in Stored(job) : j[1] = "reduce"])
    /\ IsCommand /\ UNCHANGED fanned

\* The result cache: a job of the same request that is under way or succeeded
\* answers the retry by an alias outside the root, which has no run.
Reusable(key) ==
    Cacheable /\ \E j \in Stored(job) :
        j[1] = key /\ job[j].state \in {"dispatching", "active", "succeeded"}

Resubmit(c) ==
    /\ At(c, "resubmit")
    /\ \E j \in me[c].plan :
         LET new == NewJob(j[1])
             rest == [me[c] EXCEPT !.plan = @ \ {j}]
         IN  \/ Reusable(j[1]) /\ Go(c, rest) /\ UNCHANGED runs
             \/ /\ ~Reusable(j[1]) /\ new \in JobIds
                /\ Accept({new}, Run("live", {}, {j[1]}, "retry"))
                /\ Go(c, [rest EXCEPT !.pc = "create", !.target = new,
                            !.rec = Job("active", NextRun(new), job[j].forced, TRUE)])
    /\ StoreUnchanged

\* CreateJob of what was submitted.  A retried shard is then looked up, which
\* releases chunks; a reducer is the last thing a call makes.
CreateJob(c) ==
    /\ At(c, "create")
    /\ job' = [job EXCEPT ![me[c].target] = me[c].rec]
    /\ IF me[c].target[1] = "reduce" THEN Quit(c)
       ELSE Go(c, [On(c, "list") EXCEPT !.rec = NoJob])
    /\ OnlyStore

EndRetry(c) ==
    /\ At(c, "resubmit") /\ me[c].plan = {}
    /\ IF me[c].redo THEN Go(c, On(c, "direct")) ELSE Quit(c)
    /\ StoreUnchanged /\ UNCHANGED runs

-----------------------------------------------------------------------------
(* CancelJob: a lookup, then the run, then the record as it was looked up. *)

Cancel(c) ==
    /\ \E j \in Stored(job) :
         Begin(c, "cancel", [Idle EXCEPT !.pc = "list", !.target = j])
    /\ IsCommand /\ UNCHANGED fanned

CancelRun(c) ==
    /\ At(c, "cancel")
    /\ LET run == me[c].rec.run
       IN  \/ /\ run # NoRunId
              /\ runs' = IF runs[run].state # "live" THEN runs
                         ELSE [runs EXCEPT ![run].state = "cancelled"]
              /\ Go(c, On(c, "cancelled"))
           \/ /\ run = NoRunId
              /\ Go(c, On(c, "cancelled")) /\ UNCHANGED runs
           \/ /\ run # NoRunId /\ "cancel" \in Faults
              /\ Quit(c) /\ UNCHANGED runs
    /\ StoreUnchanged

\* Mutant: a job without a run is written back as it was.
MutantRecordCancelled(c) ==
    /\ At(c, "cancelled")
    /\ job' = [job EXCEPT ![me[c].target] =
                 [me[c].rec EXCEPT !.state = IF me[c].rec.run = NoRunId THEN @ ELSE "cancelled"]]
    /\ Quit(c)
    /\ OnlyStore

RecordCancelled(c) ==
    /\ At(c, "cancelled")
    /\ job' = [job EXCEPT ![me[c].target] = [me[c].rec EXCEPT !.state = "cancelled"]]
    /\ Quit(c)
    /\ OnlyStore

-----------------------------------------------------------------------------
(* The backend, and sessions that die.                                     *)

\* A run ends; a reducer's run starts after the runs it depends on.
RunEnds(r) ==
    /\ runs[r].state = "live"
    /\ \A d \in runs[r].deps : runs[d].state # "live"
    /\ \E state \in Outcomes[r[1][1]] :
         runs' = [runs EXCEPT ![r].state = state]
    /\ UNCHANGED <<job, me, fanned, commands, crashes, overlap>>

Crash(c) ==
    /\ crashes < MaxCrashes /\ ~At(c, "idle")
    /\ crashes' = crashes + 1
    /\ Quit(c)
    /\ UNCHANGED <<job, runs, fanned, commands, overlap>>

ReleaseStep(c) ==
    \/ ListJobs(c) \/ GetRun(c) \/ UpdateRefreshed(c) \/ ListAgain(c)
    \/ SubmitChunk(c) \/ RecordRun(c) \/ SubmitReducer(c) \/ RecordReducer(c)
    \/ NothingToSubmit(c) \/ Return(c)

CallStep(c) ==
    \/ ReleaseStep(c)
    \/ StoreChild(c) \/ CollectRuns(c) \/ CheckChildren(c) \/ DeferReducer(c)
    \/ SubmitDirect(c) \/ Resubmit(c) \/ CreateJob(c) \/ EndRetry(c)
    \/ CancelRun(c) \/ RecordCancelled(c)

Fails(c) == GetRunFails(c) \/ SubmitFails(c) \/ DirectFails(c) \/ Crash(c)

Starts(c) == Status(c) \/ Release(c) \/ FanOut(c) \/ Retry(c) \/ Cancel(c)

Next ==
    \/ \E c \in Callers : Starts(c) \/ CallStep(c) \/ Fails(c)
    \/ \E r \in RunIds : RunEnds(r)

Spec == Init /\ [][Next]_vars

\* A call that can go on goes on, a run ends, the backend takes a submission
\* and tells the state of a run if asked again and again, and the client polls:
\* nothing else makes the broker look at a root.
Fairness ==
    /\ \A c \in Callers :
         /\ WF_vars(CallStep(c)) /\ WF_vars(Status(c))
         /\ SF_vars(GetRun(c)) /\ SF_vars(SubmitChunk(c) \/ SubmitReducer(c))
    /\ WF_vars(\E r \in RunIds : RunEnds(r))

FairSpec == Spec /\ Fairness

-----------------------------------------------------------------------------
(* Properties.                                                             *)

RunStates == {"none", "live"} \cup Terminal

\* Type invariant: what the store, the backend and the counters can hold.
RootTypeOK ==
    /\ job \in [JobIds -> [state : JobStates, run : RunIds \cup {NoRunId},
                           forced : BOOLEAN, retry : BOOLEAN]]
    /\ \A r \in RunIds :
         /\ runs[r].state \in RunStates /\ runs[r].deps \subseteq RunIds
         /\ runs[r].covers \subseteq Shards /\ runs[r].via \in OpNames
    /\ fanned \in BOOLEAN /\ overlap \in BOOLEAN
    /\ commands \in 0 .. MaxCommands /\ crashes \in 0 .. MaxCrashes

LiveRuns == {r \in RunIds : runs[r].state = "live"}

\* The children whose stored run is under way at the backend.
Working == {j \in Children(job) : job[j].run \in LiveRuns}

\* Root throttling: while calls follow one another, the chunks at work exceed
\* the configured number at most by the chunks somebody forced and the shards
\* somebody retried, whatever ends, fails or is cancelled between the listing a
\* release counted and its submissions.
ThrottleHolds ==
    ~overlap /\ MaxActive > 0 =>
        Cardinality(Chunks(Working))
            <= MaxActive + Cardinality(ForcedChunks(job)) + Cardinality(Retried(job))

\* Root throttling as documented, of what the backend runs rather than of what
\* the store says: while nobody forces or retries, no more batches are under way
\* than the configured number.  A batch is a chunk with the count of its
\* submission.
ActiveBatchesAreLimited ==
    MaxActive > 0 /\ commands = 0 /\ crashes = 0 =>
        Cardinality({<<ChunkOf[r[1][1]], r[2]>> :
                        r \in {q \in LiveRuns : q[1][1] # "reduce"}}) <= MaxActive

\* The cumulative budgets of a caller who is no administrator hold over any
\* number of releases and retries that follow one another, whatever part of
\* them failed or was lost in a crash.
BudgetsHold ==
    ~overlap => /\ Cardinality(ForcedChunks(job)) <= MaxForced
                /\ Cardinality(Retried(job)) <= MaxRetried

\* While calls follow one another and none dies, no run is lost: each one under
\* way is the run of its job, or its caller is about to store it; and a shard
\* never has two.
RunsAreAccountedFor ==
    ~overlap /\ crashes = 0 =>
        \A r \in LiveRuns :
            /\ \/ job[r[1]].run = r
               \/ \E c \in Callers : \/ <<r[1], r>> \in me[c].held
                                     \/ me[c].rec.run = r
            /\ r[1][1] \in Shards =>
                 \A q \in LiveRuns : q[1][1] = r[1][1] => q = r

\* The reducers' runs a step adds.
NewReducers ==
    {r \in RunIds : r[1][1] = "reduce" /\ runs[r] = NoRun /\ runs'[r] # NoRun}

\* The reducer is held back until the last chunk is out, however many calls
\* release chunks at once and whichever of them dies: no call but a retry that
\* asks for one submits a reducer while a shard still waits.
ReducerWaitsForChunks ==
    [][\A r \in NewReducers : runs'[r].via # "retry" => Pending(job) = {}]_vars

\* When calls follow one another, the reducer waits for exactly the runs of the
\* attempts that count, and is given exactly their shards.
ReducerSeesLatestAttempts ==
    [][\A r \in NewReducers : runs'[r].via # "retry" /\ ~overlap =>
          /\ runs'[r].deps = RunsOf(job, EffectiveChildren(job))
          /\ {j[1] : j \in EffectiveChildren(job)} \subseteq runs'[r].covers]_vars

\* A submitted job never waits again: no stale write of a listed record, by a
\* refresh, a submission or a cancellation, brings a chunk or reducer back to
\* where it would be submitted once more.
SubmittedOnceIsEnough ==
    [][\A j \in Stored(job) : ~IsPending(job[j]) => ~IsPending(job'[j])]_vars

\* As long as the client polls, there comes a time when no shard waits and no
\* reducer is deferred: each has been submitted, or cancelled.
NothingWaitsForEver ==
    (\E j \in JobIds : IsPending(job[j])) ~> (\A j \in JobIds : ~IsPending(job[j]))

\* "One logical investigation ... collapsing back into one compact result": a
\* reducer is given every shard of the request.
ReducerCoversRequest ==
    \A r \in RunIds : r[1][1] = "reduce" /\ runs[r] # NoRun => runs[r].covers = Shards
=============================================================================
