--------------------------- MODULE GpuControlPlane ---------------------------
(***************************************************************************)
(* The GPU service control plane: the reconcilers that broker processes    *)
(* run, the launchers of the services on the GPU nodes, and Slurm, all     *)
(* working on the registry of module GpuRegistry.                          *)
(*                                                                         *)
(* A reconciler pass (Manager.Reconcile) is a sequence of separate         *)
(* registry operations and scheduler calls made from snapshots it took     *)
(* earlier; launchers publish, renew and fail between any two of them, and *)
(* the broker may die between any two of them.  Manager.mu keeps the       *)
(* passes of one process apart, nothing keeps two processes apart.         *)
(*                                                                         *)
(* A reservation submits at most one Slurm job, so a job has the id of the *)
(* service it was submitted for.                                           *)
(***************************************************************************)
EXTENDS GpuRegistry

CONSTANTS
  Managers,     \* the broker processes with a reconciler
  Faults,       \* which faults of the environment a model lets happen
  MaxCrashes    \* bound: broker processes that die or shut down, reports imported

FaultKinds == {"status",    \* squeue or sacct fail or say nothing of a job
               "probe",     \* a health check of a live endpoint fails
               "cancel",    \* scancel is refused
               "submit",    \* sbatch is refused
               "runtime",   \* a model runtime exits
               "oom",       \* a job runs out of memory
               "timeout",   \* Slurm ends a job at its time limit
               "preempted", \* Slurm preempts a job
               "report",    \* a request worker reports a P40 service
               "shutdown"}  \* a broker is stopped with SIGTERM

ASSUME FaultAssumption == Faults \subseteq FaultKinds /\ MaxCrashes \in Nat

VARIABLES
  jobs,       \* state of each Slurm job
  cancelling, \* jobs Slurm has accepted a cancellation for
  launcher,   \* what the launcher process of each job is doing
  mgr,        \* the reconciler of each broker process
  crashes     \* broker processes that died or shut down, reports imported

vars == <<clock, records, demands, issued, requested,
          jobs, cancelling, launcher, mgr, crashes>>
envVars == <<jobs, cancelling, launcher>>

LiveJob == {"queued", "running"}
EndedJob == {"stopped", "timeout", "preempted", "oom", "failed"}

\* Where a reconciler is: "idle" between passes, otherwise the next call.
Steps == {"idle", "listed", "records", "retire", "fail", "cancel", "cancelled",
          "delete", "healthy", "limits", "demands", "decided",
          "reserve", "submit", "attach", "minimums",
          "down", "downfail", "downdelete"}

IdleManager ==
  [pc |-> "idle",
   now |-> ZeroTime,                           \* m.now() of this pass
   snap |-> [id \in ServiceIds |-> NoRecord],  \* listed records left to do
   loop |-> "idle",                            \* the loop to go back to
   cur |-> NoService,                          \* record being handled
   sick |-> FALSE,                             \* it was listed as unhealthy
   category |-> "none",                        \* why it fails
   done |-> FALSE,                             \* cancelDone
   todo |-> [d \in DemandIds |-> NoDemand],    \* listed demands left to do
   dem |-> 0,                                  \* demand being handled, or 0
   verdict |-> "absent",                       \* the state it gets
   need |-> [t \in Tiers |-> 0]]               \* minimum replicas missing

\* Step m to position p, with the changes of record r.
Go(m, r, p) == mgr' = [mgr EXCEPT ![m] = [r EXCEPT !.pc = p]]

\* An error ends the pass; runGPUServiceControlPlane starts another one later.
Abort(m) == mgr' = [mgr EXCEPT ![m] = IdleManager]

\* The record in hand is dealt with: back to the loop it was taken from.
NextRecord(m, r) ==
  Go(m, [r EXCEPT !.snap[r.cur] = NoRecord, !.cur = NoService, !.sick = FALSE,
                  !.category = "none", !.done = FALSE], r.loop)

NextDemand(m, r) ==
  Go(m, [r EXCEPT !.todo[r.dem] = NoDemand, !.dem = 0, !.verdict = "absent",
                  !.cur = NoService, !.category = "none"], "demands")

-----------------------------------------------------------------------------
(* The scheduler as the reconciler sees it *)

\* Mutant: the state Slurm names is recorded as it is.
RawCategory(s) == s

\* GPUServiceStatus: the failure category of an ended job.
JobCategory(s) ==
  CASE s = "timeout"   -> "timeout"
    [] s = "preempted" -> "availability"
    [] s = "oom"       -> "oom"
    [] OTHER           -> "service_failure"

\* A status query answers with the job's state, with a state that says nothing,
\* or with an error.
Observed(id) ==
  {jobs[id]} \cup (IF "status" \in Faults THEN {"unclear", "error"} ELSE {})

CancelAccepted(id) ==
  /\ cancelling' = IF jobs[id] \in LiveJob THEN cancelling \cup {id} ELSE cancelling
  /\ UNCHANGED <<jobs, launcher>>

CancelRefused == "cancel" \in Faults /\ UNCHANGED envVars

MergeTerminalFailure(current, scheduler) ==
  IF scheduler = "oom" \/ current \in {"none", "service_failure"}
  THEN scheduler ELSE current

\* Mutant: the launcher's own category is taken at once.
NeverAwaits(r) == FALSE

\* Scale-from-zero demands wait for Slurm to say why the service died.
AwaitsTerminalFailure(r) ==
  /\ r.job
  /\ r.category \in {"none", "service_failure"}
  /\ r.tier \notin WarmTiers

-----------------------------------------------------------------------------
(* Start of a pass: control spool import, then the list of records *)

ImportDemand(m) ==
  /\ mgr[m].pc = "idle"
  /\ \E d \in DemandIds, t \in Tiers : RequestDemand(d, t, DemandTTL)
  /\ UNCHANGED <<jobs, cancelling, launcher, mgr, crashes>>

ImportReport(m) ==
  /\ mgr[m].pc = "idle"
  /\ "report" \in Faults /\ crashes < MaxCrashes
  /\ \E id \in ServiceIds : ReportServiceFailure(id, "endpoint_unhealthy")
  /\ crashes' = crashes + 1
  /\ UNCHANGED <<jobs, cancelling, launcher, mgr>>

ListRecords(m) ==
  /\ mgr[m].pc = "idle"
  /\ Go(m, [mgr[m] EXCEPT !.snap = records, !.loop = "records"], "listed")
  /\ UNCHANGED <<regVars, envVars, crashes>>

ReadClock(m) ==
  /\ mgr[m].pc = "listed"
  /\ Go(m, [mgr[m] EXCEPT !.now = clock], "records")
  /\ UNCHANGED <<regVars, envVars, crashes>>

-----------------------------------------------------------------------------
(* reconcileRecord, on the listed copy of a record *)

\* Why a listed record must be retired, "none" if it need not be.
Verdict(r, healthy, now) ==
  IF r.state = "starting"
  THEN IF r.startupDeadline <= now THEN "startup_timeout" ELSE "none"
  ELSE CASE EffectiveLease(r) <= now                 -> "lease_expired"
         [] EffectiveLease(r) > now
            /\ now - r.heartbeat > HeartbeatTimeout -> "heartbeat_lost"
         [] OTHER -> IF healthy THEN "none" ELSE "endpoint_unhealthy"

\* The status query and its record (a scheduler state nothing here reads, or a
\* health error), then the checks of state, deadline, lease, heartbeat, health.
Inspect(m) ==
  LET r == mgr[m] IN
  /\ r.pc = "records"
  /\ \E id \in ServiceIds : LET listed == r.snap[id] IN
     /\ listed.state \in {"starting", "ready"}
     /\ \E status \in IF listed.job THEN Observed(id) ELSE {"none"},
           healthy \in BOOLEAN :
        /\ healthy => listed.state = "ready" /\ launcher[id] = "serving"
        /\ ~healthy => \/ listed.state = "starting"
                       \/ launcher[id] # "serving"
                       \/ "probe" \in Faults
        /\ \/ /\ listed.job /\ ~Known(id)
              /\ Abort(m)
              /\ UNCHANGED regVars
           \/ /\ ~listed.job \/ Known(id)
              /\ IF status = "error" THEN HealthUpdate(id, TRUE) ELSE UNCHANGED regVars
              /\ LET why == Verdict(listed, healthy, r.now)
                     r1 == [r EXCEPT !.cur = id]
                 IN IF status \in EndedJob
                    THEN Go(m, [r1 EXCEPT !.category = JobCategory(status),
                                          !.done = TRUE], "retire")
                    ELSE IF why # "none"
                    THEN Go(m, [r1 EXCEPT !.category = why,
                                          !.done = ~listed.job], "retire")
                    ELSE IF listed.state = "ready" THEN Go(m, r1, "healthy")
                    ELSE NextRecord(m, r1)
  /\ UNCHANGED <<envVars, crashes>>

ClearHealthError(m) ==
  LET r == mgr[m] IN
  /\ r.pc = "healthy"
  /\ \/ HealthUpdate(r.cur, FALSE) /\ NextRecord(m, r)
     \/ ~Known(r.cur) /\ Abort(m) /\ UNCHANGED regVars
  /\ UNCHANGED <<envVars, crashes>>

\* retireService: the record first, then the demands bound to it, then the job.
Retire(m) ==
  LET r == mgr[m] IN
  /\ r.pc = "retire"
  /\ \/ RetireUpdate(r.cur, r.category, r.now, r.done) /\ Go(m, r, "fail")
     \/ ~Known(r.cur) /\ Abort(m) /\ UNCHANGED regVars
  /\ UNCHANGED <<envVars, crashes>>

\* Mutants: an unhealthy record is deleted without a cancellation; a record whose
\* cancellation was already accepted is never deleted.
FailThenDelete(m) ==
  LET r == mgr[m] IN
  /\ r.pc = "fail"
  /\ FailDemandsForService(r.cur, r.category)
  /\ CASE r.sick -> Go(m, r, "delete")
       [] ~r.sick /\ ~r.done -> Go(m, r, "cancel")
       [] OTHER -> NextRecord(m, r)
  /\ UNCHANGED <<envVars, crashes>>

FailThenForget(m) ==
  LET r == mgr[m] IN
  /\ r.pc = "fail"
  /\ FailDemandsForService(r.cur, r.category)
  /\ IF r.done THEN NextRecord(m, r) ELSE Go(m, r, "cancel")
  /\ UNCHANGED <<envVars, crashes>>

FailBoundDemands(m) ==
  LET r == mgr[m] IN
  /\ r.pc = "fail"
  /\ FailDemandsForService(r.cur, r.category)
  /\ CASE ~r.done -> Go(m, r, "cancel")
       [] r.done /\ r.sick -> Go(m, r, "delete")
       [] OTHER -> NextRecord(m, r)
  /\ UNCHANGED <<envVars, crashes>>

\* A refused cancellation is noted and retried on the next pass.
CancelJob(m) ==
  LET r == mgr[m] IN
  /\ r.pc = "cancel"
  /\ \/ CancelAccepted(r.cur) /\ Go(m, r, "cancelled") /\ UNCHANGED regVars
     \/ /\ CancelRefused
        /\ \/ HealthUpdate(r.cur, TRUE) /\ NextRecord(m, r)
           \/ /\ ~Known(r.cur)
              /\ IF r.sick THEN Abort(m) ELSE NextRecord(m, r)
              /\ UNCHANGED regVars
  /\ UNCHANGED crashes

RecordCancellation(m) ==
  LET r == mgr[m] IN
  /\ r.pc = "cancelled"
  /\ \/ /\ CancelUpdate(r.cur)
        /\ IF r.sick THEN Go(m, r, "delete") ELSE NextRecord(m, r)
     \/ ~Known(r.cur) /\ Abort(m) /\ UNCHANGED regVars
  /\ UNCHANGED <<envVars, crashes>>

\* reconcileUnhealthy, as far as the failure of the bound demands.
InspectUnhealthy(m) ==
  LET r == mgr[m] IN
  /\ r.pc = "records"
  /\ \E id \in ServiceIds : LET listed == r.snap[id] IN
     /\ listed.state = "unhealthy"
     /\ \E status \in IF listed.job THEN Observed(id) ELSE {"none"} :
        LET r1 == [r EXCEPT !.cur = id, !.sick = TRUE]
            own == OrServiceFailure(listed.category)
            merged == MergeTerminalFailure(own, JobCategory(status))
            waits == /\ AwaitsTerminalFailure(listed)
                     /\ \E d \in DemandIds : Bound(demands[d], id)
        IN
        CASE status \in EndedJob ->
               \/ /\ TerminalUpdate(id, merged)
                  /\ Go(m, [r1 EXCEPT !.category = merged, !.done = TRUE], "fail")
               \/ ~Known(id) /\ Abort(m) /\ UNCHANGED regVars
          [] status \in LiveJob \cup {"unclear"} /\ ~Known(id) -> Abort(m) /\ UNCHANGED regVars
          [] OTHER ->
               /\ IF waits THEN NextRecord(m, r1)
                  ELSE Go(m, [r1 EXCEPT !.category = own,
                              !.done = listed.cancelRequested \/ ~listed.job], "fail")
               /\ UNCHANGED regVars
  /\ UNCHANGED <<envVars, crashes>>

DeleteRecord(m) ==
  LET r == mgr[m] IN
  /\ r.pc = "delete"
  /\ IF r.snap[r.cur].lease <= r.now /\ Known(r.cur)
     THEN Delete(r.cur) ELSE UNCHANGED regVars
  /\ NextRecord(m, r)
  /\ UNCHANGED <<envVars, crashes>>

-----------------------------------------------------------------------------
(* enforceReplicaLimits: retire the youngest above the maximum *)

\* Mutant: one service above the maximum is let be.
ExcessButOne(now) ==
  {id \in ServiceIds : \E t \in Tiers :
     /\ id \in RecordsForTier(t, now)
     /\ Cardinality({o \in RecordsForTier(t, now) : o < id}) > MaxReplicas[t]}

Excess(now) ==
  {id \in ServiceIds : \E t \in Tiers :
     /\ id \in RecordsForTier(t, now)
     /\ Cardinality({o \in RecordsForTier(t, now) : o < id}) >= MaxReplicas[t]}

NoneListed(r) == \A id \in ServiceIds : r.snap[id] = NoRecord

ListExcess(m) ==
  LET r == mgr[m] IN
  /\ r.pc = "records"
  /\ NoneListed(r)
  /\ Go(m, [r EXCEPT
       !.snap = [id \in ServiceIds |->
                   IF id \in Excess(r.now) THEN records[id] ELSE NoRecord],
       !.loop = "limits"], "limits")
  /\ UNCHANGED <<regVars, envVars, crashes>>

RetireExcess(m) ==
  LET r == mgr[m] IN
  /\ r.pc = "limits"
  /\ \E id \in ServiceIds : LET done == ~r.snap[id].job IN
       /\ r.snap[id] # NoRecord
       /\ \/ /\ RetireUpdate(id, "service_failure", r.now, done)
             /\ Go(m, [r EXCEPT !.cur = id, !.category = "service_failure",
                                !.done = done], "fail")
          \/ ~Known(id) /\ Abort(m) /\ UNCHANGED regVars
  /\ UNCHANGED <<envVars, crashes>>

-----------------------------------------------------------------------------
(* reconcileDemands *)

\* Mutant: lists the open demands before it expires them.
ListBeforeExpiry(m) ==
  LET r == mgr[m] IN
  /\ r.pc = "limits"
  /\ NoneListed(r)
  /\ ExpireDemands
  /\ Go(m, [r EXCEPT !.todo = [d \in DemandIds |->
              IF Open(demands[d]) THEN demands[d] ELSE NoDemand]], "demands")
  /\ UNCHANGED <<envVars, crashes>>

ListPendingDemands(m) ==
  LET r == mgr[m] IN
  /\ r.pc = "limits"
  /\ NoneListed(r)
  /\ ExpireDemands
  /\ Go(m, [r EXCEPT !.todo = [d \in DemandIds |->
              IF Open(Expired(demands[d])) THEN demands[d] ELSE NoDemand]], "demands")
  /\ UNCHANGED <<envVars, crashes>>

\* The oldest listed demand comes first.
FirstListed(r) ==
  CHOOSE d \in DemandIds :
    /\ r.todo[d] # NoDemand
    /\ \A o \in DemandIds : r.todo[o] # NoDemand => d <= o

\* What becomes of a demand that is bound to a service.
BoundOutcome(rec, now) ==
  CASE rec.state = "absent" -> <<"failed", "service_failure">>
    [] rec.state = "unhealthy" ->
         IF AwaitsTerminalFailure(rec) THEN <<"absent", "none">>
         ELSE <<"failed", OrServiceFailure(rec.category)>>
    [] Healthy(rec, now) -> <<"ready", "none">>
    [] rec.state = "starting" /\ EffectiveLease(rec) > now -> <<"absent", "none">>
    [] OTHER -> <<"failed", "service_failure">>

\* The services of a tier an unbound demand may take: the oldest healthy one,
\* else the youngest that is still starting.
HealthyIn(t, now) ==
  {id \in ServiceIds : records[id].tier = t /\ Healthy(records[id], now)}
StartingIn(t, now) ==
  {id \in RecordsForTier(t, now) : records[id].state = "starting"}
Oldest(S) == CHOOSE id \in S : \A o \in S : id <= o
Youngest(S) == CHOOSE id \in S : \A o \in S : o <= id

DecideBound(m, d) ==
  LET r == mgr[m]
      id == r.todo[d].service
      outcome == BoundOutcome(records[id], r.now)
  IN
  /\ id # NoService
  /\ IF outcome[1] = "absent" THEN NextDemand(m, [r EXCEPT !.dem = d])
     ELSE Go(m, [r EXCEPT
            !.dem = d, !.verdict = outcome[1], !.category = outcome[2],
            !.cur = IF outcome[1] = "ready" THEN id ELSE NoService], "decided")

\* GetDemand re-reads the demand before it is bound or a service is launched.
DecideUnbound(m, d) ==
  LET r == [mgr[m] EXCEPT !.dem = d]
      t == r.todo[d].tier
      now == r.now
  IN
  /\ r.todo[d].service = NoService
  /\ CASE HealthyIn(t, now) # {} ->
            Go(m, [r EXCEPT !.verdict = "ready", !.cur = Oldest(HealthyIn(t, now))],
               "decided")
       [] HealthyIn(t, now) = {} /\ demands[d].state = "absent" -> Abort(m)
       [] HealthyIn(t, now) = {} /\ demands[d].state = "ready" -> NextDemand(m, r)
       [] OTHER ->
            IF StartingIn(t, now) # {}
            THEN Go(m, [r EXCEPT !.verdict = "launching",
                                 !.cur = Youngest(StartingIn(t, now))], "decided")
            ELSE Go(m, r, "reserve")

DecideDemand(m) ==
  /\ mgr[m].pc = "demands"
  /\ \E d \in DemandIds : mgr[m].todo[d] # NoDemand
  /\ LET d == FirstListed(mgr[m]) IN DecideBound(m, d) \/ DecideUnbound(m, d)
  /\ UNCHANGED <<regVars, envVars, crashes>>

WriteDemand(m) ==
  LET r == mgr[m] IN
  /\ r.pc = "decided"
  /\ \/ UpdateDemand(r.dem, r.verdict, r.cur, r.category) /\ NextDemand(m, r)
     \/ demands[r.dem].state = "absent" /\ Abort(m) /\ UNCHANGED regVars
  /\ UNCHANGED <<envVars, crashes>>

\* Mutant: off by one.
EndDemandsOneShort(m) ==
  LET r == mgr[m] IN
  /\ r.pc = "demands"
  /\ \A d \in DemandIds : r.todo[d] = NoDemand
  /\ Go(m, [r EXCEPT !.need = [t \in Tiers |->
       LET count == Cardinality(RecordsForTier(t, r.now)) + 1
       IN IF count < MinReplicas[t] THEN MinReplicas[t] - count ELSE 0]], "minimums")
  /\ UNCHANGED <<regVars, envVars, crashes>>

EndDemands(m) ==
  LET r == mgr[m] IN
  /\ r.pc = "demands"
  /\ \A d \in DemandIds : r.todo[d] = NoDemand
  /\ Go(m, [r EXCEPT !.need = [t \in Tiers |->
       LET count == Cardinality(RecordsForTier(t, r.now))
       IN IF count < MinReplicas[t] THEN MinReplicas[t] - count ELSE 0]], "minimums")
  /\ UNCHANGED <<regVars, envVars, crashes>>

-----------------------------------------------------------------------------
(* launch, for the demand in hand or (dem = 0) for a missing minimum replica *)

LaunchFailed(m, r) ==
  IF r.dem = 0 THEN Abort(m)
  ELSE Go(m, [r EXCEPT !.verdict = "failed", !.category = "service_failure",
                       !.cur = NoService], "decided")

\* Without a free id left in the model the launch ends like a refused submit.
ReserveFor(m, r, t) ==
  \/ /\ issued < MaxServices
     /\ Reserve(issued + 1, t, r.now + StartupTimeout)
     /\ Go(m, [r EXCEPT !.cur = issued + 1], "submit")
  \/ /\ ~HasCapacity(t)
     /\ IF r.dem = 0 THEN Abort(m) ELSE NextDemand(m, r)
     /\ UNCHANGED regVars
  \/ /\ HasCapacity(t) /\ issued = MaxServices
     /\ LaunchFailed(m, r)
     /\ UNCHANGED regVars

ReserveForDemand(m) ==
  LET r == mgr[m] IN
  /\ r.pc = "reserve"
  /\ ReserveFor(m, r, r.todo[r.dem].tier)
  /\ UNCHANGED <<envVars, crashes>>

ReserveMinimum(m) ==
  LET r == mgr[m] IN
  /\ r.pc = "minimums"
  /\ \E t \in Tiers : r.need[t] > 0 /\ ReserveFor(m, r, t)
  /\ UNCHANGED <<envVars, crashes>>

SubmitService(m) ==
  LET r == mgr[m] IN
  /\ r.pc = "submit"
  /\ \/ /\ jobs' = [jobs EXCEPT ![r.cur] = "queued"]
        /\ Go(m, r, "attach")
        /\ UNCHANGED <<regVars, cancelling, launcher>>
     \/ /\ "submit" \in Faults
        /\ IF Known(r.cur) THEN Delete(r.cur) ELSE UNCHANGED regVars
        /\ LaunchFailed(m, r)
        /\ UNCHANGED envVars
  /\ UNCHANGED crashes

\* A reservation that is gone costs the job: cancel, and the launch has failed.
\* (The scheduler state noted after the job id tells the properties nothing.)
AttachService(m) ==
  LET r == mgr[m] IN
  /\ r.pc = "attach"
  /\ \/ /\ AttachJob(r.cur)
        /\ IF r.dem = 0
           THEN Go(m, [r EXCEPT !.need[records[r.cur].tier] = @ - 1,
                                !.cur = NoService], "minimums")
           ELSE Go(m, [r EXCEPT !.verdict = "launching"], "decided")
        /\ UNCHANGED envVars
     \/ /\ ~Known(r.cur)
        /\ CancelAccepted(r.cur) \/ CancelRefused
        /\ LaunchFailed(m, r)
        /\ UNCHANGED regVars
  /\ UNCHANGED crashes

\* Mutant: prunes demands that have not expired yet.
PruneAhead(m) ==
  /\ mgr[m].pc = "minimums"
  /\ \A t \in Tiers : mgr[m].need[t] = 0
  /\ PruneExpiredDemands(mgr[m].now + DemandTTL)
  /\ Abort(m)
  /\ UNCHANGED <<envVars, crashes>>

Prune(m) ==
  /\ mgr[m].pc = "minimums"
  /\ \A t \in Tiers : mgr[m].need[t] = 0
  /\ PruneExpiredDemands(mgr[m].now)
  /\ Abort(m)
  /\ UNCHANGED <<envVars, crashes>>

-----------------------------------------------------------------------------
(* The end of a broker process *)

\* The process dies, or its context is cancelled, between any two calls.
Crash(m) ==
  /\ crashes < MaxCrashes
  /\ mgr[m].pc # "idle"
  /\ Abort(m)
  /\ crashes' = crashes + 1
  /\ UNCHANGED <<regVars, envVars>>

\* Shutdown: every record of the registry, whoever launched it.
StartShutdown(m) ==
  /\ "shutdown" \in Faults
  /\ crashes < MaxCrashes
  /\ mgr[m].pc = "idle"
  /\ Go(m, [mgr[m] EXCEPT !.snap = records], "down")
  /\ crashes' = crashes + 1
  /\ UNCHANGED <<regVars, envVars>>

ShutdownCancel(m) ==
  LET r == mgr[m] IN
  /\ r.pc = "down"
  /\ \E id \in ServiceIds :
       /\ r.snap[id] # NoRecord
       /\ Go(m, [r EXCEPT !.cur = id, !.loop = "down"], "downfail")
       /\ IF r.snap[id].job THEN CancelAccepted(id) \/ CancelRefused
          ELSE UNCHANGED envVars
  /\ UNCHANGED <<regVars, crashes>>

ShutdownFail(m) ==
  /\ mgr[m].pc = "downfail"
  /\ FailDemandsForService(mgr[m].cur, "service_failure")
  /\ Go(m, mgr[m], "downdelete")
  /\ UNCHANGED <<envVars, crashes>>

ShutdownDelete(m) ==
  LET r == mgr[m] IN
  /\ r.pc = "downdelete"
  /\ IF Known(r.cur) THEN Delete(r.cur) ELSE UNCHANGED regVars
  /\ NextRecord(m, r)
  /\ UNCHANGED <<envVars, crashes>>

\* The process is gone; a new one starts with nothing in memory.
EndShutdown(m) ==
  /\ mgr[m].pc = "down"
  /\ NoneListed(mgr[m])
  /\ Abort(m)
  /\ UNCHANGED <<regVars, envVars, crashes>>

-----------------------------------------------------------------------------
(* The launcher of a service: workers/gpu-service/main.py, run *)

LauncherGoes(id, p) == launcher' = [launcher EXCEPT ![id] = p]

\* Mutant: a refused publication is retried for ever.
RuntimeUpInsists(id) ==
  /\ launcher[id] = "loading"
  /\ LauncherPublish(id)
  /\ LauncherGoes(id, "serving")
  /\ UNCHANGED <<jobs, cancelling, mgr, crashes>>

RuntimeUp(id) ==
  /\ launcher[id] = "loading"
  /\ \/ LauncherPublish(id) /\ LauncherGoes(id, "serving")
     \/ ~Publishable(id) /\ LauncherGoes(id, "failing") /\ UNCHANGED regVars
  /\ UNCHANGED <<jobs, cancelling, mgr, crashes>>

\* The heartbeat loop: a renewal the registry refuses ends the service.
Heartbeat(id) ==
  /\ launcher[id] = "serving"
  /\ \/ Renew(id) /\ UNCHANGED launcher
     \/ /\ records[id].state # "ready"
        /\ LauncherGoes(id, "failing")
        /\ UNCHANGED regVars
  /\ UNCHANGED <<jobs, cancelling, mgr, crashes>>

RuntimeExits(id) ==
  /\ "runtime" \in Faults
  /\ launcher[id] \in {"loading", "serving"}
  /\ LauncherGoes(id, "failing")
  /\ UNCHANGED <<regVars, jobs, cancelling, mgr, crashes>>

\* The handler of every exception; a record that is gone is not an error.
LauncherFails(id) ==
  /\ launcher[id] = "failing"
  /\ IF Known(id) THEN MarkUnhealthy(id) ELSE UNCHANGED regVars
  /\ LauncherGoes(id, "exiting")
  /\ UNCHANGED <<jobs, cancelling, mgr, crashes>>

-----------------------------------------------------------------------------
(* Slurm *)

JobEnds(id, s) ==
  /\ jobs' = [jobs EXCEPT ![id] = s]
  /\ cancelling' = cancelling \ {id}
  /\ LauncherGoes(id, "off")
  /\ UNCHANGED <<regVars, mgr, crashes>>

JobStarts(id) ==
  /\ jobs[id] = "queued"
  /\ jobs' = [jobs EXCEPT ![id] = "running"]
  /\ LauncherGoes(id, "loading")
  /\ UNCHANGED <<regVars, cancelling, mgr, crashes>>

\* SIGTERM makes the launcher return 0 without a word to the registry.
JobCancelled(id) == id \in cancelling /\ JobEnds(id, "stopped")

JobExits(id) ==
  /\ launcher[id] = "exiting"
  /\ \E s \in {"failed"} \cup (Faults \cap {"oom"}) : JobEnds(id, s)

JobKilled(id) ==
  /\ jobs[id] = "running"
  /\ \E s \in Faults \cap {"timeout", "oom", "preempted"} : JobEnds(id, s)

-----------------------------------------------------------------------------
(* The system *)

Init ==
  /\ RegistryInit
  /\ jobs = [id \in ServiceIds |-> "none"]
  /\ cancelling = {}
  /\ launcher = [id \in ServiceIds |-> "off"]
  /\ mgr = [m \in Managers |-> IdleManager]
  /\ crashes = 0

\* A pass of the reconciler; every step of it is a call that returns.
PassStep(m) ==
  \/ ListRecords(m) \/ ReadClock(m)
  \/ Inspect(m) \/ InspectUnhealthy(m) \/ ClearHealthError(m)
  \/ Retire(m) \/ FailBoundDemands(m) \/ CancelJob(m)
  \/ RecordCancellation(m) \/ DeleteRecord(m)
  \/ ListExcess(m) \/ RetireExcess(m)
  \/ ListPendingDemands(m) \/ DecideDemand(m) \/ WriteDemand(m) \/ EndDemands(m)
  \/ ReserveForDemand(m) \/ ReserveMinimum(m) \/ SubmitService(m) \/ AttachService(m)
  \/ Prune(m)
  \/ ShutdownCancel(m) \/ ShutdownFail(m) \/ ShutdownDelete(m) \/ EndShutdown(m)

ManagerStep(m) ==
  \/ ImportDemand(m) \/ ImportReport(m)
  \/ PassStep(m)
  \/ Crash(m) \/ StartShutdown(m)

LauncherStep(id) ==
  RuntimeUp(id) \/ Heartbeat(id) \/ RuntimeExits(id) \/ LauncherFails(id)

SlurmStep(id) ==
  JobStarts(id) \/ JobCancelled(id) \/ JobExits(id) \/ JobKilled(id)

TimePasses == Tick /\ UNCHANGED <<jobs, cancelling, launcher, mgr, crashes>>

Next ==
  \/ \E m \in Managers : ManagerStep(m)
  \/ \E id \in ServiceIds : LauncherStep(id) \/ SlurmStep(id)
  \/ TimePasses

Spec == Init /\ [][Next]_vars

\* The loop of runGPUServiceControlPlane starts pass after pass, and scancel is
\* not refused for ever; a launcher process runs; Slurm starts, stops and reaps
\* jobs; time goes on.  Nothing makes a request or a fault happen.
Fairness ==
  /\ \A m \in Managers :
       /\ WF_vars(PassStep(m))
       /\ SF_vars(CancelJob(m) /\ mgr'[m].pc = "cancelled")
  /\ \A id \in ServiceIds :
       /\ WF_vars(RuntimeUp(id) \/ Heartbeat(id) \/ LauncherFails(id))
       /\ WF_vars(JobStarts(id))
       /\ WF_vars(JobCancelled(id))
       /\ WF_vars(JobExits(id))
  /\ WF_vars(TimePasses)

FairSpec == Spec /\ Fairness

-----------------------------------------------------------------------------
(* Properties *)

ControlTypeOK ==
  /\ RegistryTypeOK
  /\ jobs \in [ServiceIds -> {"none"} \cup LiveJob \cup EndedJob]
  /\ cancelling \subseteq ServiceIds
  /\ launcher \in [ServiceIds -> {"off", "loading", "serving", "failing", "exiting"}]
  /\ DOMAIN mgr = Managers
  /\ \A m \in Managers :
       /\ mgr[m].pc \in Steps
       /\ mgr[m].now \in 0 .. clock
       /\ mgr[m].snap \in [ServiceIds -> Record]
       /\ mgr[m].cur \in ServiceIds \cup {NoService}
       /\ mgr[m].category \in Categories
       /\ mgr[m].todo \in [DemandIds -> Demand]
  /\ crashes \in 0 .. MaxCrashes

\* One broker: the live leases of every tier, warm ones included, stay within
\* the configured maximum, although a warm lease can lapse and be renewed later
\* (Reserve does not count it while it is lapsed).
ReplicaLimit ==
  \A t \in Tiers : Cardinality(RecordsForTier(t, clock)) <= MaxReplicas[t]

\* One broker: what a requester has been told stays true until the demand is
\* pruned: a failed demand never comes back, a ready one can only fail.
OutcomeIsFinal ==
  [][\A d \in DemandIds :
       /\ demands[d].state = "failed" => demands'[d].state \in {"failed", "absent"}
       /\ demands[d].state = "ready" => demands'[d].state \in {"ready", "failed", "absent"}]_demands

\* "Keep waiting on the exact service originally bound to this demand"
\* (reconciler.go): once bound, a demand never moves to another service.
BindingIsStable ==
  [][\A d \in DemandIds :
       demands[d].service # NoService /\ demands'[d].state # "absent"
       => demands'[d].service = demands[d].service]_demands

\* One broker: the record of a service outlives the demands waiting on it; a
\* record is deleted only after its demands were failed, whatever crashed.
BoundServiceExists ==
  \A d \in DemandIds :
    demands[d].state \in {"launching", "ready"} => Known(demands[d].service)

\* One broker that does not die, and no reports: a job runs without a lease record only if its
\* cancellation was accepted.  No path of a pass forgets a job.
Submitting(id) == \E m \in Managers : mgr[m].pc = "attach" /\ mgr[m].cur = id
NoForgottenJob ==
  crashes = 0 =>
    \A id \in ServiceIds :
      jobs[id] \in LiveJob => Known(id) \/ id \in cancelling \/ Submitting(id)

\* One broker: when Slurm has ended a scale-from-zero service for want of memory
\* and the record knows its job, the pass that gives the service up fails its demands
\* with a more specific category than the launcher's own service_failure, in
\* whatever order launcher, Slurm and reconciler acted.  (Shutting down is no
\* classification, and reconcileDemands decides without asking Slurm.)
OomIsClassified ==
  [][\A d \in DemandIds :
       /\ demands[d].state \in {"launching", "ready"}
       /\ demands[d].tier \notin WarmTiers
       /\ records[demands[d].service].job
       /\ jobs[demands[d].service] = "oom"
       /\ demands'[d].state = "failed"
       /\ \A m \in Managers : mgr[m].pc \notin {"decided", "downfail"}
       => demands'[d].category # "service_failure"]_demands

\* "Keep waiting on the exact service originally bound to this demand.  A
\* terminal result must fail instead of relaunching" (reconciler.go): a demand
\* still in time is not failed while its service is up and routable.
LiveServiceIsAwaited ==
  [][\A d \in DemandIds : LET id == demands[d].service IN
       /\ demands[d].state = "launching"
       /\ demands[d].deadline > clock
       /\ demands'[d].state = "failed"
       => launcher[id] # "serving" \/ ~Routable(records[id], clock)]_demands

\* The requester gets an answer: an open demand is settled after its deadline.
DemandIsSettled ==
  \A d \in DemandIds :
    LET Waiting == demands[d].state \in {"pending", "launching"}
    IN Waiting /\ demands[d].deadline <= MaxClock ~> ~Waiting

\* A retired record does not linger: its job is ended or cancelled, as often as
\* that takes, and the record deleted, so the tier has its capacity back.
UnhealthyIsRemoved ==
  \A id \in ServiceIds :
    records[id].state = "unhealthy" ~> records[id].state = "absent"

\* A warm tier below its minimum gets another replica, whatever became of the
\* last one, as long as the model has a service id left.
MinimumIsRestored ==
  \A t \in Tiers :
    LET Short == Cardinality(RecordsForTier(t, clock)) < MinReplicas[t]
    IN Short ~> ~Short \/ issued = MaxServices

\* A stalled warm launcher can renew a lapsed lease after its replacement was
\* reserved; the tier does not stay above its maximum.
LimitIsRestored ==
  \A t \in Tiers :
    LET Over == Cardinality(RecordsForTier(t, clock)) > MaxReplicas[t]
    IN Over ~> ~Over

\* A job whose record is gone ends, even one whose broker died before it wrote
\* the job id down: its launcher is refused by the registry and exits.
OrphanEnds ==
  \A id \in ServiceIds :
    jobs[id] \in LiveJob /\ ~Known(id) ~> jobs[id] \notin LiveJob
=============================================================================
