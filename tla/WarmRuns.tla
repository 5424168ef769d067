------------------------------ MODULE WarmRuns ------------------------------
(***************************************************************************)
(* Local inspection runs: the broker hands a run to a warm worker daemon   *)
(* through a spool directory, looks at the files the worker leaves in the  *)
(* run directory, and keeps a job record of its own.                       *)
(*                                                                         *)
(*   workers/rag-compression/inspect_repo_worker.py       the daemon       *)
(*   broker/pkg/backends/local/backend.go                 submit, status   *)
(*   broker/pkg/service/service_job_refresh.go            lookups          *)
(*                                                                         *)
(* Nothing is locked.  A request is <run>.json until a daemon renames it   *)
(* to <run>.working, which is its claim; everything else is a file that    *)
(* exists or not.  A daemon handles one request at a time, and a step here *)
(* ends where it reads or changes a file.                                  *)
(*                                                                         *)
(* Abstractions.  The order in which a daemon takes requests is any; the   *)
(* wakeup datagram and the completion socket only shorten waits; the busy  *)
(* marker and the daemon's own heartbeat decide nothing.  Progress is not  *)
(* kept, but the write of a whole job record that stores it is.            *)
(***************************************************************************)
EXTENDS Naturals, FiniteSets

CONSTANTS
    Runs,        \* inspection jobs; a run has the id of its job
    Limited,     \* those with max_runtime_seconds
    Callers,     \* requests the broker serves at the same time
    Ops,         \* [Callers -> SUBSET {"submit", "lookup", "cancel"}]
    Faults,      \* what may go wrong: "inspection" (run_inspection raises),
                 \* "daemon" and "broker" (the process dies of itself)
    MaxDaemons,  \* bound: daemon processes ever started
    MaxCancels,  \* bound: cancellations asked for
    MaxCrashes   \* bound: daemons and brokers that die of themselves

ASSUME WarmAssumption ==
    /\ IsFiniteSet(Runs) /\ Limited \subseteq Runs
    /\ Ops \in [Callers -> SUBSET {"submit", "lookup", "cancel"}]
    /\ MaxDaemons \in Nat /\ MaxCancels \in Nat /\ MaxCrashes \in Nat

Daemons == 1 .. MaxDaemons
NoPid == 0

Terminal == {"succeeded", "failed", "cancelled", "timed_out"}
JobStates == {"none", "dispatching", "queued", "running"} \cup Terminal
Heartbeats == {"none", "running", "completed", "failed", "cancelled", "timed_out"}

VARIABLES
    requests,   \* the runs whose <run>.json is in the spool
    claims,     \* the runs whose <run>.working is in the spool
    pidFile,    \* daemon.pid
    daemon,     \* the daemon processes
    dir,        \* the files of each run directory
    watchdog,   \* the broker's runtime watchdog of each run
    job,        \* the job store
    me,         \* the calls the broker has under way
    cancels, crashes

spool == <<requests, claims>>
vars == <<requests, claims, pidFile, daemon, dir, watchdog, job, me, cancels, crashes>>

\* local.pid, warm-request.marker, cancel.request, the runtime timeout marker,
\* result.json (how many times it was written), heartbeat.json.
EmptyDir == [pid |-> NoPid, marker |-> FALSE, cancel |-> FALSE, expired |-> FALSE,
             result |-> 0, heartbeat |-> "none"]

NotStarted == [pc |-> "new", todo |-> {}, cur |-> {}, raise |-> FALSE]
Dead == [NotStarted EXCEPT !.pc = "dead"]
Idle == [pc |-> "idle", op |-> "lookup", run |-> {}, rec |-> [state |-> "none", result |-> FALSE],
         pid |-> NoPid]

Init ==
    /\ requests = {} /\ claims = {} /\ pidFile = NoPid
    /\ daemon = [d \in Daemons |-> NotStarted]
    /\ dir = [r \in Runs |-> EmptyDir]
    /\ watchdog = [r \in Runs |-> "off"]
    /\ job = [r \in Runs |-> [state |-> "none", result |-> FALSE]]
    /\ me = [c \in Callers |-> Idle]
    /\ cancels = 0 /\ crashes = 0

Alive(d) == d # NoPid /\ daemon[d].pc \notin {"new", "dead"}
Executing(d) == {r \in daemon[d].cur : daemon[d].pc \in {"work", "result", "complete"}}

-----------------------------------------------------------------------------
(* The daemon: run_warm_daemon.                                            *)

On(d, pc) == Alive(d) /\ daemon[d].pc = pc
Step(d, local) == daemon' = [daemon EXCEPT ![d] = local]
Goto(d, pc) == [daemon[d] EXCEPT !.pc = pc]

DaemonOnly == UNCHANGED <<pidFile, watchdog, job, me, cancels, crashes>>
Files == UNCHANGED <<requests, claims>>

\* Mutant: leftover claims are left where they are.
MutantListClaims(d) ==
    /\ On(d, "boot")
    /\ Step(d, Goto(d, "recover"))
    /\ Files /\ UNCHANGED dir /\ DaemonOnly

\* recover_warm_requests: the claims found at the start become requests again.
ListClaims(d) ==
    /\ On(d, "boot")
    /\ Step(d, [Goto(d, "recover") EXCEPT !.todo = claims])
    /\ Files /\ UNCHANGED dir /\ DaemonOnly

\* Mutant: leftover claims are thrown away.
MutantRecover(d) ==
    /\ On(d, "recover")
    /\ Step(d, Goto(d, "scan"))
    /\ claims' = claims \ daemon[d].todo /\ UNCHANGED requests
    /\ UNCHANGED dir /\ DaemonOnly

Recover(d) ==
    /\ On(d, "recover")
    /\ \/ \E r \in daemon[d].todo :
            /\ Step(d, [daemon[d] EXCEPT !.todo = @ \ {r}])
            /\ claims' = claims \ {r}
            /\ requests' = IF r \in claims THEN requests \cup {r} ELSE requests
       \/ /\ daemon[d].todo = {}
          /\ Step(d, Goto(d, "scan")) /\ Files
    /\ UNCHANGED dir /\ DaemonOnly

\* iter_warm_request_paths
ListRequests(d) ==
    /\ On(d, "scan") /\ requests # {}
    /\ Step(d, [Goto(d, "claim") EXCEPT !.todo = requests])
    /\ Files /\ UNCHANGED dir /\ DaemonOnly

\* Mutant: the claim is a copy of the request.
MutantClaim(d) ==
    /\ On(d, "claim")
    /\ \/ \E r \in daemon[d].todo :
            LET rest == [daemon[d] EXCEPT !.todo = @ \ {r}] IN
            \/ /\ r \in requests
               /\ claims' = claims \cup {r} /\ UNCHANGED requests
               /\ Step(d, [rest EXCEPT !.pc = "begin", !.cur = {r}])
            \/ r \notin requests /\ Step(d, rest) /\ Files
       \/ /\ daemon[d].todo = {}
          /\ Step(d, Goto(d, "scan")) /\ Files
    /\ UNCHANGED dir /\ DaemonOnly

\* A rename that fails means that another daemon was faster.
Claim(d) ==
    /\ On(d, "claim")
    /\ \/ \E r \in daemon[d].todo :
            LET rest == [daemon[d] EXCEPT !.todo = @ \ {r}] IN
            \/ /\ r \in requests
               /\ requests' = requests \ {r} /\ claims' = claims \cup {r}
               /\ Step(d, [rest EXCEPT !.pc = "begin", !.cur = {r}])
            \/ r \notin requests /\ Step(d, rest) /\ Files
       \/ /\ daemon[d].todo = {}
          /\ Step(d, Goto(d, "scan")) /\ Files
    /\ UNCHANGED dir /\ DaemonOnly

\* process_warm_request up to the inspection.  A claim that a second daemon took
\* for a leftover is gone: reading it raises before anything is written, and on
\* its way out the daemon removes what has the name of its claim by then.
Begin(d) ==
    /\ On(d, "begin")
    /\ \E r \in daemon[d].cur :
         \/ /\ r \notin claims
            /\ Step(d, [Goto(d, "unclaim") EXCEPT !.raise = TRUE]) /\ UNCHANGED dir
         \/ /\ r \in claims /\ dir[r].cancel
            /\ dir' = [dir EXCEPT ![r].heartbeat = "cancelled",
                                  ![r].cancel = FALSE, ![r].marker = FALSE]
            /\ Step(d, Goto(d, "unclaim"))
         \/ /\ r \in claims /\ ~dir[r].cancel
            /\ Step(d, Goto(d, "work")) /\ UNCHANGED dir
    /\ Files /\ DaemonOnly

\* run_staged_job: a cached answer is written at once, anything else is announced
\* as running.  Between its phases the worker looks at its own clock; it does not
\* look for a cancellation.
Announce(d) ==
    /\ On(d, "work")
    /\ \E r \in daemon[d].cur :
         /\ dir[r].heartbeat # "running"
         /\ dir' = [dir EXCEPT ![r].heartbeat = "running"]
    /\ UNCHANGED daemon /\ Files /\ DaemonOnly

RuntimeLimit(d) ==
    /\ On(d, "work")
    /\ \E r \in daemon[d].cur \cap Limited :
         dir' = [dir EXCEPT ![r].heartbeat = "timed_out"]
    /\ Step(d, Goto(d, "cleanup")) /\ Files /\ DaemonOnly

Raise(d) ==
    /\ On(d, "work") /\ "inspection" \in Faults
    /\ \E r \in daemon[d].cur : dir' = [dir EXCEPT ![r].heartbeat = "failed"]
    /\ Step(d, [Goto(d, "cleanup") EXCEPT !.raise = TRUE]) /\ Files /\ DaemonOnly

\* Mutant: the result is announced before it is there.
MutantReleaseSlot(d) ==
    /\ On(d, "work")
    /\ \E r \in daemon[d].cur : dir' = [dir EXCEPT ![r].marker = FALSE, ![r].heartbeat = "completed"]
    /\ Step(d, Goto(d, "result")) /\ Files /\ DaemonOnly

\* The artifacts are written and the marker removed, then the result is written,
\* then the final heartbeat.
ReleaseSlot(d) ==
    /\ On(d, "work")
    /\ \E r \in daemon[d].cur : dir' = [dir EXCEPT ![r].marker = FALSE]
    /\ Step(d, Goto(d, "result")) /\ Files /\ DaemonOnly

WriteResult(d) ==
    /\ On(d, "result")
    /\ \E r \in daemon[d].cur : dir' = [dir EXCEPT ![r].result = @ + 1]
    /\ Step(d, Goto(d, "complete")) /\ Files /\ DaemonOnly

Complete(d) ==
    /\ On(d, "complete")
    /\ \E r \in daemon[d].cur : dir' = [dir EXCEPT ![r].heartbeat = "completed"]
    /\ Step(d, Goto(d, "cleanup")) /\ Files /\ DaemonOnly

Cleanup(d) ==
    /\ On(d, "cleanup")
    /\ \E r \in daemon[d].cur :
         dir' = [dir EXCEPT ![r].cancel = FALSE, ![r].marker = FALSE]
    /\ Step(d, Goto(d, "unclaim")) /\ Files /\ DaemonOnly

\* The claim goes last.  An exception of the inspection ends the daemon.
Unclaim(d) ==
    /\ On(d, "unclaim")
    /\ claims' = claims \ daemon[d].cur
    /\ Step(d, IF daemon[d].raise THEN Dead ELSE [Goto(d, "claim") EXCEPT !.cur = {}])
    /\ UNCHANGED <<requests, dir>> /\ DaemonOnly

DaemonDies(d) ==
    /\ "daemon" \in Faults /\ Alive(d) /\ crashes < MaxCrashes
    /\ crashes' = crashes + 1
    /\ Step(d, Dead)
    /\ UNCHANGED <<requests, claims, pidFile, dir, watchdog, job, me, cancels>>

DaemonStep(d) ==
    \/ ListClaims(d) \/ Recover(d) \/ ListRequests(d) \/ Claim(d) \/ Begin(d)
    \/ ReleaseSlot(d) \/ WriteResult(d) \/ Complete(d) \/ Cleanup(d) \/ Unclaim(d)

-----------------------------------------------------------------------------
(* Submission: SubmitWarmInspectRepoRun.                                   *)

At(c, pc) == me[c].pc = pc
Call(c, local) == me' = [me EXCEPT ![c] = local]
Then(c, pc) == Call(c, [me[c] EXCEPT !.pc = pc])
Return(c) == Call(c, Idle)

BrokerOnly == UNCHANGED <<cancels, crashes>>

Submit(c, r) ==
    /\ At(c, "idle") /\ "submit" \in Ops[c]
    /\ job[r].state = "none"
    /\ \A b \in Callers : r \notin me[b].run
    /\ dir[r].pid = NoPid /\ r \notin requests \cup claims /\ dir[r].result = 0
    /\ dir[r].heartbeat = "none"
    /\ Call(c, [Idle EXCEPT !.pc = "ensure", !.op = "submit", !.run = {r}])
    /\ UNCHANGED <<requests, claims, pidFile, daemon, dir, watchdog, job>> /\ BrokerOnly

\* ensureInspectRepoWarmDaemon: a live daemon is used, otherwise one is started
\* and then its pid written, with no lock around the two.
Ensure(c) ==
    /\ At(c, "ensure")
    /\ \/ /\ Alive(pidFile)
          /\ Call(c, [me[c] EXCEPT !.pc = "enqueue", !.pid = pidFile])
          /\ UNCHANGED daemon
       \/ /\ ~Alive(pidFile)
          /\ \E d \in Daemons :
               /\ daemon[d].pc = "new" /\ \A e \in 1 .. d - 1 : daemon[e].pc # "new"
               /\ Step(d, [NotStarted EXCEPT !.pc = "boot"])
               /\ Call(c, [me[c] EXCEPT !.pc = "pidfile", !.pid = d])
       \/ /\ ~Alive(pidFile) /\ \A d \in Daemons : daemon[d].pc # "new"
          /\ Return(c) /\ UNCHANGED daemon
    /\ UNCHANGED <<requests, claims, pidFile, dir, watchdog, job>> /\ BrokerOnly

WritePidFile(c) ==
    /\ At(c, "pidfile")
    /\ pidFile' = me[c].pid
    /\ Then(c, "enqueue")
    /\ UNCHANGED <<requests, claims, daemon, dir, watchdog, job>> /\ BrokerOnly

Enqueue(c) ==
    /\ At(c, "enqueue")
    /\ requests' = requests \cup me[c].run
    /\ Then(c, "pid")
    /\ UNCHANGED <<claims, pidFile, daemon, dir, watchdog, job>> /\ BrokerOnly

\* local.pid and the marker are written after the request, which may be over by now.
WritePid(c) ==
    /\ At(c, "pid")
    /\ \E r \in me[c].run : dir' = [dir EXCEPT ![r].pid = me[c].pid]
    /\ Then(c, "marker")
    /\ UNCHANGED <<requests, claims, pidFile, daemon, watchdog, job>> /\ BrokerOnly

WriteMarker(c) ==
    /\ At(c, "marker")
    /\ \E r \in me[c].run :
         /\ dir' = [dir EXCEPT ![r].marker = TRUE]
         /\ watchdog' = [watchdog EXCEPT ![r] = IF r \in Limited THEN "armed" ELSE @]
    /\ Then(c, "create")
    /\ UNCHANGED <<requests, claims, pidFile, daemon, job>> /\ BrokerOnly

CreateJob(c) ==
    /\ At(c, "create")
    /\ \E r \in me[c].run :
         job' = [job EXCEPT ![r] = [state |-> "dispatching", result |-> FALSE]]
    /\ Return(c)
    /\ UNCHANGED <<requests, claims, pidFile, daemon, dir, watchdog>> /\ BrokerOnly

-----------------------------------------------------------------------------
(* Lookups and cancellation.                                               *)

\* Mutant: a running heartbeat is believed whoever wrote it.
MutantStatus(r) ==
    CASE dir[r].result > 0 -> "succeeded"
      [] dir[r].heartbeat \in {"none", "completed"} -> "queued"
      [] OTHER -> dir[r].heartbeat

\* GetRun of the local backend.
Status(r) ==
    LET f == dir[r]
        gone == f.pid # NoPid /\ ~Alive(f.pid)
    IN  CASE f.result > 0 -> "succeeded"
          [] f.result = 0 /\ f.expired -> "timed_out"
          [] f.result = 0 /\ ~f.expired /\ f.heartbeat = "running" ->
               IF gone THEN "failed" ELSE "running"
          [] f.result = 0 /\ ~f.expired /\ f.heartbeat = "completed" -> "succeeded"
          [] f.result = 0 /\ ~f.expired /\ f.heartbeat \in {"failed", "cancelled", "timed_out"} ->
               f.heartbeat
          [] OTHER -> IF gone THEN "failed"
                      ELSE IF f.pid = NoPid THEN "queued" ELSE "running"

LookupOnly == UNCHANGED <<requests, claims, pidFile, watchdog>>

Lookup(c, r) ==
    /\ At(c, "idle") /\ job[r].state # "none"
    /\ \/ "lookup" \in Ops[c] /\ UNCHANGED cancels
          /\ Call(c, [Idle EXCEPT !.pc = "refresh", !.run = {r}, !.rec = job[r]])
       \/ "cancel" \in Ops[c] /\ cancels < MaxCancels /\ cancels' = cancels + 1
          /\ Call(c, [Idle EXCEPT !.pc = "refresh", !.op = "cancel", !.run = {r}, !.rec = job[r]])
    /\ LookupOnly /\ UNCHANGED <<daemon, dir, job, crashes>>

\* refreshJobState
Refresh(c) ==
    /\ At(c, "refresh")
    /\ \E r \in me[c].run :
         LET rec == IF me[c].rec.state \in Terminal \/ dir[r].result > 0 THEN me[c].rec
                    ELSE [me[c].rec EXCEPT !.state = Status(r)]
         IN  /\ job' = IF rec = me[c].rec THEN job ELSE [job EXCEPT ![r] = rec]
             /\ Call(c, [me[c] EXCEPT !.pc = "ingest", !.rec = rec])
    /\ LookupOnly /\ UNCHANGED <<daemon, dir>> /\ BrokerOnly

\* Mutant: only a job that the backend called succeeded is ingested.
MutantIngested(rec, r) ==
    IF rec.result \/ rec.state # "succeeded" \/ dir[r].result = 0 THEN rec
    ELSE [state |-> "succeeded", result |-> TRUE]

\* The record a lookup ends with: maybeIngestJobOutputs.
Ingested(rec, r) ==
    IF rec.result \/ (rec.state # "succeeded" /\ dir[r].result = 0) THEN rec
    ELSE IF dir[r].result > 0 THEN [state |-> "succeeded", result |-> TRUE]
    ELSE [rec EXCEPT !.state = "failed"]

\* The ingested record is stored; of a job still under way, the progress is.
Ingest(c) ==
    /\ At(c, "ingest")
    /\ \E r \in me[c].run :
         LET rec == Ingested(me[c].rec, r)
         IN  /\ \/ job' = [job EXCEPT ![r] = rec] /\ (rec # me[c].rec \/ rec.state \notin Terminal)
                \/ job' = job /\ rec = me[c].rec
             /\ IF me[c].op = "cancel" THEN Call(c, [me[c] EXCEPT !.pc = "cancel", !.rec = rec])
                ELSE Return(c)
    /\ LookupOnly /\ UNCHANGED <<daemon, dir>> /\ BrokerOnly

\* CancelRun of the local backend.  A run with a marker is cancelled by a file;
\* without one it has been given up, and the process of local.pid is terminated.
CancelRun(c) ==
    /\ At(c, "cancel")
    /\ \E r \in me[c].run :
         \/ dir[r].marker /\ dir' = [dir EXCEPT ![r].cancel = TRUE] /\ UNCHANGED daemon
         \/ /\ ~dir[r].marker /\ UNCHANGED dir
            /\ IF Alive(dir[r].pid) THEN Step(dir[r].pid, Dead) ELSE UNCHANGED daemon
    /\ Then(c, "cancelled")
    /\ LookupOnly /\ UNCHANGED job /\ BrokerOnly

RecordCancelled(c) ==
    /\ At(c, "cancelled")
    /\ \E r \in me[c].run :
         job' = [job EXCEPT ![r] = [me[c].rec EXCEPT !.state = "cancelled"]]
    /\ Return(c)
    /\ LookupOnly /\ UNCHANGED <<daemon, dir>> /\ BrokerOnly

\* startWarmRuntimeWatchdog: the result is looked for, then the two files written.
WatchdogExpires(r) ==
    /\ watchdog[r] = "armed"
    /\ watchdog' = [watchdog EXCEPT ![r] = IF dir[r].result > 0 THEN "off" ELSE "expired"]
    /\ UNCHANGED <<requests, claims, pidFile, daemon, dir, job, me, cancels, crashes>>

WatchdogWrites(r) ==
    /\ watchdog[r] = "expired"
    /\ watchdog' = [watchdog EXCEPT ![r] = "off"]
    /\ dir' = [dir EXCEPT ![r].expired = TRUE, ![r].cancel = TRUE]
    /\ UNCHANGED <<requests, claims, pidFile, daemon, job, me, cancels, crashes>>

\* The broker dies with its calls and watchdogs; the daemon goes on.
BrokerDies ==
    /\ "broker" \in Faults /\ crashes < MaxCrashes
    /\ \E c \in Callers : ~At(c, "idle")
    /\ crashes' = crashes + 1
    /\ me' = [c \in Callers |-> Idle]
    /\ watchdog' = [r \in Runs |-> "off"]
    /\ UNCHANGED <<requests, claims, pidFile, daemon, dir, job, cancels>>

CallStep(c) ==
    \/ Ensure(c) \/ WritePidFile(c) \/ Enqueue(c) \/ WritePid(c) \/ WriteMarker(c) \/ CreateJob(c)
    \/ Refresh(c) \/ Ingest(c) \/ CancelRun(c) \/ RecordCancelled(c)

Next ==
    \/ \E d \in Daemons : DaemonStep(d) \/ Announce(d) \/ RuntimeLimit(d) \/ Raise(d) \/ DaemonDies(d)
    \/ \E c \in Callers : CallStep(c) \/ \E r \in Runs : Submit(c, r) \/ Lookup(c, r)
    \/ \E r \in Runs : WatchdogExpires(r) \/ WatchdogWrites(r)
    \/ BrokerDies

Spec == Init /\ [][Next]_vars

\* Daemons and calls go on, timers fire, and the client asks about each job again
\* and again: nothing else makes the broker look at a run.
Fairness ==
    /\ \A d \in Daemons : WF_vars(DaemonStep(d))
    /\ \A c \in Callers : WF_vars(CallStep(c))
    /\ \A r \in Runs : /\ WF_vars(WatchdogExpires(r) \/ WatchdogWrites(r))
                       /\ SF_vars(\E c \in Callers : Lookup(c, r))

FairSpec == Spec /\ Fairness

-----------------------------------------------------------------------------
(* Properties.                                                             *)

\* Type correctness; the two names of a request are never there at once, and a
\* daemon works on one run at a time.
WarmTypeOK ==
    /\ requests \subseteq Runs /\ claims \subseteq Runs \ requests
    /\ pidFile \in Daemons \cup {NoPid}
    /\ \A r \in Runs :
         /\ dir[r].pid \in Daemons \cup {NoPid} /\ dir[r].heartbeat \in Heartbeats
         /\ job[r].state \in JobStates
    /\ \A d \in Daemons : Cardinality(daemon[d].cur) <= 1

Outcome(r) == dir[r].result > 0 \/ dir[r].heartbeat \in {"failed", "cancelled", "timed_out"}
Submitted(r) == job[r].state # "none"

\* As long as no broker dies while it submits, so that there is one daemon at a
\* time, a run the broker has a job for is in the spool, claimed, or has left an
\* outcome: a daemon that dies, or that ends because an inspection raised, loses
\* neither the run it works on nor those behind it.
RequestIsNotLost ==
    \A r \in Runs : Submitted(r) => r \in requests \cup claims \/ Outcome(r)

\* A job is reported as succeeded only when its result can be read, though the
\* worker removes its marker before, and writes its last heartbeat after, the
\* result, and though lookups and a cancellation overwrite each other's record.
SucceededHasResult == \A r \in Runs : job[r].state = "succeeded" => dir[r].result > 0

\* A daemon that takes over from a dead one brings every claim it finds to an
\* outcome, unless it dies too.
LeftoverIsServed ==
    \A r \in Runs, d \in Daemons : (r \in claims /\ On(d, "boot")) ~> (Outcome(r) \/ ~Alive(d))

\* Every submitted run ends in the eyes of the client, also the one whose daemon
\* died while it was queued or running.
RunsEnd == \A r \in Runs : Submitted(r) ~> job[r].state \in Terminal

\* A result that was written reaches the job record in the end, even if a
\* cancellation overwrote the record a lookup had just filled, or the watchdog had
\* declared the run timed out.
ResultArrives == \A r \in Runs : (Submitted(r) /\ dir[r].result > 0) ~> job[r].result

\* What backend_test.go says of a warm run, that cancelling it leaves the daemon
\* alone: the daemon dies of a cancellation only while it executes that very run.
\* It does not hold: a run that has given its slot back has no marker any more, and
\* its local.pid is the daemon, which executes another run by then.
CancelSparesDaemon ==
    [][\A d \in Daemons, r \in Runs :
         r \in Executing(d) /\ daemon'[d].pc = "dead" =>
             \A c \in Callers : At(c, "cancel") /\ me'[c].pc = "cancelled" => r \in me[c].run]_vars
=============================================================================
