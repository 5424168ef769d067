---------------------------- MODULE ControlSpool ----------------------------
(***************************************************************************)
(* The control spool (broker/pkg/gpuservice/control_spool.go): a directory *)
(* in which request workers (service_control.py, request_service) leave    *)
(* requests for GPU services and pick up the responses.                    *)
(*                                                                         *)
(* Nothing locks the directory.  A file appears by rename and vanishes by  *)
(* unlink, so a single read, write or removal is atomic, but the reconciler*)
(* globs, reads, decides and writes in separate steps while requesters     *)
(* come, poll, give up and remove their files.  The request and response   *)
(* of request r are requestFiles and responses[r].                         *)
(*                                                                         *)
(* Import and Sync are the first and the last part of a reconciler pass.   *)
(* The calls the pass makes between them are those of GpuControlPlane;     *)
(* here they may come in any order and number, within what that module     *)
(* shows of one reconciler: outcomes are final, a bound demand keeps its   *)
(* service, and the record of a bound service is not deleted.              *)
(***************************************************************************)
EXTENDS GpuRegistry

CONSTANTS
  Requests,   \* the requests ever made
  Brokers,    \* the broker processes with a reconciler
  Retention,  \* orphanResponseRetention, in clock ticks
  Faults,     \* which faults of the environment a model lets happen
  MaxCrashes  \* bound: how many times a broker process dies

FaultKinds == {"registry", \* RequestDemand fails (or the model is out of ids)
               "retire",   \* a service is marked unhealthy, by its launcher or the pass
               "killed"}   \* a request worker dies without removing its files

ASSUME SpoolAssumption ==
  /\ Retention \in Nat \ {0}
  /\ Faults \subseteq FaultKinds
  /\ MaxCrashes \in Nat

VARIABLES
  requestFiles, \* the requests whose <id>.request.json exists
  responses,    \* the contents of <id>.response.json, NoResponse if absent
  requester,    \* each request worker: where it is, what it asked for
  asked,        \* history: the demands RequestDemand returned for a request
  broker,       \* each reconciler: the next call of its pass and its locals
  crashes       \* broker processes that died so far

spoolVars == <<requestFiles, responses>>
vars == <<clock, records, demands, issued, requested,
          requestFiles, responses, requester, asked, broker, crashes>>

-----------------------------------------------------------------------------
(* Files and processes *)

NoDemandId == 0

Response ==
  [state : {"absent", "pending", "launching", "ready", "failed"},
   demand : DemandIds \cup {NoDemandId},
   service : ServiceIds \cup {NoService},  \* Service, the credentials
   lease : Nat,                            \* Service.LeaseExpiresAt
   heartbeat : Nat,                        \* Service.HeartbeatAt
   diagnostic : BOOLEAN,                   \* ServiceDiagnostic is set
   updated : Nat]                          \* UpdatedAt

Answer(state, d) ==
  [state |-> state, demand |-> d, service |-> NoService, lease |-> ZeroTime,
   heartbeat |-> ZeroTime, diagnostic |-> FALSE, updated |-> clock]

NoResponse == [Answer("absent", NoDemandId) EXCEPT !.updated = ZeroTime]

Credentials(a) == a.service # NoService

NewRequester ==
  [at |-> "new", tier |-> CHOOSE t \in Tiers : TRUE, deadline |-> ZeroTime,
   got |-> NoService]

\* Where a pass is: "idle" between passes, otherwise the next call.
Steps == {"idle", "import", "reply", "unspool", "records", "demands",
          "list", "files", "sweep", "rewrite"}

IdleBroker ==
  [pc |-> "idle",
   paths |-> {},                                   \* globbed files left to do
   reply |-> NoResponse,                           \* response about to be written
   cur |-> {},                                     \* the request in hand
   passNow |-> ZeroTime,                           \* now of Reconcile
   now |-> ZeroTime,                               \* now of Sync
   listed |-> [d \in DemandIds |-> NoDemand],      \* ListDemands
   snap |-> [id \in ServiceIds |-> NoRecord]]      \* List

Go(b, l, p) == broker' = [broker EXCEPT ![b] = [l EXCEPT !.pc = p]]
Stop(b) == broker' = [broker EXCEPT ![b] = IdleBroker]

\* The file in hand is dealt with.
NextFile(b, l, p) ==
  Go(b, [l EXCEPT !.paths = @ \ l.cur, !.cur = {}, !.reply = NoResponse], p)

WriteResponse(r, a) == responses' = [responses EXCEPT ![r] = a]

-----------------------------------------------------------------------------
(* The request worker: request_service *)

PutRequester(r, q) == requester' = [requester EXCEPT ![r] = q]

Ask(r) ==
  /\ requester[r].at = "new"
  /\ \E t \in Tiers :
       PutRequester(r, [requester[r] EXCEPT !.at = "waiting", !.tier = t,
                                            !.deadline = clock + DemandTTL])
  /\ requestFiles' = requestFiles \cup {r}
  /\ UNCHANGED <<regVars, responses, asked, broker, crashes>>

\* validate_ready_service
Acceptable(a) ==
  /\ a.lease > clock
  /\ clock - a.heartbeat <= HeartbeatTimeout

\* A poll that finds a terminal response; any other leaves all as it is.
Poll(r) ==
  LET a == responses[r] IN
  /\ requester[r].at = "waiting"
  /\ requester[r].deadline > clock
  /\ a.state \in {"ready", "failed"}
  /\ PutRequester(r, [requester[r] EXCEPT
       !.at = "leaving",
       !.got = IF a.state = "ready" /\ Acceptable(a) THEN a.service ELSE NoService])
  /\ UNCHANGED <<regVars, spoolVars, asked, broker, crashes>>

TimeOut(r) ==
  /\ requester[r].at = "waiting"
  /\ requester[r].deadline <= clock
  /\ PutRequester(r, [requester[r] EXCEPT !.at = "leaving"])
  /\ UNCHANGED <<regVars, spoolVars, asked, broker, crashes>>

\* The finally clause: the request first, then the response.
RemoveRequest(r) ==
  /\ requester[r].at = "leaving"
  /\ requestFiles' = requestFiles \ {r}
  /\ PutRequester(r, [requester[r] EXCEPT !.at = "removing"])
  /\ UNCHANGED <<regVars, responses, asked, broker, crashes>>

RemoveResponse(r) ==
  /\ requester[r].at = "removing"
  /\ WriteResponse(r, NoResponse)
  /\ PutRequester(r, [requester[r] EXCEPT !.at = "gone"])
  /\ UNCHANGED <<regVars, requestFiles, asked, broker, crashes>>

Killed(r) ==
  /\ "killed" \in Faults
  /\ requester[r].at \in {"waiting", "leaving", "removing"}
  /\ PutRequester(r, [requester[r] EXCEPT !.at = "gone"])
  /\ UNCHANGED <<regVars, spoolVars, asked, broker, crashes>>

-----------------------------------------------------------------------------
(* ControlSpool.Import *)

StartImport(b) ==
  /\ broker[b].pc = "idle"
  /\ Go(b, [broker[b] EXCEPT !.paths = requestFiles], "import")
  /\ UNCHANGED <<regVars, spoolVars, requester, asked, crashes>>

\* The demand RequestDemand returns: the first live open one of the tier.
Coalesced(t) ==
  CHOOSE d \in DemandIds :
    /\ demands[d].tier = t /\ Open(demands[d]) /\ demands[d].deadline > clock
    /\ \A e \in DemandIds :
         demands[e].tier = t /\ Open(demands[e]) /\ demands[e].deadline > clock => d <= e

Reply(b, l, r, a) == Go(b, [l EXCEPT !.cur = {r}, !.reply = a], "reply")

\* The request is read and turned into a demand.  (A requester that removes the
\* file in between changes nothing, so both are one step.)  Without a free demand
\* id left in the model the request fails as an error of the registry does.
ImportRequest(b) ==
  LET l == broker[b] IN
  /\ l.pc = "import"
  /\ \E r \in l.paths : LET q == requester[r] IN
     \/ /\ r \notin requestFiles
        /\ Go(b, [l EXCEPT !.paths = @ \ {r}], "import")
        /\ UNCHANGED <<regVars, asked>>
     \/ /\ r \in requestFiles /\ q.deadline <= clock
        /\ Reply(b, l, r, Answer("failed", NoDemandId))
        /\ UNCHANGED <<regVars, asked>>
     \/ /\ r \in requestFiles /\ q.deadline > clock
        /\ "registry" \in Faults \/ (requested = MaxDemands /\ ~Coalesces(q.tier))
        /\ Reply(b, l, r, Answer("failed", NoDemandId))
        /\ UNCHANGED <<regVars, asked>>
     \/ /\ r \in requestFiles /\ q.deadline > clock
        /\ Coalesces(q.tier)
        /\ LET d == Coalesced(q.tier) IN
             /\ Reply(b, l, r, Answer(demands[d].state, d))
             /\ asked' = [asked EXCEPT ![r] = @ \cup {d}]
        /\ UNCHANGED regVars
     \/ LET d == requested + 1 IN
        /\ r \in requestFiles /\ q.deadline > clock
        /\ d \in DemandIds
        /\ RequestDemand(d, q.tier, q.deadline - clock)
        /\ Reply(b, l, r, Answer("pending", d))
        /\ asked' = [asked EXCEPT ![r] = @ \cup {d}]
  /\ UNCHANGED <<spoolVars, requester, crashes>>

Respond(b) ==
  LET l == broker[b] IN
  /\ l.pc = "reply"
  /\ \E r \in l.cur : WriteResponse(r, l.reply)
  /\ Go(b, l, "unspool")
  /\ UNCHANGED <<regVars, requestFiles, requester, asked, crashes>>

Unspool(b) ==
  LET l == broker[b] IN
  /\ l.pc = "unspool"
  /\ requestFiles' = requestFiles \ l.cur
  /\ NextFile(b, l, "import")
  /\ UNCHANGED <<regVars, responses, requester, asked, crashes>>

EndImport(b) ==
  /\ broker[b].pc = "import" /\ broker[b].paths = {}
  /\ Go(b, [broker[b] EXCEPT !.passNow = clock], "records")
  /\ UNCHANGED <<regVars, spoolVars, requester, asked, crashes>>

-----------------------------------------------------------------------------
(* The pass between Import and Sync, and the launchers *)

\* Mutant: without Manager.mu, records are handled while another pass syncs.
HandleRecordAnyTime(b) ==
  /\ broker[b].pc # "idle"
  /\ \E id \in ServiceIds :
       records[id].state = "unhealthy" /\ FailDemandsForService(id, "service_failure")
  /\ UNCHANGED <<spoolVars, requester, asked, broker, crashes>>

\* The demands of a retired record fail, then it is deleted.  (The pass retires a
\* record itself, too: for the spool that is what MarkUnhealthy does.)
HandleRecord(b) ==
  /\ broker[b].pc = "records"
  /\ \E id \in ServiceIds :
       \/ records[id].state = "unhealthy" /\ FailDemandsForService(id, "service_failure")
       \/ /\ records[id].state = "unhealthy"
          /\ ~\E d \in DemandIds : Bound(demands[d], id)
          /\ Delete(id)
  /\ UNCHANGED <<spoolVars, requester, asked, broker, crashes>>

EndRecords(b) ==
  /\ broker[b].pc = "records"
  /\ ExpireDemands
  /\ Go(b, broker[b], "demands")
  /\ UNCHANGED <<spoolVars, requester, asked, crashes>>

\* An open demand waits on its service, gets a healthy one, or fails.
HandleDemand(b) ==
  /\ broker[b].pc = "demands"
  /\ \/ \E d \in DemandIds, id \in ServiceIds :
          /\ Open(demands[d])
          /\ demands[d].service \in {id, NoService}
          /\ records[id].tier = demands[d].tier
          /\ \/ /\ records[id].state = "starting"
                /\ UpdateDemand(d, "launching", id, "none")
             \/ /\ Healthy(records[id], broker[b].passNow)
                /\ UpdateDemand(d, "ready", id, "none")
     \/ \E d \in DemandIds :
          Open(demands[d]) /\ UpdateDemand(d, "failed", NoService, "service_failure")
     \/ \E t \in Tiers :
          /\ issued < MaxServices
          /\ Reserve(issued + 1, t, broker[b].passNow + StartupTimeout)
  /\ UNCHANGED <<spoolVars, requester, asked, broker, crashes>>

LauncherActs ==
  /\ \E id \in ServiceIds :
       \/ LauncherPublish(id) \/ Renew(id)
       \/ "retire" \in Faults /\ MarkUnhealthy(id)
  /\ UNCHANGED <<spoolVars, requester, asked, broker, crashes>>

-----------------------------------------------------------------------------
(* ControlSpool.Sync *)

StartSync(b) ==
  /\ broker[b].pc = "demands"
  /\ Go(b, [broker[b] EXCEPT !.now = clock, !.listed = demands], "list")
  /\ UNCHANGED <<regVars, spoolVars, requester, asked, crashes>>

ListFiles(b) ==
  /\ broker[b].pc = "list"
  /\ Go(b, [broker[b] EXCEPT !.snap = records,
                             !.paths = {r \in Requests : responses[r] # NoResponse}], "files")
  /\ UNCHANGED <<regVars, spoolVars, requester, asked, crashes>>

LeaseStands(l, id) ==
  id # NoService /\ l.snap[id].state = "ready" /\ EffectiveLease(l.snap[id]) > l.now

HasDiagnostic(d) == d.service # NoService

\* The demand of a response in the list of this Sync.
DemandOf(a, l) == IF a.demand = NoDemandId THEN NoDemand ELSE l.listed[a.demand]

\* Mutants: an answer without a demand goes at once, or stays for ever.
ObsoleteAtOnce(a, l) ==
  LET d == DemandOf(a, l) IN d = NoDemand \/ (Terminal(d) /\ d.deadline <= l.now)
ObsoleteWithDemand(a, l) ==
  LET d == DemandOf(a, l) IN d # NoDemand /\ Terminal(d) /\ d.deadline <= l.now

\* The response is removed: its demand is gone or over.
Obsolete(a, l) ==
  LET d == DemandOf(a, l) IN
  IF d = NoDemand
  THEN Credentials(a) \/ l.now - a.updated >= Retention
  ELSE Terminal(d) /\ d.deadline <= l.now

\* The response stays as it is.
Settled(a, l) ==
  LET d == DemandOf(a, l) IN
  \/ d = NoDemand
  \/ /\ a.state = "failed" /\ d.state = "failed"
     /\ a.diagnostic \/ ~HasDiagnostic(d)
  \/ /\ a.state = "ready" /\ d.state = "ready"
     /\ Credentials(a) /\ a.service = d.service /\ LeaseStands(l, d.service)

\* Mutant: the state of the service is reported for that of the demand.
RefreshedFromRecord(a, l) ==
  LET d == DemandOf(a, l) IN
  [Answer(IF d.service = NoService THEN d.state ELSE l.snap[d.service].state, a.demand)
     EXCEPT !.updated = l.now]

\* The response that is written otherwise.
Refreshed(a, l) ==
  LET d == DemandOf(a, l)
      r == l.snap[d.service]
      base == [Answer(d.state, a.demand) EXCEPT !.updated = l.now]
  IN CASE d.state = "ready" /\ LeaseStands(l, d.service) ->
            [base EXCEPT !.service = d.service, !.lease = EffectiveLease(r),
                         !.heartbeat = r.heartbeat]
       [] d.state = "failed" \/ (d.state = "ready" /\ ~LeaseStands(l, d.service)) ->
            [base EXCEPT !.state = "failed", !.diagnostic = HasDiagnostic(d)]
       [] OTHER -> base

\* A response is read; a file that is gone cannot be read and is not there to remove.
InspectResponse(b) ==
  LET l == broker[b] IN
  /\ l.pc = "files"
  /\ \E r \in l.paths : LET a == responses[r] IN
     CASE a = NoResponse -> Go(b, [l EXCEPT !.paths = @ \ {r}], "files")
       [] a # NoResponse /\ Obsolete(a, l) -> Go(b, [l EXCEPT !.cur = {r}], "sweep")
       [] a # NoResponse /\ ~Obsolete(a, l) /\ Settled(a, l) ->
            Go(b, [l EXCEPT !.paths = @ \ {r}], "files")
       [] OTHER -> Go(b, [l EXCEPT !.cur = {r}, !.reply = Refreshed(a, l)], "rewrite")
  /\ UNCHANGED <<regVars, spoolVars, requester, asked, crashes>>

Sweep(b) ==
  LET l == broker[b] IN
  /\ l.pc = "sweep"
  /\ \E r \in l.cur : WriteResponse(r, NoResponse)
  /\ NextFile(b, l, "files")
  /\ UNCHANGED <<regVars, requestFiles, requester, asked, crashes>>

Rewrite(b) ==
  LET l == broker[b] IN
  /\ l.pc = "rewrite"
  /\ \E r \in l.cur : WriteResponse(r, l.reply)
  /\ NextFile(b, l, "files")
  /\ UNCHANGED <<regVars, requestFiles, requester, asked, crashes>>

EndPass(b) ==
  /\ broker[b].pc = "files" /\ broker[b].paths = {}
  /\ PruneExpiredDemands(broker[b].passNow)
  /\ Stop(b)
  /\ UNCHANGED <<spoolVars, requester, asked, crashes>>

Crash(b) ==
  /\ crashes < MaxCrashes
  /\ broker[b].pc # "idle"
  /\ Stop(b)
  /\ crashes' = crashes + 1
  /\ UNCHANGED <<regVars, spoolVars, requester, asked>>

-----------------------------------------------------------------------------
(* The system *)

Init ==
  /\ RegistryInit
  /\ requestFiles = {}
  /\ responses = [r \in Requests |-> NoResponse]
  /\ requester = [r \in Requests |-> NewRequester]
  /\ asked = [r \in Requests |-> {}]
  /\ broker = [b \in Brokers |-> IdleBroker]
  /\ crashes = 0

PassStep(b) ==
  \/ StartImport(b) \/ ImportRequest(b) \/ Respond(b) \/ Unspool(b) \/ EndImport(b)
  \/ EndRecords(b)
  \/ StartSync(b) \/ ListFiles(b) \/ InspectResponse(b) \/ Sweep(b) \/ Rewrite(b)
  \/ EndPass(b)

BrokerStep(b) == PassStep(b) \/ HandleRecord(b) \/ HandleDemand(b) \/ Crash(b)

RequesterLeaves(r) == Poll(r) \/ TimeOut(r) \/ RemoveRequest(r) \/ RemoveResponse(r)

RequesterStep(r) == Ask(r) \/ RequesterLeaves(r) \/ Killed(r)

TimePasses ==
  Tick /\ UNCHANGED <<requestFiles, responses, requester, asked, broker, crashes>>

Next ==
  \/ \E b \in Brokers : BrokerStep(b)
  \/ \E r \in Requests : RequesterStep(r)
  \/ LauncherActs
  \/ TimePasses

Spec == Init /\ [][Next]_vars

\* Passes follow each other, and time goes on.  No requester, launcher or fault has
\* to do anything, and a pass need not find any record or demand to work on.
Fairness ==
  /\ \A b \in Brokers : WF_vars(PassStep(b))
  /\ WF_vars(TimePasses)

FairSpec == Spec /\ Fairness

-----------------------------------------------------------------------------
(* Properties *)

SpoolTypeOK ==
  /\ RegistryTypeOK
  /\ requestFiles \subseteq Requests
  /\ responses \in [Requests -> Response]
  /\ requester \in [Requests ->
       [at : {"new", "waiting", "leaving", "removing", "gone"}, tier : Tiers,
        deadline : Nat, got : ServiceIds \cup {NoService}]]
  /\ asked \in [Requests -> SUBSET DemandIds]
  /\ broker \in [Brokers ->
       [pc : Steps, paths : SUBSET Requests, reply : Response,
        cur : SUBSET Requests, passNow : Nat, now : Nat,
        listed : [DemandIds -> Demand], snap : [ServiceIds -> Record]]]
  /\ crashes \in 0 .. MaxCrashes

\* One broker: whatever dies when, a request that is waited for is in the spool,
\* as a request or as a response, until the demand it was given has expired.
\* (A request that joined an older demand loses its response with that demand.)
RequestIsNotLost ==
  \A r \in Requests :
    /\ requester[r].at = "waiting"
    /\ requester[r].deadline > clock
    => \/ r \in requestFiles
       \/ responses[r] # NoResponse
       \/ \E d \in asked[r] : demands[d].deadline <= clock

\* One broker: a request that is imported again after a crash, or while its
\* requester gives up, joins the demand it already has; it never has two in time.
OneDemandPerRequest ==
  \A r \in Requests : Cardinality({d \in asked[r] : demands[d].deadline > clock}) <= 1

\* One broker: credentials are written only into the response of a request whose
\* own demand is ready on that very service at that moment, although they come
\* from lists taken earlier.
AnswerIsTrue ==
  [][\A r \in Requests : LET a == responses'[r] IN
       Credentials(a) /\ a # responses[r]
       => /\ a.demand \in asked[r]
          /\ demands[a.demand].state = "ready"
          /\ demands[a.demand].service = a.service]_responses

\* One broker: after Sync no response offers credentials of a service the list
\* of this pass shows as retired, gone or lapsed, whatever the response was.
CredentialsMatchList ==
  \A b \in Brokers :
    broker[b].pc = "files" /\ broker[b].paths = {}
    => \A r \in Requests :
         Credentials(responses[r]) => LeaseStands(broker[b], responses[r].service)

\* The response may be old when it is polled: a worker may take a service that was
\* retired since, which the service then refuses, but never one whose lease ran out.
AcceptedLeaseIsLive ==
  [][\A r \in Requests : LET id == requester'[r].got IN
       /\ id # NoService
       /\ requester[r].got = NoService
       /\ records[id].state = "ready"
       => EffectiveLease(records[id]) > clock]_requester

\* "Writing them on every heartbeat creates a race that could recreate a credential
\* file after its consumer removes it.  Rewrite only when terminal state changes."
\* (control_spool.go): credentials do not appear for a requester that has left.
CredentialIsNotRecreated ==
  [][\A r \in Requests :
       requester[r].at = "gone" /\ ~Credentials(responses[r])
       => ~Credentials(responses'[r])]_responses

\* Nothing stays in the spool for ever: the files of a worker that is gone, however
\* it ended, are removed.  (A response written so late that its retention ends after
\* the last instant of the model is left out.)
FilesAreSwept ==
  \A r \in Requests :
    LET Left == r \in requestFiles \/ responses[r] # NoResponse
    IN requester[r].at = "gone" ~> ~Left \/ responses[r].updated + Retention > MaxClock
=============================================================================
