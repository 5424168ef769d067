----------------------------- MODULE GpuRegistry -----------------------------
(***************************************************************************)
(* The cluster-visible GPU service registry (broker/pkg/gpuservice).       *)
(*                                                                         *)
(* Lease records and scale demands live in one JSON file; every operation  *)
(* is one read-modify-write of that file under a flock, taken by the       *)
(* broker processes (FileRegistry, Go) and by the service launchers on the *)
(* GPU nodes (RegistryPublisher, Python) alike.  An operation is therefore *)
(* one atomic action here, whoever calls it.                               *)
(*                                                                         *)
(* RegistryNext lets any client call any operation at any time, with the   *)
(* arguments the code passes.  It is the contract that GpuControlPlane,    *)
(* where the reconciler and the launchers decide who calls what when, is   *)
(* shown to implement.                                                     *)
(*                                                                         *)
(* Service and demand ids are random in the code and never reused; they    *)
(* are numbered in order of creation here, so the order of ids is the      *)
(* order of CreatedAt and RequestedAt.                                     *)
(***************************************************************************)
EXTENDS Integers, FiniteSets

CONSTANTS
  Tiers,            \* the configured tiers
  WarmTiers,        \* p40-retrieval and p40-synthesis: leases renew for ever
  MinReplicas,      \* Profile.MinReplicas, a function on Tiers
  MaxReplicas,      \* Profile.MaxReplicas, a function on Tiers
  LeaseDuration,    \* Timing.LeaseDuration, in clock ticks
  StartupTimeout,   \* Timing.StartupTimeout
  HeartbeatTimeout, \* Timing.HeartbeatTimeout
  DemandTTL,        \* the longest DemandRequest.TTL
  MaxServices,      \* bound: how many services are ever reserved
  MaxDemands,       \* bound: how many demands are ever recorded
  MaxClock          \* bound: the last instant of the model's clock

\* Profile.Validate and NewManager refuse any other configuration.
ASSUME ConfigAssumption ==
  /\ Tiers # {}
  /\ WarmTiers \subseteq Tiers
  /\ MinReplicas \in [Tiers -> Nat]
  /\ MaxReplicas \in [Tiers -> Nat \ {0}]
  /\ \A t \in Tiers : MinReplicas[t] <= MaxReplicas[t]
  /\ \A t \in Tiers \ WarmTiers : MinReplicas[t] = 0 /\ MaxReplicas[t] = 1
  /\ LeaseDuration \in Nat \ {0}
  /\ StartupTimeout \in Nat \ {0}
  /\ HeartbeatTimeout \in Nat \ {0}
  /\ DemandTTL \in Nat \ {0}

ASSUME BoundAssumption ==
  /\ MaxServices \in Nat
  /\ MaxDemands \in Nat
  /\ MaxClock \in Nat

VARIABLES
  clock,     \* wall-clock time, shared by every host
  records,   \* registryFile.Records
  demands,   \* registryFile.Demands
  issued,    \* how many service ids Reserve has handed out
  requested  \* how many demand ids RequestDemand has handed out

regVars == <<clock, records, demands, issued, requested>>

-----------------------------------------------------------------------------
(* Records and demands *)

ServiceIds == 1 .. MaxServices
DemandIds == 1 .. MaxDemands
NoService == 0
ZeroTime == 0

\* FailureCategory, without the ones only the synthesis router produces.
Categories == {"none", "availability", "timeout", "service_failure", "oom",
               "authentication", "queue_delay", "lease_expired",
               "heartbeat_lost", "startup_timeout", "endpoint_unhealthy"}

\* Lease-record states; "absent" stands for an id no record of the file has.
Record ==
  [state : {"absent", "starting", "ready", "unhealthy"},
   tier : Tiers,
   job : BOOLEAN,          \* SlurmJobID is set
   startupDeadline : Nat,
   heartbeat : Nat,
   lease : Nat,            \* LeaseExpiresAt
   absolute : Nat,         \* AbsoluteLeaseExpiresAt, ZeroTime when renewable
   healthError : BOOLEAN,  \* HealthError is not empty
   category : Categories,
   cancelRequested : BOOLEAN]

Absent(t) ==
  [state |-> "absent", tier |-> t, job |-> FALSE, startupDeadline |-> ZeroTime,
   heartbeat |-> ZeroTime, lease |-> ZeroTime, absolute |-> ZeroTime,
   healthError |-> FALSE, category |-> "none", cancelRequested |-> FALSE]

NoRecord == Absent(CHOOSE t \in Tiers : TRUE)

Demand ==
  [state : {"absent", "pending", "launching", "ready", "failed"},
   tier : Tiers,
   service : ServiceIds \cup {NoService},
   category : Categories,
   deadline : Nat]

NoDemand ==
  [state |-> "absent", tier |-> CHOOSE t \in Tiers : TRUE,
   service |-> NoService, category |-> "none", deadline |-> ZeroTime]

Known(id) == records[id].state # "absent"

\* A category argument of FailureNone is recorded as FailureService.
OrServiceFailure(c) == IF c = "none" THEN "service_failure" ELSE c

\* Mutant: the absolute expiry of a scale-from-zero lease is ignored.
UnboundedLeaseExpiry(r, candidate) == candidate

BoundedLeaseExpiry(r, candidate) ==
  IF r.absolute # ZeroTime /\ r.absolute < candidate THEN r.absolute ELSE candidate

EffectiveLease(r) == BoundedLeaseExpiry(r, r.lease)

Alive(r, now) ==
  /\ r.state \in {"starting", "ready"}
  /\ EffectiveLease(r) > now

Routable(r, now) ==
  /\ r.state = "ready"
  /\ r.heartbeat # ZeroTime
  /\ EffectiveLease(r) > now
  /\ now - r.heartbeat <= HeartbeatTimeout

\* What Endpoint, Capabilities and reconcileDemands call healthy.
Healthy(r, now) == Routable(r, now) /\ ~r.healthError

\* The records Reserve and recordsForTier count against the replica limits.
RecordsForTier(t, now) ==
  {id \in ServiceIds : records[id].tier = t /\ Alive(records[id], now)}

\* Mutant: a launching demand no longer counts as open.
OpenWhilePending(d) == d.state = "pending"

Open(d) == d.state \in {"pending", "launching"}
Terminal(d) == d.state \in {"ready", "failed"}
Bound(d, id) == d.service = id /\ d.state \in {"launching", "ready"}

-----------------------------------------------------------------------------
(* Operations on lease records *)

HasCapacity(t) == Cardinality(RecordsForTier(t, clock)) < MaxReplicas[t]

NewRecord(t, deadline) ==
  [Absent(t) EXCEPT
     !.state = "starting",
     !.startupDeadline = deadline,
     !.lease = clock + LeaseDuration,
     !.absolute = IF t \in WarmTiers THEN ZeroTime ELSE clock + LeaseDuration]

Reserve(id, t, deadline) ==
  /\ id = issued + 1
  /\ HasCapacity(t)
  /\ issued' = id
  /\ records' = [records EXCEPT ![id] = NewRecord(t, deadline)]
  /\ UNCHANGED <<clock, demands, requested>>

PutRecord(id, r) ==
  /\ Known(id)
  /\ records' = [records EXCEPT ![id] = r]
  /\ UNCHANGED <<clock, demands, issued, requested>>

Published(r) ==
  [r EXCEPT !.state = "ready", !.job = TRUE, !.heartbeat = clock,
            !.lease = BoundedLeaseExpiry(r, clock + LeaseDuration),
            !.healthError = FALSE, !.category = "none"]

\* FileRegistry.Publish, the Go operation.
Publish(id) ==
  /\ records[id].state # "unhealthy"
  /\ PutRecord(id, Published(records[id]))

\* RegistryPublisher.publish, the one the launchers call.
Publishable(id) ==
  /\ records[id].state = "starting"
  /\ records[id].startupDeadline > clock

LauncherPublish(id) ==
  /\ Publishable(id)
  /\ PutRecord(id, Published(records[id]))

\* Mutant: a renewal revives whatever the record has become.
RenewRevives(id) ==
  PutRecord(id, [records[id] EXCEPT
    !.state = "ready", !.heartbeat = clock,
    !.lease = BoundedLeaseExpiry(records[id], clock + LeaseDuration)])

\* FileRegistry.Renew and RegistryPublisher.renew agree.
Renew(id) ==
  /\ records[id].state = "ready"
  /\ PutRecord(id, [records[id] EXCEPT
       !.heartbeat = clock,
       !.lease = BoundedLeaseExpiry(records[id], clock + LeaseDuration)])

\* RegistryPublisher.mark_unhealthy: whatever state the record is in.
MarkUnhealthy(id) ==
  PutRecord(id, [records[id] EXCEPT
    !.state = "unhealthy", !.healthError = TRUE,
    !.category = "service_failure", !.lease = clock])

Reportable == {"availability", "timeout", "service_failure", "authentication",
               "oom", "heartbeat_lost", "endpoint_unhealthy"}

\* A report about a record that is gone, unhealthy or not ready changes nothing.
ReportServiceFailure(id, c) ==
  /\ c \in Reportable
  /\ records[id].tier \in WarmTiers
  /\ records[id].state = "ready"
  /\ PutRecord(id, [records[id] EXCEPT
       !.state = "unhealthy", !.healthError = TRUE, !.category = c,
       !.lease = clock, !.cancelRequested = FALSE])

AttachJob(id) == PutRecord(id, [records[id] EXCEPT !.job = TRUE])

(* UpdateControl, one operator per set of fields that a caller gives it. *)

RetireUpdate(id, c, now, cancelDone) ==
  PutRecord(id, [records[id] EXCEPT
    !.state = "unhealthy", !.healthError = TRUE, !.category = c,
    !.lease = now, !.cancelRequested = cancelDone])

HealthUpdate(id, failed) ==
  PutRecord(id, [records[id] EXCEPT !.healthError = failed])

TerminalUpdate(id, c) ==
  PutRecord(id, [records[id] EXCEPT
    !.category = c, !.healthError = TRUE, !.cancelRequested = TRUE])

CancelUpdate(id) ==
  PutRecord(id, [records[id] EXCEPT !.cancelRequested = TRUE])

Delete(id) == PutRecord(id, NoRecord)

-----------------------------------------------------------------------------
(* Operations on demands *)

PutDemands(f) ==
  /\ demands' = f
  /\ UNCHANGED <<clock, records, issued, requested>>

\* A live open demand of the tier absorbs the request.
Coalesces(t) ==
  \E d \in DemandIds :
    /\ demands[d].tier = t
    /\ Open(demands[d])
    /\ demands[d].deadline > clock

RequestDemand(d, t, ttl) ==
  /\ d = requested + 1
  /\ ~Coalesces(t)
  /\ requested' = d
  /\ demands' = [demands EXCEPT ![d] =
       [state |-> "pending", tier |-> t, service |-> NoService,
        category |-> "none", deadline |-> clock + ttl]]
  /\ UNCHANGED <<clock, records, issued>>

\* The write PendingDemands makes before it returns the open demands.
Expired(d) ==
  IF Open(d) /\ d.deadline <= clock
  THEN [d EXCEPT !.state = "failed", !.category = "queue_delay"]
  ELSE d

ExpireDemands == PutDemands([d \in DemandIds |-> Expired(demands[d])])

\* No check of the demand's present state.
UpdateDemand(d, state, id, c) ==
  LET old == demands[d] IN
  /\ old.state # "absent"
  /\ PutDemands([demands EXCEPT ![d] =
       [old EXCEPT !.state = state,
                   !.service = IF id = NoService THEN old.service ELSE id,
                   !.category = IF c = "none" THEN old.category ELSE c]])

FailDemandsForService(id, c) ==
  PutDemands([d \in DemandIds |->
    IF Bound(demands[d], id)
    THEN [demands[d] EXCEPT !.state = "failed", !.category = OrServiceFailure(c)]
    ELSE demands[d]])

PruneExpiredDemands(before) ==
  PutDemands([d \in DemandIds |->
    IF Terminal(demands[d]) /\ demands[d].deadline <= before
    THEN NoDemand ELSE demands[d]])

-----------------------------------------------------------------------------
(* The registry as a component of its own *)

RegistryInit ==
  /\ clock = 1
  /\ records = [id \in ServiceIds |-> NoRecord]
  /\ demands = [d \in DemandIds |-> NoDemand]
  /\ issued = 0
  /\ requested = 0

Tick ==
  /\ clock < MaxClock
  /\ clock' = clock + 1
  /\ UNCHANGED <<records, demands, issued, requested>>

RecordStep(id) ==
  \/ \E t \in Tiers, passed \in 1 .. clock : Reserve(id, t, passed + StartupTimeout)
  \/ Publish(id)
  \/ LauncherPublish(id)
  \/ Renew(id)
  \/ MarkUnhealthy(id)
  \/ \E c \in Reportable : ReportServiceFailure(id, c)
  \/ AttachJob(id)
  \/ \E c \in Categories, now \in 1 .. clock, done \in BOOLEAN :
       RetireUpdate(id, c, now, done)
  \/ \E failed \in BOOLEAN : HealthUpdate(id, failed)
  \/ \E c \in Categories : TerminalUpdate(id, c)
  \/ CancelUpdate(id)
  \/ Delete(id)

DemandStep(d) ==
  \/ \E t \in Tiers, ttl \in 1 .. DemandTTL : RequestDemand(d, t, ttl)
  \/ \E state \in {"launching", "ready", "failed"},
        id \in ServiceIds \cup {NoService}, c \in Categories :
       UpdateDemand(d, state, id, c)

RegistryNext ==
  \/ Tick
  \/ \E id \in ServiceIds : RecordStep(id)
  \/ \E d \in DemandIds : DemandStep(d)
  \/ ExpireDemands
  \/ \E id \in ServiceIds, c \in Categories : FailDemandsForService(id, c)
  \/ \E before \in 1 .. clock : PruneExpiredDemands(before)

RegistrySpec == RegistryInit /\ [][RegistryNext]_regVars

-----------------------------------------------------------------------------
(* Properties *)

\* Every variable has its type; ids above the counters are unused.
RegistryTypeOK ==
  /\ clock \in Nat \ {0}
  /\ records \in [ServiceIds -> Record]
  /\ demands \in [DemandIds -> Demand]
  /\ issued \in 0 .. MaxServices
  /\ requested \in 0 .. MaxDemands

\* Reserve checks the limit once, when it adds a record.  For a scale-from-zero
\* tier that is enough whatever the other clients of the registry do later: no
\* publication, renewal or health update brings a lapsed or retired lease back,
\* so the live leases of the tier never exceed its maximum.
ScaleZeroReplicaLimit ==
  \A t \in Tiers \ WarmTiers : Cardinality(RecordsForTier(t, clock)) <= MaxReplicas[t]

\* A lease that was retired, or whose scale-from-zero lease has lapsed, stays
\* out of routing: no later publish or renew of its launcher (which may have
\* stalled for any time) makes the record live again.
LapsedStaysLapsed ==
  [][\A id \in ServiceIds :
       LET r == records[id] IN
       /\ Known(id)
       /\ r.tier \notin WarmTiers \/ r.state = "unhealthy"
       /\ ~Alive(r, clock)
       => ~Alive(records'[id], clock')]_regVars

\* The live leases of the tiers that scale from zero are the permits that are out.
Capacity ==
  INSTANCE GpuCapacity WITH
    Tiers <- Tiers \ WarmTiers, Limit <- MaxReplicas,
    held <- [t \in Tiers \ WarmTiers |-> RecordsForTier(t, clock)]

\* For tiers that scale from zero the registry is a semaphore: Reserve takes a
\* permit within the limit, everything else, the passing of time included, only
\* gives permits back, and no permit is ever out a second time.
CapacityIsKept == Capacity!Spec
=============================================================================
