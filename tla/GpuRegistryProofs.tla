-------------------------- MODULE GpuRegistryProofs --------------------------
(***************************************************************************)
(* Proofs about the GPU service registry, for any configuration, any       *)
(* number of clients and any interleaving of their operations.             *)
(*                                                                         *)
(* The lease of a record that is starting or ready and belongs to a        *)
(* scale-from-zero tier is its absolute expiry (AbsoluteLease): Reserve    *)
(* makes them equal and every later extension is cut to it.  Such a record *)
(* is therefore alive until a fixed instant and never again, and the only  *)
(* step that adds a live record is Reserve, which checks the limit.        *)
(***************************************************************************)
EXTENDS GpuRegistry, FiniteSetTheorems, TLAPS

Managed == {"starting", "ready"}

\* Ids are handed out in order, so an id above the counter has no record.
FreshIds == \A id \in ServiceIds : id > issued => ~Known(id)

AbsoluteLease ==
  \A id \in ServiceIds : LET r == records[id] IN
    r.state \in Managed /\ r.tier \notin WarmTiers
    => /\ r.absolute # ZeroTime
       /\ r.lease = r.absolute
       /\ r.absolute <= clock + LeaseDuration

LeaseInv == RegistryTypeOK /\ FreshIds /\ AbsoluteLease

\* What an operation on an existing record may turn it into: nothing it does
\* moves the tier or the absolute expiry, leaves the unhealthy state, or
\* extends the lease otherwise than Publish and Renew do.
Allowed(old, new) ==
  \/ new = NoRecord
  \/ /\ new.tier = old.tier
     /\ new.absolute = old.absolute
     /\ \/ new.state = "unhealthy"
        \/ new.state = old.state /\ new.lease = old.lease
        \/ /\ old.state \in Managed
           /\ new.state = "ready"
           /\ new.lease = BoundedLeaseExpiry(old, clock + LeaseDuration)

-----------------------------------------------------------------------------
(* Types of the values the operations build *)

\* The value for an id without a record is itself a record.
LEMMA NoRecordType == NoRecord \in Record
  BY ConfigAssumption DEF NoRecord, Absent, Record, Categories, ZeroTime

\* What Reserve writes is a record.
LEMMA NewRecordType ==
  ASSUME NEW t \in Tiers, NEW deadline \in Nat, clock \in Nat
  PROVE  NewRecord(t, deadline) \in Record
  <1>1. Absent(t) \in Record
    BY DEF Absent, Record, Categories, ZeroTime
  <1>2. clock + LeaseDuration \in Nat
    BY ConfigAssumption
  <1>3. CASE t \in WarmTiers
    BY <1>1, <1>2, <1>3 DEF NewRecord, Record, ZeroTime
  <1>4. CASE t \notin WarmTiers
    BY <1>1, <1>2, <1>4 DEF NewRecord, Record
  <1>. QED  BY <1>3, <1>4

\* A bounded lease is a time.
LEMMA BoundedType ==
  ASSUME NEW r \in Record, NEW candidate \in Nat
  PROVE  BoundedLeaseExpiry(r, candidate) \in Nat
  BY DEF BoundedLeaseExpiry, Record, ZeroTime

\* Publication keeps the absolute expiry, and never lengthens a lease beyond
\* it.
LEMMA PublishedAllowed ==
  ASSUME NEW r \in Record, clock \in Nat, r.state \in Managed
  PROVE  Published(r) \in Record /\ Allowed(r, Published(r))
  <1>1. BoundedLeaseExpiry(r, clock + LeaseDuration) \in Nat
    BY BoundedType, ConfigAssumption
  <1>. QED  BY <1>1 DEF Published, Record, Categories, Allowed, Managed

\* So does the renewal of a ready record.
LEMMA RenewedAllowed ==
  ASSUME NEW r \in Record, clock \in Nat, r.state = "ready",
         NEW new, new = [r EXCEPT !.heartbeat = clock,
                                  !.lease = BoundedLeaseExpiry(r, clock + LeaseDuration)]
  PROVE  new \in Record /\ Allowed(r, new)
  <1>1. BoundedLeaseExpiry(r, clock + LeaseDuration) \in Nat
    BY BoundedType, ConfigAssumption
  <1>. QED  BY <1>1 DEF Record, Allowed, Managed

\* Retirement ends the lease or leaves it, whatever else it notes.
LEMMA RetiredAllowed ==
  ASSUME NEW r \in Record, NEW c \in Categories, NEW now \in Nat, NEW done \in BOOLEAN,
         NEW new, \/ new = [r EXCEPT !.state = "unhealthy", !.healthError = TRUE,
                                     !.category = c, !.lease = now,
                                     !.cancelRequested = done]
                  \/ new = [r EXCEPT !.state = "unhealthy", !.healthError = TRUE,
                                     !.category = c, !.lease = now]
  PROVE  new \in Record /\ Allowed(r, new)
  BY DEF Record, Allowed

\* The notes a pass or a failure report leaves on a record do not touch its
\* lease.
LEMMA NotedAllowed ==
  ASSUME NEW r \in Record, NEW c \in Categories, NEW failed \in BOOLEAN,
         NEW new, \/ new = [r EXCEPT !.job = TRUE]
                  \/ new = [r EXCEPT !.healthError = failed]
                  \/ new = [r EXCEPT !.category = c, !.healthError = TRUE,
                                     !.cancelRequested = TRUE]
                  \/ new = [r EXCEPT !.cancelRequested = TRUE]
  PROVE  new \in Record /\ Allowed(r, new)
  BY DEF Record, Allowed

-----------------------------------------------------------------------------
(* Every step is a reservation, an allowed change of one record, a step of *)
(* the demands, or the passing of time                                     *)

Put(id, r) ==
  /\ r \in Record
  /\ Allowed(records[id], r)
  /\ PutRecord(id, r)

DemandsOnly ==
  /\ demands' \in [DemandIds -> Demand]
  /\ requested' \in 0 .. MaxDemands
  /\ UNCHANGED <<clock, records, issued>>

\* A call of the registry about one record reserves it, or replaces it within
\* what Allowed permits.
LEMMA RecordStepIsPut ==
  ASSUME RegistryTypeOK, NEW id \in ServiceIds, RecordStep(id)
  PROVE  \/ \E t \in Tiers, deadline \in Nat : Reserve(id, t, deadline)
         \/ \E r \in Record : Put(id, r)
  <1>. /\ clock \in Nat /\ records[id] \in Record
       /\ "service_failure" \in Categories /\ Reportable \subseteq Categories
    BY DEF RegistryTypeOK, Categories, Reportable
  <1>1. ASSUME NEW t \in Tiers, NEW passed \in 1 .. clock,
               Reserve(id, t, passed + StartupTimeout)
        PROVE  \E d \in Nat : Reserve(id, t, d)
    <2>1. passed + StartupTimeout \in Nat
      BY ConfigAssumption
    <2>. QED  BY <1>1, <2>1
  <1>2. CASE Publish(id) \/ LauncherPublish(id)
    <2>1. records[id].state \in Managed /\ PutRecord(id, Published(records[id]))
      BY <1>2 DEF Publish, LauncherPublish, Publishable, PutRecord, Known, Managed, Record
    <2>. QED  BY <2>1, PublishedAllowed DEF Put
  <1>3. CASE Renew(id)
    <2>. DEFINE new == [records[id] EXCEPT
           !.heartbeat = clock,
           !.lease = BoundedLeaseExpiry(records[id], clock + LeaseDuration)]
    <2>1. records[id].state = "ready" /\ PutRecord(id, new)
      BY <1>3 DEF Renew
    <2>2. new \in Record /\ Allowed(records[id], new)
      BY <2>1, RenewedAllowed
    <2>3. Put(id, new)
      BY <2>1, <2>2 DEF Put
    <2>. QED  BY <2>2, <2>3
  <1>4. CASE MarkUnhealthy(id)
    BY <1>4, RetiredAllowed DEF MarkUnhealthy, Put
  <1>5. ASSUME NEW c \in Reportable, ReportServiceFailure(id, c)
        PROVE  \E r \in Record : Put(id, r)
    BY <1>5, RetiredAllowed DEF ReportServiceFailure, Put
  <1>6. CASE AttachJob(id)
    BY <1>6, NotedAllowed DEF AttachJob, Put
  <1>7. ASSUME NEW c \in Categories, NEW now \in 1 .. clock, NEW done \in BOOLEAN,
               RetireUpdate(id, c, now, done)
        PROVE  \E r \in Record : Put(id, r)
    <2>. now \in Nat
      OBVIOUS
    <2>. DEFINE new == [records[id] EXCEPT
           !.state = "unhealthy", !.healthError = TRUE, !.category = c,
           !.lease = now, !.cancelRequested = done]
    <2>1. PutRecord(id, new)
      BY <1>7 DEF RetireUpdate
    <2>2. new \in Record /\ Allowed(records[id], new)
      BY RetiredAllowed
    <2>. QED  BY <2>1, <2>2 DEF Put
  <1>8. ASSUME NEW failed \in BOOLEAN, HealthUpdate(id, failed)
        PROVE  \E r \in Record : Put(id, r)
    BY <1>8, NotedAllowed DEF HealthUpdate, Put
  <1>9. ASSUME NEW c \in Categories, TerminalUpdate(id, c)
        PROVE  \E r \in Record : Put(id, r)
    BY <1>9, NotedAllowed DEF TerminalUpdate, Put
  <1>10. CASE CancelUpdate(id)
    BY <1>10, NotedAllowed DEF CancelUpdate, Put
  <1>11. CASE Delete(id)
    BY <1>11, NoRecordType DEF Delete, Put, Allowed
  <1>. QED
    BY <1>1, <1>2, <1>3, <1>4, <1>5, <1>6, <1>7, <1>8, <1>9, <1>10, <1>11 DEF RecordStep

\* A call about one demand leaves records, counter and clock alone.
LEMMA DemandStepIsDemandsOnly ==
  ASSUME RegistryTypeOK, NEW d \in DemandIds, DemandStep(d)
  PROVE  DemandsOnly
  <1>. /\ clock \in Nat /\ requested \in 0 .. MaxDemands
       /\ demands \in [DemandIds -> Demand]
    BY DEF RegistryTypeOK
  <1>1. ASSUME NEW t \in Tiers, NEW ttl \in 1 .. DemandTTL, RequestDemand(d, t, ttl)
        PROVE  DemandsOnly
    <2>1. [state |-> "pending", tier |-> t, service |-> NoService,
           category |-> "none", deadline |-> clock + ttl] \in Demand
      BY ConfigAssumption DEF Demand, Categories, NoService
    <2>2. requested' \in 0 .. MaxDemands
      BY <1>1, BoundAssumption DEF RequestDemand, DemandIds
    <2>. QED  BY <1>1, <2>1, <2>2 DEF RequestDemand, DemandsOnly
  <1>2. ASSUME NEW state \in {"launching", "ready", "failed"},
               NEW id \in ServiceIds \cup {NoService}, NEW c \in Categories,
               UpdateDemand(d, state, id, c)
        PROVE  DemandsOnly
    <2>. DEFINE new == [demands[d] EXCEPT
                          !.state = state,
                          !.service = IF id = NoService THEN demands[d].service ELSE id,
                          !.category = IF c = "none" THEN demands[d].category ELSE c]
    <2>1. demands[d] \in Demand
      OBVIOUS
    <2>2. new \in Demand
      BY <2>1 DEF Demand
    <2>3. PutDemands([demands EXCEPT ![d] = new])
      BY <1>2 DEF UpdateDemand
    <2>. HIDE DEF new
    <2>. QED  BY <2>2, <2>3 DEF PutDemands, DemandsOnly
  <1>. QED  BY <1>1, <1>2 DEF DemandStep

\* So do the calls about many demands.
LEMMA DemandSweepIsDemandsOnly ==
  ASSUME RegistryTypeOK,
         \/ ExpireDemands
         \/ \E id \in ServiceIds, c \in Categories : FailDemandsForService(id, c)
         \/ \E before \in 1 .. clock : PruneExpiredDemands(before)
  PROVE  DemandsOnly
  <1>. /\ requested \in 0 .. MaxDemands
       /\ demands \in [DemandIds -> Demand]
    BY DEF RegistryTypeOK
  <1>1. CASE ExpireDemands
    <2>1. \A d \in Demand : Expired(d) \in Demand
      BY DEF Expired, Demand, Categories
    <2>. QED  BY <1>1, <2>1 DEF ExpireDemands, PutDemands, DemandsOnly
  <1>2. ASSUME NEW id \in ServiceIds, NEW c \in Categories, FailDemandsForService(id, c)
        PROVE  DemandsOnly
    <2>1. \A d \in Demand :
            [d EXCEPT !.state = "failed", !.category = OrServiceFailure(c)] \in Demand
      BY DEF Demand, OrServiceFailure, Categories
    <2>. QED  BY <1>2, <2>1 DEF FailDemandsForService, PutDemands, DemandsOnly
  <1>3. ASSUME NEW before \in 1 .. clock, PruneExpiredDemands(before)
        PROVE  DemandsOnly
    <2>1. NoDemand \in Demand
      BY ConfigAssumption DEF NoDemand, Demand, Categories, ZeroTime, NoService
    <2>. QED  BY <1>3, <2>1 DEF PruneExpiredDemands, PutDemands, DemandsOnly
  <1>. QED  BY <1>1, <1>2, <1>3

\* Every step of the registry is one of four kinds; the proofs below have a
\* case for each.
LEMMA StepKinds ==
  ASSUME RegistryTypeOK, [RegistryNext]_regVars
  PROVE  \/ \E id \in ServiceIds, t \in Tiers, deadline \in Nat : Reserve(id, t, deadline)
         \/ \E id \in ServiceIds, r \in Record : Put(id, r)
         \/ DemandsOnly
         \/ Tick
  <1>1. CASE UNCHANGED regVars
    BY <1>1 DEF regVars, RegistryTypeOK, DemandsOnly
  <1>. QED
    BY <1>1, RecordStepIsPut, DemandStepIsDemandsOnly, DemandSweepIsDemandsOnly
    DEF RegistryNext

\* Types are kept by every operation, whatever else holds.
LEMMA NextRegistryType ==
  ASSUME RegistryTypeOK, [RegistryNext]_regVars
  PROVE  RegistryTypeOK'
  <1>1. ASSUME NEW id \in ServiceIds, NEW t \in Tiers, NEW deadline \in Nat,
               Reserve(id, t, deadline)
        PROVE  RegistryTypeOK'
    <2>1. NewRecord(t, deadline) \in Record
      BY NewRecordType DEF RegistryTypeOK
    <2>2. issued' \in 0 .. MaxServices
      BY <1>1, BoundAssumption DEF Reserve, ServiceIds
    <2>. QED  BY <1>1, <2>1, <2>2 DEF Reserve, RegistryTypeOK
  <1>2. ASSUME NEW id \in ServiceIds, NEW r \in Record, Put(id, r)
        PROVE  RegistryTypeOK'
    BY <1>2 DEF Put, PutRecord, RegistryTypeOK
  <1>3. CASE DemandsOnly
    BY <1>3 DEF DemandsOnly, RegistryTypeOK
  <1>4. CASE Tick
    BY <1>4 DEF Tick, RegistryTypeOK
  <1>. QED  BY <1>1, <1>2, <1>3, <1>4, StepKinds

-----------------------------------------------------------------------------
(* The inductive invariant *)

\* The empty registry satisfies the invariant.
LEMMA InitLeaseInv == RegistryInit => LeaseInv
  <1>. SUFFICES ASSUME RegistryInit PROVE LeaseInv
    OBVIOUS
  <1>1. RegistryTypeOK
    BY NoRecordType, ConfigAssumption, BoundAssumption
    DEF RegistryInit, RegistryTypeOK, NoDemand, Demand, Categories, ZeroTime, NoService
  <1>2. FreshIds /\ AbsoluteLease
    BY DEF RegistryInit, FreshIds, AbsoluteLease, Known, NoRecord, Absent, Managed
  <1>. QED  BY <1>1, <1>2 DEF LeaseInv

\* A reservation writes a lease that equals its absolute expiry.
LEMMA ReserveLeaseInv ==
  ASSUME LeaseInv, NEW id \in ServiceIds, NEW t \in Tiers, NEW deadline \in Nat,
         Reserve(id, t, deadline)
  PROVE  LeaseInv'
  <1>. DEFINE r == NewRecord(t, deadline)
  <1>. /\ clock \in Nat \ {0} /\ LeaseDuration \in Nat \ {0}
       /\ clock' = clock /\ records' = [records EXCEPT ![id] = r] /\ issued' = id
       /\ id = issued + 1
    BY ConfigAssumption DEF LeaseInv, RegistryTypeOK, Reserve
  <1>1. r \in Record
    BY NewRecordType
  <1>2. RegistryTypeOK'
    BY <1>1, BoundAssumption DEF LeaseInv, RegistryTypeOK, Reserve, ServiceIds
  <1>3. FreshIds'
    BY BoundAssumption DEF LeaseInv, RegistryTypeOK, FreshIds, Known, ServiceIds
  <1>4. r.tier \notin WarmTiers
        => /\ r.absolute = clock + LeaseDuration
           /\ r.lease = clock + LeaseDuration
    BY DEF NewRecord, Absent
  <1>. HIDE DEF r
  <1>5. AbsoluteLease'
    BY <1>1, <1>4 DEF LeaseInv, RegistryTypeOK, AbsoluteLease, ZeroTime, Record
  <1>. QED  BY <1>2, <1>3, <1>5 DEF LeaseInv

\* An allowed change of a record keeps its lease within bounds.
LEMMA PutLeaseInv ==
  ASSUME LeaseInv, NEW id \in ServiceIds, NEW r \in Record, Put(id, r)
  PROVE  LeaseInv'
  <1>. /\ clock \in Nat \ {0} /\ LeaseDuration \in Nat \ {0}
       /\ records \in [ServiceIds -> Record]
       /\ clock' = clock /\ issued' = issued
       /\ records' = [records EXCEPT ![id] = r]
       /\ Allowed(records[id], r)
    BY ConfigAssumption DEF LeaseInv, RegistryTypeOK, Put, PutRecord
  <1>1. RegistryTypeOK'
    BY DEF LeaseInv, RegistryTypeOK, Put, PutRecord
  <1>2. FreshIds'
    BY DEF LeaseInv, FreshIds, Known, Put, PutRecord, ServiceIds
  <1>3. r.state \in Managed /\ r.tier \notin WarmTiers
        => /\ r.absolute # ZeroTime
           /\ r.lease = r.absolute
           /\ r.absolute <= clock + LeaseDuration
    <2>. SUFFICES ASSUME r.state \in Managed, r.tier \notin WarmTiers
                  PROVE  /\ r.absolute # ZeroTime
                         /\ r.lease = r.absolute
                         /\ r.absolute <= clock + LeaseDuration
      OBVIOUS
    <2>1. r # NoRecord
      BY DEF NoRecord, Absent, Managed
    <2>2. r.tier = records[id].tier /\ r.absolute = records[id].absolute
      BY <2>1 DEF Allowed
    <2>3. records[id].state \in Managed
      BY <2>1 DEF Allowed, Managed
    <2>4. /\ records[id].absolute # ZeroTime
          /\ records[id].lease = records[id].absolute
          /\ records[id].absolute <= clock + LeaseDuration
      BY <2>2, <2>3 DEF LeaseInv, AbsoluteLease
    <2>5. \/ r.lease = records[id].lease
          \/ r.lease = BoundedLeaseExpiry(records[id], clock + LeaseDuration)
      BY <2>1 DEF Allowed, Managed
    <2>6. records[id].absolute \in Nat
      BY DEF Record
    <2>. QED  BY <2>2, <2>4, <2>5, <2>6 DEF BoundedLeaseExpiry
  <1>4. AbsoluteLease'
    BY <1>3 DEF LeaseInv, AbsoluteLease
  <1>. QED  BY <1>1, <1>2, <1>4 DEF LeaseInv

\* Every step of the registry keeps the invariant.
LEMMA NextLeaseInv ==
  ASSUME LeaseInv, [RegistryNext]_regVars
  PROVE  LeaseInv'
  <1>1. CASE DemandsOnly
    BY <1>1 DEF DemandsOnly, LeaseInv, RegistryTypeOK, FreshIds, AbsoluteLease, Known
  <1>2. CASE Tick
    <2>1. clock \in Nat \ {0} /\ clock' = clock + 1
      BY <1>2 DEF Tick, LeaseInv, RegistryTypeOK
    <2>2. RegistryTypeOK'
      BY <1>2, <2>1 DEF Tick, LeaseInv, RegistryTypeOK
    <2>3. FreshIds'
      BY <1>2 DEF Tick, LeaseInv, FreshIds, Known
    <2>4. \A id \in ServiceIds : records[id].absolute \in Nat
      BY DEF LeaseInv, RegistryTypeOK, Record
    <2>5. AbsoluteLease'
      BY <1>2, <2>1, <2>4, ConfigAssumption DEF Tick, LeaseInv, AbsoluteLease
    <2>. QED  BY <2>2, <2>3, <2>5 DEF LeaseInv
  <1>. QED
    BY <1>1, <1>2, StepKinds, ReserveLeaseInv, PutLeaseInv DEF LeaseInv

\* The lease invariant holds whatever the clients of the registry do.
THEOREM LeaseInvariant == RegistrySpec => []LeaseInv
  <1>. QED  BY InitLeaseInv, NextLeaseInv, PTL DEF RegistrySpec

\* Type correctness (load and save of the registry file round every operation).
THEOREM RegistryTypeCorrect == RegistrySpec => []RegistryTypeOK
  <1>1. LeaseInv => RegistryTypeOK
    BY DEF LeaseInv
  <1>. QED  BY <1>1, LeaseInvariant, PTL

-----------------------------------------------------------------------------
(* No operation but Reserve makes a record live *)

\* A record that is live after an operation on it was live before, unless it is
\* a warm one that had not been retired.
LEMMA PutRevivesNothing ==
  ASSUME LeaseInv, NEW id \in ServiceIds, NEW r \in Record, Put(id, r),
         Alive(r, clock),
         records[id].tier \notin WarmTiers \/ records[id].state = "unhealthy"
  PROVE  r.tier = records[id].tier /\ Alive(records[id], clock)
  <1>. DEFINE old == records[id]
  <1>. /\ clock \in Nat /\ LeaseDuration \in Nat
       /\ old \in Record /\ Allowed(old, r)
    BY ConfigAssumption DEF LeaseInv, RegistryTypeOK, Put
  <1>. r.state \in Managed /\ EffectiveLease(r) > clock
    BY DEF Alive, Managed
  <1>1. r # NoRecord
    BY DEF NoRecord, Absent, Managed
  <1>2. r.tier = old.tier /\ r.absolute = old.absolute
    BY <1>1 DEF Allowed
  <1>3. old.state \in Managed
    BY <1>1 DEF Allowed, Managed
  <1>4. old.absolute # ZeroTime /\ old.lease = old.absolute
    BY <1>3 DEF LeaseInv, AbsoluteLease, Managed
  <1>5. /\ old.absolute \in Nat /\ old.lease \in Nat
        /\ r.absolute \in Nat /\ r.lease \in Nat
    BY DEF Record
  <1>6. old.absolute > clock
    BY <1>2, <1>4, <1>5 DEF EffectiveLease, BoundedLeaseExpiry
  <1>7. EffectiveLease(old) > clock
    BY <1>4, <1>6 DEF EffectiveLease, BoundedLeaseExpiry
  <1>. QED  BY <1>2, <1>3, <1>7 DEF Alive, Managed

\* The step formula of LapsedStaysLapsed.
LapsedStays ==
  \A id \in ServiceIds : LET r == records[id] IN
    /\ Known(id)
    /\ r.tier \notin WarmTiers \/ r.state = "unhealthy"
    /\ ~Alive(r, clock)
    => ~Alive(records'[id], clock')

\* A lapsed lease is not brought back by any step.
LEMMA StepLapsedStays ==
  ASSUME LeaseInv, [RegistryNext]_regVars
  PROVE  LapsedStays
  <1>. SUFFICES ASSUME NEW id \in ServiceIds, Known(id),
                       \/ records[id].tier \notin WarmTiers
                       \/ records[id].state = "unhealthy",
                       ~Alive(records[id], clock)
                PROVE  ~Alive(records'[id], clock')
    BY DEF LapsedStays
  <1>. clock \in Nat /\ issued \in Nat /\ records \in [ServiceIds -> Record]
    BY DEF LeaseInv, RegistryTypeOK
  <1>1. ASSUME NEW other \in ServiceIds, NEW t \in Tiers, NEW deadline \in Nat,
               Reserve(other, t, deadline)
        PROVE  ~Alive(records'[id], clock')
    <2>1. other # id
      BY <1>1 DEF Reserve, LeaseInv, FreshIds, ServiceIds
    <2>. QED  BY <1>1, <2>1 DEF Reserve
  <1>2. ASSUME NEW other \in ServiceIds, NEW r \in Record, Put(other, r)
        PROVE  ~Alive(records'[id], clock')
    <2>1. clock' = clock /\ records' = [records EXCEPT ![other] = r]
      BY <1>2 DEF Put, PutRecord
    <2>2. CASE other = id
      BY <1>2, <2>1, <2>2, PutRevivesNothing
    <2>3. CASE other # id
      BY <2>1, <2>3
    <2>. QED  BY <2>2, <2>3
  <1>3. CASE DemandsOnly
    BY <1>3 DEF DemandsOnly
  <1>4. CASE Tick
    <2>1. EffectiveLease(records[id]) \in Nat
      BY BoundedType DEF EffectiveLease, Record
    <2>2. records' = records /\ clock' = clock + 1
      BY <1>4 DEF Tick
    <2>. QED  BY <2>1, <2>2 DEF Alive
  <1>. QED  BY <1>1, <1>2, <1>3, <1>4, StepKinds DEF LeaseInv

\* No operation brings a retired record, or a scale-from-zero record whose lease
\* has lapsed, back into routing, for any number of clients and any delays.
THEOREM LapsedLeasesStayLapsed == RegistrySpec => LapsedStaysLapsed
  <1>1. LeaseInv /\ [RegistryNext]_regVars => [LapsedStays]_regVars
    BY StepLapsedStays
  <1>2. RegistrySpec => [][LapsedStays]_regVars
    BY <1>1, LeaseInvariant, PTL DEF RegistrySpec
  <1>. QED  BY <1>2 DEF LapsedStaysLapsed, LapsedStays

-----------------------------------------------------------------------------
(* The replica limit of the scale-from-zero tiers *)

\* A subset of a set within a limit is within it.
LEMMA SubsetWithin ==
  ASSUME NEW B, IsFiniteSet(B), NEW A \in SUBSET B, NEW n \in Nat, Cardinality(B) <= n
  PROVE  Cardinality(A) <= n
  <1>1. IsFiniteSet(A) /\ Cardinality(A) <= Cardinality(B)
    BY FS_Subset
  <1>2. Cardinality(A) \in Nat /\ Cardinality(B) \in Nat
    BY <1>1, FS_CardinalityType
  <1>. QED  BY <1>1, <1>2

\* One more element than a set below the limit is within it.
LEMMA OneMoreWithin ==
  ASSUME NEW B, IsFiniteSet(B), NEW x, NEW A \in SUBSET (B \cup {x}),
         NEW n \in Nat, Cardinality(B) < n
  PROVE  Cardinality(A) <= n
  <1>1. /\ IsFiniteSet(B \cup {x})
        /\ Cardinality(B \cup {x}) = IF x \in B THEN Cardinality(B) ELSE Cardinality(B) + 1
    BY FS_AddElement, Zenon
  <1>2. Cardinality(B) \in Nat
    BY FS_CardinalityType
  <1>3. Cardinality(B \cup {x}) <= n
    BY <1>1, <1>2
  <1>. QED  BY <1>1, <1>3, SubsetWithin

\* The records of a tier are finitely many: there are as many ids as services.
LEMMA RecordsForTierFinite ==
  \A t, now : IsFiniteSet(RecordsForTier(t, now))
  <1>1. IsFiniteSet(ServiceIds)
    BY FS_Interval, BoundAssumption DEF ServiceIds
  <1>2. \A t, now : RecordsForTier(t, now) \subseteq ServiceIds
    BY DEF RecordsForTier
  <1>. QED  BY <1>1, <1>2, FS_Subset

\* A reservation adds its own record to the live records and no other.
LEMMA ReserveKeepsLimit ==
  ASSUME LeaseInv, ScaleZeroReplicaLimit,
         NEW id \in ServiceIds, NEW t \in Tiers, NEW deadline \in Nat,
         Reserve(id, t, deadline)
  PROVE  ScaleZeroReplicaLimit'
  <1>. SUFFICES ASSUME NEW u \in Tiers \ WarmTiers
                PROVE  Cardinality(RecordsForTier(u, clock)') <= MaxReplicas[u]
    BY DEF ScaleZeroReplicaLimit
  <1>. /\ records \in [ServiceIds -> Record] /\ clock' = clock
       /\ records' = [records EXCEPT ![id] = NewRecord(t, deadline)]
       /\ NewRecord(t, deadline).tier = t
    BY DEF LeaseInv, RegistryTypeOK, Reserve, NewRecord, Absent
  <1>1. /\ IsFiniteSet(RecordsForTier(u, clock)) /\ MaxReplicas[u] \in Nat
        /\ Cardinality(RecordsForTier(u, clock)) <= MaxReplicas[u]
    BY RecordsForTierFinite, ConfigAssumption DEF ScaleZeroReplicaLimit
  <1>2. CASE u = t
    <2>1. RecordsForTier(u, clock)' \subseteq RecordsForTier(u, clock) \cup {id}
      BY DEF RecordsForTier
    <2>2. Cardinality(RecordsForTier(u, clock)) < MaxReplicas[u]
      BY <1>2 DEF Reserve, HasCapacity
    <2>. QED  BY <1>1, <2>1, <2>2, OneMoreWithin
  <1>3. CASE u # t
    <2>1. RecordsForTier(u, clock)' \subseteq RecordsForTier(u, clock)
      BY <1>3 DEF RecordsForTier
    <2>. QED  BY <1>1, <2>1, SubsetWithin
  <1>. QED  BY <1>2, <1>3

\* A step that makes no new live lease keeps the replica limit.
LEMMA NoGrowthKeepsLimit ==
  ASSUME ScaleZeroReplicaLimit,
         \A u \in Tiers \ WarmTiers : RecordsForTier(u, clock)' \subseteq RecordsForTier(u, clock)
  PROVE  ScaleZeroReplicaLimit'
  <1>. SUFFICES ASSUME NEW u \in Tiers \ WarmTiers
                PROVE  Cardinality(RecordsForTier(u, clock)') <= MaxReplicas[u]
    BY DEF ScaleZeroReplicaLimit
  <1>1. /\ IsFiniteSet(RecordsForTier(u, clock)) /\ MaxReplicas[u] \in Nat
        /\ Cardinality(RecordsForTier(u, clock)) <= MaxReplicas[u]
    BY RecordsForTierFinite, ConfigAssumption DEF ScaleZeroReplicaLimit
  <1>. QED  BY <1>1, SubsetWithin

\* Only a reservation adds a live lease to a scale-from-zero tier.
LEMMA OnlyReserveAdds ==
  ASSUME LeaseInv, [RegistryNext]_regVars
  PROVE  \/ \E id \in ServiceIds, t \in Tiers, deadline \in Nat : Reserve(id, t, deadline)
         \/ /\ issued' = issued
            /\ \A u \in Tiers \ WarmTiers :
                 RecordsForTier(u, clock)' \subseteq RecordsForTier(u, clock)
  <1>. clock \in Nat /\ records \in [ServiceIds -> Record]
    BY DEF LeaseInv, RegistryTypeOK
  <1>1. ASSUME NEW id \in ServiceIds, NEW r \in Record, Put(id, r),
               NEW u \in Tiers \ WarmTiers
        PROVE  RecordsForTier(u, clock)' \subseteq RecordsForTier(u, clock)
    <2>1. /\ clock' = clock /\ records' = [records EXCEPT ![id] = r]
          /\ Allowed(records[id], r)
      BY <1>1 DEF Put, PutRecord
    <2>2. ASSUME Alive(r, clock), r.tier = u
          PROVE  records[id].tier = u /\ Alive(records[id], clock)
      <3>1. r # NoRecord
        BY <2>2 DEF NoRecord, Absent, Alive
      <3>2. records[id].tier = u
        BY <2>1, <2>2, <3>1 DEF Allowed
      <3>. QED  BY <1>1, <2>2, <3>2, PutRevivesNothing
    <2>. QED  BY <2>1, <2>2 DEF RecordsForTier
  <1>2. ASSUME DemandsOnly, NEW u \in Tiers \ WarmTiers
        PROVE  RecordsForTier(u, clock)' \subseteq RecordsForTier(u, clock)
    BY <1>2 DEF DemandsOnly, RecordsForTier
  <1>3. ASSUME Tick, NEW u \in Tiers \ WarmTiers
        PROVE  RecordsForTier(u, clock)' \subseteq RecordsForTier(u, clock)
    <2>1. \A id \in ServiceIds : EffectiveLease(records[id]) \in Nat
      BY BoundedType DEF EffectiveLease, Record
    <2>2. records' = records /\ clock' = clock + 1
      BY <1>3 DEF Tick
    <2>. QED  BY <2>1, <2>2 DEF RecordsForTier, Alive
  <1>4. ASSUME NEW id \in ServiceIds, NEW r \in Record, Put(id, r)
        PROVE  issued' = issued
    BY <1>4 DEF Put, PutRecord
  <1>5. DemandsOnly \/ Tick => issued' = issued
    BY DEF DemandsOnly, Tick
  <1>. QED  BY <1>1, <1>2, <1>3, <1>4, <1>5, StepKinds DEF LeaseInv

\* Every step keeps the replica limit: only Reserve adds a live lease, and it
\* counts first.
LEMMA NextKeepsLimit ==
  ASSUME LeaseInv, ScaleZeroReplicaLimit, [RegistryNext]_regVars
  PROVE  ScaleZeroReplicaLimit'
  BY OnlyReserveAdds, ReserveKeepsLimit, NoGrowthKeepsLimit

\* The live leases of a scale-from-zero tier never exceed its maximum, whatever
\* the brokers, launchers and workers sharing the registry file do.
THEOREM ScaleZeroLimitHolds == RegistrySpec => []ScaleZeroReplicaLimit
  <1>1. RegistryInit => ScaleZeroReplicaLimit
    <2>. SUFFICES ASSUME RegistryInit, NEW u \in Tiers \ WarmTiers
                  PROVE  Cardinality(RecordsForTier(u, clock)) <= MaxReplicas[u]
      BY DEF ScaleZeroReplicaLimit
    <2>1. RecordsForTier(u, clock) = {}
      BY DEF RegistryInit, RecordsForTier, Alive, NoRecord, Absent
    <2>. QED  BY <2>1, FS_EmptySet, ConfigAssumption
  <1>. QED  BY <1>1, NextKeepsLimit, LeaseInvariant, PTL DEF RegistrySpec

-----------------------------------------------------------------------------
(* The registry implements a semaphore *)

Held == [t \in Tiers \ WarmTiers |-> RecordsForTier(t, clock)]

\* A reservation takes the next permit of its tier, or one of no such tier.
LEMMA ReserveAcquires ==
  ASSUME LeaseInv, NEW id \in ServiceIds, NEW t \in Tiers, NEW deadline \in Nat,
         Reserve(id, t, deadline)
  PROVE  Capacity!Next
  <1>. DEFINE r == NewRecord(t, deadline)
  <1>1. /\ records \in [ServiceIds -> Record] /\ clock' = clock /\ clock \in Nat
        /\ records' = [records EXCEPT ![id] = r]
        /\ issued' = issued + 1 /\ id = issued' /\ id > issued /\ issued \in Nat
    BY DEF LeaseInv, RegistryTypeOK, Reserve
  <1>2. ~Known(id)
    BY <1>1 DEF LeaseInv, FreshIds
  <1>3. /\ r.tier = t /\ r.state = "starting" /\ r.lease = clock + LeaseDuration
        /\ r.absolute = IF t \in WarmTiers THEN ZeroTime ELSE clock + LeaseDuration
    BY DEF NewRecord, Absent
  <1>4. Alive(r, clock)
    <2>1. EffectiveLease(r) = clock + LeaseDuration
      BY <1>3 DEF EffectiveLease, BoundedLeaseExpiry
    <2>. QED  BY <1>1, <1>3, <2>1, ConfigAssumption DEF Alive
  <1>5. \A u \in Tiers : id \notin RecordsForTier(u, clock)
    BY <1>2 DEF RecordsForTier, Alive, Known
  <1>6. \A u \in Tiers :
          RecordsForTier(u, clock)' = IF u = t THEN RecordsForTier(u, clock) \cup {id}
                                      ELSE RecordsForTier(u, clock)
    <2>. HIDE DEF r
    <2>. QED  BY <1>1, <1>3, <1>4, <1>5 DEF RecordsForTier
  <1>7. CASE t \in WarmTiers
    <2>1. Held' = Held
      BY <1>6, <1>7 DEF Held
    <2>. QED  BY <1>1, <2>1 DEF Capacity!Next, Capacity!Pass, Held
  <1>8. CASE t \notin WarmTiers
    <2>1. Held' = [Held EXCEPT ![t] = @ \cup {issued'}]
      BY <1>1, <1>6, <1>8 DEF Held
    <2>2. Cardinality(Held[t]) < MaxReplicas[t]
      BY <1>8 DEF Held, Reserve, HasCapacity
    <2>3. Capacity!Acquire(t)
      BY <1>1, <2>1, <2>2, Zenon DEF Capacity!Acquire, Held, Capacity!Cardinality, Cardinality
    <2>. QED  BY <1>8, <2>3 DEF Capacity!Next
  <1>. QED  BY <1>7, <1>8

\* CapacityIsKept: every step of the registry is one of the semaphore; all but
\* a reservation can only give permits back.
THEOREM RegistryKeepsCapacity == RegistrySpec => CapacityIsKept
  <1>1. RegistryInit => Capacity!Init
    <2>. SUFFICES ASSUME RegistryInit PROVE Capacity!Init
      OBVIOUS
    <2>1. \A t \in Tiers : RecordsForTier(t, clock) = {}
      BY DEF RegistryInit, RecordsForTier, Alive, NoRecord, Absent
    <2>2. issued = 0
      BY DEF RegistryInit
    <2>. QED  BY <2>1, <2>2 DEF Capacity!Init
  <1>2. LeaseInv /\ [RegistryNext]_regVars => [Capacity!Next]_<<Held, issued>>
    <2>. SUFFICES ASSUME LeaseInv, [RegistryNext]_regVars PROVE Capacity!Next
      OBVIOUS
    <2>1. ASSUME issued' = issued,
                 \A u \in Tiers \ WarmTiers :
                   RecordsForTier(u, clock)' \subseteq RecordsForTier(u, clock)
          PROVE  Capacity!Release
      <3>1. Held' = [t \in Tiers \ WarmTiers |-> Held[t] \cap Held'[t]]
        BY <2>1 DEF Held
      <3>. QED  BY <2>1, <3>1 DEF Capacity!Release, Held
    <2>. QED  BY <2>1, OnlyReserveAdds, ReserveAcquires DEF Capacity!Next
  <1>. QED  BY <1>1, <1>2, LeaseInvariant, PTL DEF RegistrySpec, CapacityIsKept, Capacity!Spec, Held

-----------------------------------------------------------------------------
(* Demand ids are not reused, and deadlines not moved *)

\* Ids above the counter belong to no demand.
FreshDemands == \A d \in DemandIds : d > requested => demands[d].state = "absent"

\* Ids above the counter belong to no demand, in every step.
LEMMA FreshDemandsKept ==
  ASSUME RegistryTypeOK, FreshDemands, [RegistryNext]_regVars
  PROVE  FreshDemands'
  <1>. demands \in [DemandIds -> Demand] /\ requested \in Nat
    BY DEF RegistryTypeOK
  <1>1. CASE \E d \in DemandIds, t \in Tiers, ttl \in 1 .. DemandTTL : RequestDemand(d, t, ttl)
    BY <1>1 DEF RequestDemand, FreshDemands, DemandIds
  <1>2. CASE \E d \in DemandIds, state \in {"launching", "ready", "failed"},
               id \in ServiceIds \cup {NoService}, c \in Categories :
               UpdateDemand(d, state, id, c)
    BY <1>2 DEF UpdateDemand, PutDemands, FreshDemands
  <1>3. CASE ExpireDemands
    BY <1>3 DEF ExpireDemands, Expired, Open, PutDemands, FreshDemands
  <1>4. CASE \E id \in ServiceIds, c \in Categories : FailDemandsForService(id, c)
    BY <1>4 DEF FailDemandsForService, Bound, PutDemands, FreshDemands
  <1>5. CASE \E before \in 1 .. clock : PruneExpiredDemands(before)
    BY <1>5 DEF PruneExpiredDemands, NoDemand, PutDemands, FreshDemands
  <1>6. CASE UNCHANGED <<demands, requested>>
    BY <1>6 DEF FreshDemands
  <1>7. ASSUME NEW id \in ServiceIds, RecordStep(id)
        PROVE  UNCHANGED <<demands, requested>>
    BY <1>7 DEF RecordStep, Reserve, Publish, LauncherPublish, Renew, MarkUnhealthy,
                ReportServiceFailure, AttachJob, RetireUpdate, HealthUpdate,
                TerminalUpdate, CancelUpdate, Delete, PutRecord
  <1>. QED
    BY <1>1, <1>2, <1>3, <1>4, <1>5, <1>6, <1>7 DEF RegistryNext, DemandStep, Tick, regVars

\* A demand that was given never gets a later deadline, and no id is taken back.
LEMMA GivenStays ==
  ASSUME RegistryTypeOK, [RegistryNext]_regVars
  PROVE  /\ clock <= clock' /\ requested <= requested'
         /\ \A d \in 1 .. requested : demands'[d].deadline <= demands[d].deadline
  <1>1. /\ clock \in Nat /\ requested \in 0 .. MaxDemands /\ demands \in [DemandIds -> Demand]
        /\ 1 .. requested \subseteq DemandIds /\ MaxDemands \in Nat
    BY BoundAssumption DEF RegistryTypeOK, DemandIds
  <1>2. \A d \in 1 .. requested : demands[d] \in Demand /\ demands[d].deadline \in Nat
    BY <1>1 DEF Demand
  <1>3. ASSUME UNCHANGED <<demands, requested>> PROVE requested <= requested'
          /\ \A d \in 1 .. requested : demands'[d].deadline <= demands[d].deadline
    BY <1>1, <1>2, <1>3
  <1>4. CASE UNCHANGED regVars
    BY <1>1, <1>3, <1>4 DEF regVars
  <1>5. CASE Tick
    BY <1>1, <1>3, <1>5 DEF Tick
  <1>6. ASSUME NEW id \in ServiceIds, RecordStep(id) PROVE UNCHANGED <<clock, demands, requested>>
    BY <1>6 DEF RecordStep, Reserve, Publish, LauncherPublish, Renew, MarkUnhealthy,
       ReportServiceFailure, AttachJob, RetireUpdate, HealthUpdate, TerminalUpdate, CancelUpdate,
       Delete, PutRecord
  <1>7. ASSUME NEW d \in DemandIds, DemandStep(d)
        PROVE  /\ clock' = clock /\ requested <= requested'
               /\ \A e \in 1 .. requested : demands'[e].deadline <= demands[e].deadline
    <2>1. ASSUME NEW t \in Tiers, NEW ttl \in 1 .. DemandTTL, RequestDemand(d, t, ttl)
          PROVE  /\ clock' = clock /\ requested <= requested'
                 /\ \A e \in 1 .. requested : demands'[e] = demands[e]
      <3>1. clock' = clock /\ d = requested + 1 /\ requested' = d
        BY <2>1 DEF RequestDemand
      <3>2. \A e \in DemandIds \ {d} : demands'[e] = demands[e]
        BY <1>1, <2>1 DEF RequestDemand
      <3>. QED  BY <1>1, <3>1, <3>2
    <2>2. ASSUME NEW state \in {"launching", "ready", "failed"},
                 NEW id \in ServiceIds \cup {NoService}, NEW c \in Categories,
                 UpdateDemand(d, state, id, c)
          PROVE  /\ UNCHANGED <<clock, requested>>
                 /\ \A e \in DemandIds : demands'[e].deadline = demands[e].deadline
      <3>. DEFINE new == [demands[d] EXCEPT
                          !.state = state,
                          !.service = IF id = NoService THEN demands[d].service ELSE id,
                          !.category = IF c = "none" THEN demands[d].category ELSE c]
      <3>1. new.deadline = demands[d].deadline
        BY <1>1 DEF Demand
      <3>2. PutDemands([demands EXCEPT ![d] = new])
        BY <2>2 DEF UpdateDemand
      <3>. HIDE DEF new
      <3>. QED  BY <1>1, <3>1, <3>2 DEF PutDemands
    <2>. QED  BY <1>1, <1>2, <1>7, <2>1, <2>2 DEF DemandStep
  <1>8. ASSUME \/ ExpireDemands
               \/ \E id \in ServiceIds, c \in Categories : FailDemandsForService(id, c)
               \/ \E before \in 1 .. clock : PruneExpiredDemands(before)
        PROVE  /\ UNCHANGED <<clock, requested>>
               /\ \A d \in DemandIds : demands'[d].deadline \in {demands[d].deadline, 0}
    <2>1. \A d \in Demand : Expired(d).deadline = d.deadline
      BY DEF Expired, Demand
    <2>2. \A d \in Demand, c \in Categories :
            [d EXCEPT !.state = "failed", !.category = OrServiceFailure(c)].deadline = d.deadline
      BY DEF Demand
    <2>3. NoDemand.deadline = 0
      BY DEF NoDemand, ZeroTime
    <2>4. CASE ExpireDemands
      BY <1>1, <2>1, <2>4 DEF ExpireDemands, PutDemands
    <2>5. ASSUME NEW id \in ServiceIds, NEW c \in Categories, FailDemandsForService(id, c)
          PROVE  /\ UNCHANGED <<clock, requested>>
                 /\ \A d \in DemandIds : demands'[d].deadline \in {demands[d].deadline, 0}
      BY <1>1, <2>2, <2>5 DEF FailDemandsForService, PutDemands
    <2>6. ASSUME NEW before \in 1 .. clock, PruneExpiredDemands(before)
          PROVE  /\ UNCHANGED <<clock, requested>>
                 /\ \A d \in DemandIds : demands'[d].deadline \in {demands[d].deadline, 0}
      BY <1>1, <2>3, <2>6 DEF PruneExpiredDemands, PutDemands
    <2>. QED  BY <1>8, <2>4, <2>5, <2>6
  <1>9. ASSUME UNCHANGED <<clock, requested>>,
               \A d \in DemandIds : demands'[d].deadline \in {demands[d].deadline, 0}
        PROVE  /\ clock <= clock' /\ requested <= requested'
               /\ \A d \in 1 .. requested : demands'[d].deadline <= demands[d].deadline
    BY <1>1, <1>2, <1>9
  <1>. QED  BY <1>1, <1>2, <1>3, <1>4, <1>5, <1>6, <1>7, <1>8, <1>9 DEF RegistryNext
=============================================================================
