------------------------ MODULE GpuControlPlaneProofs ------------------------
(***************************************************************************)
(* Proofs about the GPU control plane, for any number of broker processes, *)
(* services, demands and faults.                                           *)
(***************************************************************************)
EXTENDS GpuControlPlane, GpuRegistryProofs, WellFoundedInduction

DemandStates == {"absent", "pending", "launching", "ready", "failed"}

Manager ==
  [pc : Steps, now : Nat, snap : [ServiceIds -> Record], loop : Steps,
   cur : ServiceIds \cup {NoService}, sick : BOOLEAN, category : Categories,
   done : BOOLEAN, todo : [DemandIds -> Demand], dem : DemandIds \cup {0},
   verdict : DemandStates, need : [Tiers -> Int]]

\* Positions of a reconciler that has not read the clock, that holds a record,
\* and that goes back to the loop it took the record from.
Timeless == {"idle", "listed", "down", "downfail", "downdelete"}
Looping == {"healthy", "retire", "fail", "cancel", "cancelled", "delete"}
Holding == Looping \cup {"submit", "attach", "downfail", "downdelete"}

\* What a reconciler with record r knows at position p; t is the time now.
Fits(r, p, t) ==
  /\ r.now <= t
  /\ p \notin Timeless => r.now # ZeroTime
  /\ p \in Holding => r.cur \in ServiceIds
  /\ p \in Looping \cup {"records", "limits"} => r.loop \in {"records", "limits"}
  /\ p = "listed" => r.loop = "records"
  /\ p \in {"downfail", "downdelete"} => r.loop = "down"
  /\ p \in {"decided", "reserve"} => r.dem \in DemandIds
  /\ p = "decided" => r.verdict \in {"launching", "ready", "failed"}

ManagerOK(r, t) == r \in Manager /\ Fits(r, r.pc, t)

JobStates == {"none"} \cup LiveJob \cup EndedJob
LauncherStates == {"off", "loading", "serving", "failing", "exiting"}

EnvironmentOK ==
  /\ jobs \in [ServiceIds -> JobStates]
  /\ cancelling \subseteq ServiceIds
  /\ launcher \in [ServiceIds -> LauncherStates]
  /\ crashes \in 0 .. MaxCrashes

ManagersOK ==
  /\ mgr \in [Managers -> Manager]
  /\ \A m \in Managers : ManagerOK(mgr[m], clock)

ControlInv == RegistryTypeOK /\ EnvironmentOK /\ ManagersOK

-----------------------------------------------------------------------------
(* Choices over sets of ids *)

\* A nonempty set of numbers has a least one.
LEMMA LeastNatural ==
  ASSUME NEW S \in SUBSET Nat, S # {}
  PROVE  \E x \in S : \A y \in S : x <= y
  <1>1. PICK x \in S : \A y \in S : ~(<<y, x>> \in OpToRel(<, Nat))
    BY NatLessThanWellFounded, WFMin, Zenon
  <1>2. \A y \in S : ~(y < x)
    BY <1>1 DEF OpToRel
  <1>. QED  BY <1>2

\* A nonempty set of numbers up to n has a greatest one.
LEMMA GreatestNatural ==
  ASSUME NEW n \in Nat, NEW S \in SUBSET (1 .. n), S # {}
  PROVE  \E x \in S : \A y \in S : y <= x
  <1>. DEFINE T == {d \in Nat : \E s \in S : s = n - d}
  <1>1. T # {}
    <2>1. PICK s \in S : TRUE
      OBVIOUS
    <2>2. n - s \in Nat /\ s = n - (n - s)
      OBVIOUS
    <2>. QED  BY <2>1, <2>2
  <1>2. PICK d \in T : \A u \in T : d <= u
    BY <1>1, LeastNatural
  <1>3. PICK x \in S : x = n - d
    OBVIOUS
  <1>4. \A y \in S : y <= x
    <2>. TAKE y \in S
    <2>1. n - y \in T
      OBVIOUS
    <2>. QED  BY <1>2, <1>3, <2>1
  <1>. QED  BY <1>4

\* The demand reconcileDemands takes first is a listed one.
LEMMA FirstListedType ==
  ASSUME NEW r, \E d \in DemandIds : r.todo[d] # NoDemand
  PROVE  FirstListed(r) \in DemandIds /\ r.todo[FirstListed(r)] # NoDemand
  <1>. DEFINE S == {d \in DemandIds : r.todo[d] # NoDemand}
  <1>1. S \in SUBSET Nat /\ S # {}
    BY DEF DemandIds
  <1>2. PICK d \in S : \A o \in S : d <= o
    BY <1>1, LeastNatural
  <1>. QED  BY <1>2 DEF FirstListed

\* The oldest of some records is one of them.
LEMMA OldestType ==
  ASSUME NEW S \in SUBSET ServiceIds, S # {}
  PROVE  Oldest(S) \in S
  <1>1. \E id \in S : \A o \in S : id <= o
    BY LeastNatural DEF ServiceIds
  <1>. QED  BY <1>1 DEF Oldest

\* The youngest of some records is one of them.
LEMMA YoungestType ==
  ASSUME NEW S \in SUBSET ServiceIds, S # {}
  PROVE  Youngest(S) \in S
  <1>1. \E id \in S : \A o \in S : o <= id
    BY GreatestNatural, BoundAssumption DEF ServiceIds
  <1>. QED  BY <1>1 DEF Youngest

-----------------------------------------------------------------------------
(* The moves of a reconciler *)

\* One manager's move keeps what holds of all managers, if the new locals fit.
LEMMA ManagerMoves ==
  ASSUME ManagersOK, NEW m \in Managers, NEW r, ManagerOK(r, clock), clock' = clock,
         mgr' = [mgr EXCEPT ![m] = r]
  PROVE  ManagersOK'
  <1>1. r \in Manager
    BY DEF ManagerOK
  <1>2. mgr' \in [Managers -> Manager]
    BY <1>1 DEF ManagersOK
  <1>3. ASSUME NEW n \in Managers
        PROVE  ManagerOK(mgr'[n], clock')
    <2>1. mgr'[n] = IF n = m THEN r ELSE mgr[n]
      BY DEF ManagersOK
    <2>. QED  BY <2>1, Zenon DEF ManagersOK
  <1>. QED  BY <1>2, <1>3 DEF ManagersOK

\* Going on to another position is such a move, if the locals fit the new
\* position.
LEMMA GoOK ==
  ASSUME ControlInv, NEW m \in Managers, NEW r \in Manager, NEW p \in Steps,
         Go(m, r, p), clock' = clock, Fits(r, p, clock)
  PROVE  ManagersOK'
  <1>. DEFINE new == [r EXCEPT !.pc = p]
  <1>1. new \in Manager /\ new.pc = p
    BY DEF Manager
  <1>2. /\ new.now = r.now /\ new.cur = r.cur /\ new.loop = r.loop
        /\ new.dem = r.dem /\ new.verdict = r.verdict
    BY DEF Manager
  <1>3. mgr' = [mgr EXCEPT ![m] = new]
    BY DEF Go
  <1>. HIDE DEF new
  <1>4. ManagerOK(new, clock)
    BY <1>1, <1>2 DEF ManagerOK, Fits
  <1>. QED  BY <1>3, <1>4, ManagerMoves DEF ControlInv

\* A manager between passes fits whatever the time.
LEMMA IdleManagerOK ==
  ASSUME NEW t \in Nat
  PROVE  ManagerOK(IdleManager, t)
  <1>1. NoRecord \in Record /\ NoDemand \in Demand
    BY NoRecordType, ConfigAssumption
    DEF NoDemand, Demand, Categories, ZeroTime, NoService
  <1>2. IdleManager \in Manager
    BY <1>1 DEF IdleManager, Manager, Steps, Categories, DemandStates, ZeroTime, NoService
  <1>. QED
    BY <1>2 DEF ManagerOK, Fits, IdleManager, Timeless, Holding, Looping, ZeroTime

\* A pass that gives up leaves its manager between passes.
LEMMA AbortOK ==
  ASSUME ControlInv, NEW m \in Managers, Abort(m), clock' = clock
  PROVE  ManagersOK'
  BY IdleManagerOK, ManagerMoves DEF Abort, ControlInv, RegistryTypeOK

\* Going on with the next listed record keeps the locals in order.
LEMMA NextRecordOK ==
  ASSUME ControlInv, NEW m \in Managers, NEW r \in Manager, NextRecord(m, r),
         clock' = clock, r.now <= clock, r.cur \in ServiceIds,
         \/ r.loop \in {"records", "limits"} /\ r.now # ZeroTime
         \/ r.loop = "down"
  PROVE  ManagersOK'
  <1>. DEFINE left == [r.snap EXCEPT ![r.cur] = NoRecord]
              new == [r EXCEPT !.snap = left, !.cur = NoService, !.sick = FALSE,
                               !.category = "none", !.done = FALSE]
  <1>1. r.snap \in [ServiceIds -> Record] /\ r.loop \in Steps
    BY DEF Manager
  <1>2. left \in [ServiceIds -> Record]
    BY <1>1, NoRecordType
  <1>3. Go(m, new, r.loop)
    BY DEF NextRecord, Manager
  <1>. HIDE DEF left
  <1>4. new \in Manager /\ new.now = r.now /\ new.loop = r.loop
    BY <1>2 DEF Manager, Categories, NoService
  <1>5. Fits(new, r.loop, clock)
    BY <1>4 DEF Fits, Timeless, Holding, Looping
  <1>. QED  BY <1>1, <1>3, <1>4, <1>5, GoOK

\* Going on with the next listed demand does, too.
LEMMA NextDemandOK ==
  ASSUME ControlInv, NEW m \in Managers, NEW r \in Manager, NextDemand(m, r),
         clock' = clock, r.now <= clock, r.now # ZeroTime, r.dem \in DemandIds
  PROVE  ManagersOK'
  <1>. DEFINE left == [r.todo EXCEPT ![r.dem] = NoDemand]
              new == [r EXCEPT !.todo = left, !.dem = 0, !.verdict = "absent",
                               !.cur = NoService, !.category = "none"]
  <1>1. r.todo \in [DemandIds -> Demand] /\ NoDemand \in Demand
    BY ConfigAssumption DEF Manager, NoDemand, Demand, Categories, ZeroTime, NoService
  <1>2. left \in [DemandIds -> Demand]
    BY <1>1
  <1>3. Go(m, new, "demands")
    BY DEF NextDemand, Manager
  <1>4. /\ "absent" \in DemandStates /\ "demands" \in Steps /\ "none" \in Categories
        /\ NoService \in ServiceIds \cup {NoService}
    BY DEF DemandStates, Steps, Categories
  <1>. HIDE DEF left
  <1>5. new \in Manager /\ new.now = r.now
    BY <1>2, <1>4 DEF Manager
  <1>6. Fits(new, "demands", clock)
    BY <1>5 DEF Fits, Timeless, Holding, Looping
  <1>. QED  BY <1>3, <1>4, <1>5, <1>6, GoOK

-----------------------------------------------------------------------------
(* Every step calls the registry as its contract allows, and keeps ControlInv *)

\* A step of the control plane within one instant.
InstantStep == [RegistryNext]_regVars /\ EnvironmentOK' /\ ManagersOK' /\ clock' = clock

\* A call about a record is a step of the registry that takes no time.
LEMMA RecordCall ==
  ASSUME NEW id \in ServiceIds, RecordStep(id)
  PROVE  RegistryNext /\ clock' = clock
  BY DEF RegistryNext, RecordStep, Reserve, Publish, LauncherPublish, Renew,
         MarkUnhealthy, ReportServiceFailure, AttachJob, RetireUpdate, HealthUpdate,
         TerminalUpdate, CancelUpdate, Delete, PutRecord

\* A call about demands is one as well.
LEMMA DemandCall ==
  ASSUME \/ \E d \in DemandIds : DemandStep(d)
         \/ ExpireDemands
         \/ \E id \in ServiceIds, c \in Categories : FailDemandsForService(id, c)
         \/ \E before \in 1 .. clock : PruneExpiredDemands(before)
  PROVE  RegistryNext /\ clock' = clock
  BY DEF RegistryNext, DemandStep, RequestDemand, UpdateDemand, ExpireDemands,
         FailDemandsForService, PruneExpiredDemands, PutDemands

\* So is a step that does not call the registry.
LEMMA NoCall ==
  ASSUME UNCHANGED regVars
  PROVE  [RegistryNext]_regVars /\ clock' = clock
  BY DEF regVars

\* Jobs and launchers are in order if nothing happens to them.
LEMMA QuietEnvironment ==
  ASSUME ControlInv, UNCHANGED <<envVars, crashes>>
  PROVE  EnvironmentOK'
  BY DEF ControlInv, EnvironmentOK, envVars

\* Importing a demand or a failure report keeps the invariant.
LEMMA ImportOK ==
  ASSUME ControlInv, NEW m \in Managers, ImportDemand(m) \/ ImportReport(m)
  PROVE  InstantStep
  <1>1. clock' = clock => ManagersOK' /\ EnvironmentOK'
    BY FaultAssumption DEF ImportDemand, ImportReport, ControlInv, ManagersOK, EnvironmentOK
  <1>2. CASE ImportDemand(m)
    <2>1. DemandTTL \in 1 .. DemandTTL
      BY ConfigAssumption
    <2>2. RegistryNext /\ clock' = clock
      BY <1>2, <2>1, DemandCall DEF ImportDemand, DemandStep
    <2>. QED  BY <1>1, <2>2 DEF InstantStep
  <1>3. CASE ImportReport(m)
    <2>1. RegistryNext /\ clock' = clock
      BY <1>3, RecordCall DEF ImportReport, RecordStep, Reportable
    <2>. QED  BY <1>1, <2>1 DEF InstantStep
  <1>. QED  BY <1>2, <1>3

\* The beginning of a pass or of a shutdown keeps the invariant.
LEMMA StartOK ==
  ASSUME ControlInv, NEW m \in Managers, ListRecords(m) \/ ReadClock(m) \/ StartShutdown(m)
  PROVE  InstantStep
  <1>. DEFINE r == mgr[m]
  <1>. /\ r \in Manager /\ Fits(r, r.pc, clock) /\ clock \in Nat \ {0}
       /\ records \in [ServiceIds -> Record]
    BY DEF ControlInv, ManagersOK, ManagerOK, RegistryTypeOK
  <1>1. EnvironmentOK' /\ UNCHANGED regVars
    BY FaultAssumption
    DEF ListRecords, ReadClock, StartShutdown, ControlInv, EnvironmentOK, envVars
  <1>2. clock' = clock
    BY <1>1, NoCall
  <1>3. CASE ListRecords(m)
    <2>. DEFINE new == [r EXCEPT !.snap = records, !.loop = "records"]
    <2>1. Go(m, new, "listed") /\ "listed" \in Steps
      BY <1>3 DEF ListRecords, Steps
    <2>2. new \in Manager /\ new.now = r.now /\ new.loop = "records"
      BY DEF Manager, Steps
    <2>3. Fits(new, "listed", clock)
      BY <2>2 DEF Fits, Timeless, Holding, Looping
    <2>. QED  BY <1>1, <1>2, <2>1, <2>2, <2>3, GoOK, NoCall DEF InstantStep
  <1>4. CASE ReadClock(m)
    <2>. DEFINE new == [r EXCEPT !.now = clock]
    <2>1. Go(m, new, "records") /\ "records" \in Steps /\ r.pc = "listed"
      BY <1>4 DEF ReadClock, Steps
    <2>2. new \in Manager /\ new.now = clock /\ new.loop = r.loop
      BY DEF Manager
    <2>3. Fits(new, "records", clock)
      BY <2>1, <2>2 DEF Fits, Timeless, Holding, Looping, ZeroTime
    <2>. QED  BY <1>1, <1>2, <2>1, <2>2, <2>3, GoOK, NoCall DEF InstantStep
  <1>5. CASE StartShutdown(m)
    <2>. DEFINE new == [r EXCEPT !.snap = records]
    <2>1. Go(m, new, "down") /\ "down" \in Steps
      BY <1>5 DEF StartShutdown, Steps
    <2>2. new \in Manager /\ new.now = r.now
      BY DEF Manager
    <2>3. Fits(new, "down", clock)
      BY <2>2 DEF Fits, Timeless, Holding, Looping
    <2>. QED  BY <1>1, <1>2, <2>1, <2>2, <2>3, GoOK, NoCall DEF InstantStep
  <1>. QED  BY <1>3, <1>4, <1>5

\* What the invariant says of one manager's locals.
LEMMA ManagerFacts ==
  ASSUME ControlInv, NEW m \in Managers
  PROVE  /\ mgr[m] \in Manager /\ Fits(mgr[m], mgr[m].pc, clock)
         /\ mgr[m].now \in Nat /\ mgr[m].category \in Categories
         /\ mgr[m].done \in BOOLEAN /\ mgr[m].sick \in BOOLEAN
         /\ mgr[m].loop \in Steps /\ mgr[m].dem \in DemandIds \cup {0}
         /\ mgr[m].snap \in [ServiceIds -> Record]
         /\ mgr[m].todo \in [DemandIds -> Demand]
         /\ mgr[m].need \in [Tiers -> Int]
         /\ clock \in Nat \ {0}
  BY DEF ControlInv, ManagersOK, ManagerOK, Manager, RegistryTypeOK

\* The category of a job that ended is a category.
LEMMA JobCategoryType ==
  ASSUME NEW s \in EndedJob
  PROVE  JobCategory(s) \in Categories
  BY DEF JobCategory, EndedJob, Categories

\* The category a pass gives a service it retires is a category.
LEMMA VerdictType ==
  ASSUME NEW r, NEW healthy \in BOOLEAN, NEW now
  PROVE  Verdict(r, healthy, now) \in Categories
  BY DEF Verdict, Categories

\* A listed record is taken up: its id in hand and, if it fails, why.
LEMMA TakenUp ==
  ASSUME NEW r \in Manager, NEW id \in ServiceIds,
         NEW new, new = [r EXCEPT !.cur = id]
  PROVE  new \in Manager /\ new.cur = id /\ new.now = r.now /\ new.loop = r.loop
  BY DEF Manager

\* The outcomes of Inspect: a record counts as needing no cancellation only if
\* Slurm has ended its job or it was listed without one.
LEMMA InspectCases ==
  ASSUME ControlInv, NEW m \in Managers, Inspect(m)
  PROVE  \E id \in ServiceIds : LET listed == mgr[m].snap[id] IN
           /\ listed.state \in {"starting", "ready"}
           /\ \/ Abort(m) /\ UNCHANGED regVars
              \/ /\ HealthUpdate(id, TRUE) \/ UNCHANGED regVars
                 /\ \/ \E c \in Categories, d \in BOOLEAN :
                         /\ d => jobs[id] \in EndedJob \/ ~listed.job
                         /\ Go(m, [mgr[m] EXCEPT !.cur = id, !.category = c, !.done = d],
                               "retire")
                    \/ Go(m, [mgr[m] EXCEPT !.cur = id], "healthy")
                    \/ NextRecord(m, [mgr[m] EXCEPT !.cur = id])
  <1>. DEFINE r == mgr[m]
  <1>1. PICK id \in ServiceIds : LET listed == r.snap[id] IN
          /\ listed.state \in {"starting", "ready"}
          /\ \E status \in IF listed.job THEN Observed(id) ELSE {"none"},
                healthy \in BOOLEAN :
               \/ /\ listed.job /\ ~Known(id)
                  /\ Abort(m)
                  /\ UNCHANGED regVars
               \/ /\ ~listed.job \/ Known(id)
                  /\ IF status = "error" THEN HealthUpdate(id, TRUE) ELSE UNCHANGED regVars
                  /\ LET why == Verdict(listed, healthy, r.now)
                         r1 == [r EXCEPT !.cur = id]
                     IN IF status \in EndedJob
                        THEN Go(m, [r1 EXCEPT !.category = JobCategory(status),
                                              !.done = TRUE], "retire")
                        ELSE IF why # "none"
                        THEN Go(m, [r1 EXCEPT !.category = why,
                                              !.done = ~listed.job], "retire")
                        ELSE IF listed.state = "ready" THEN Go(m, r1, "healthy")
                        ELSE NextRecord(m, r1)
    BY ZenonT(120) DEF Inspect
  <1>2. \A s \in EndedJob : JobCategory(s) \in Categories
    BY JobCategoryType
  <1>3. \A h \in BOOLEAN : Verdict(r.snap[id], h, r.now) \in Categories
    BY VerdictType
  <1>4. (~r.snap[id].job) \in BOOLEAN
    OBVIOUS
  <1>5. \A status \in IF r.snap[id].job THEN Observed(id) ELSE {"none"} :
          status \in EndedJob => status = jobs[id]
    BY DEF Observed, EndedJob
  <1>. QED  BY <1>1, <1>2, <1>3, <1>4, <1>5

\* Inspecting a starting or ready record keeps the invariant.
LEMMA InspectOK ==
  ASSUME ControlInv, NEW m \in Managers, Inspect(m)
  PROVE  InstantStep
  <1>. DEFINE r == mgr[m]
  <1>. /\ r \in Manager /\ Fits(r, r.pc, clock) /\ r.now \in Nat /\ clock \in Nat
       /\ r.snap \in [ServiceIds -> Record]
    BY ManagerFacts
  <1>1. EnvironmentOK' /\ r.pc = "records"
    BY QuietEnvironment DEF Inspect
  <1>2. r.now # ZeroTime /\ r.now <= clock /\ r.loop \in {"records", "limits"}
    BY <1>1 DEF Fits, Timeless
  <1>3. PICK id \in ServiceIds :
          \/ Abort(m) /\ UNCHANGED regVars
          \/ /\ HealthUpdate(id, TRUE) \/ UNCHANGED regVars
             /\ \/ \E c \in Categories, d \in BOOLEAN :
                     Go(m, [r EXCEPT !.cur = id, !.category = c, !.done = d], "retire")
                \/ Go(m, [r EXCEPT !.cur = id], "healthy")
                \/ NextRecord(m, [r EXCEPT !.cur = id])
    BY InspectCases
  <1>4. [RegistryNext]_regVars /\ clock' = clock
    BY <1>3, RecordCall, NoCall DEF RecordStep, Abort
  <1>5. CASE Abort(m)
    BY <1>1, <1>4, <1>5, AbortOK DEF InstantStep
  <1>6. ASSUME NEW c \in Categories, NEW d \in BOOLEAN,
               Go(m, [r EXCEPT !.cur = id, !.category = c, !.done = d], "retire")
        PROVE  ManagersOK'
    <2>. DEFINE new == [r EXCEPT !.cur = id, !.category = c, !.done = d]
    <2>1. new \in Manager /\ new.cur = id /\ new.now = r.now /\ new.loop = r.loop
      BY DEF Manager
    <2>. HIDE DEF new
    <2>2. Fits(new, "retire", clock)
      BY <1>2, <2>1 DEF Fits, Timeless, Holding, Looping
    <2>3. "retire" \in Steps /\ Go(m, new, "retire")
      BY <1>6 DEF Steps, new
    <2>. QED  BY <1>4, <2>1, <2>2, <2>3, GoOK
  <1>7. ASSUME Go(m, [r EXCEPT !.cur = id], "healthy")
        PROVE  ManagersOK'
    <2>. DEFINE new == [r EXCEPT !.cur = id]
    <2>1. new \in Manager /\ new.cur = id /\ new.now = r.now /\ new.loop = r.loop
      BY TakenUp
    <2>. HIDE DEF new
    <2>2. Fits(new, "healthy", clock)
      BY <1>2, <2>1 DEF Fits, Timeless, Holding, Looping
    <2>3. "healthy" \in Steps /\ Go(m, new, "healthy")
      BY <1>7 DEF Steps, new
    <2>. QED  BY <1>4, <2>1, <2>2, <2>3, GoOK
  <1>8. ASSUME NextRecord(m, [r EXCEPT !.cur = id])
        PROVE  ManagersOK'
    <2>. DEFINE new == [r EXCEPT !.cur = id]
    <2>1. new \in Manager /\ new.cur = id /\ new.now = r.now /\ new.loop = r.loop
      BY TakenUp
    <2>. HIDE DEF new
    <2>. QED  BY <1>2, <1>4, <1>8, <2>1, NextRecordOK DEF new
  <1>. QED  BY <1>1, <1>3, <1>4, <1>5, <1>6, <1>7, <1>8 DEF InstantStep

\* Moving on with the same record: the new position asks for nothing the old
\* one did not provide.
LEMMA SameRecordGo ==
  ASSUME ControlInv, NEW m \in Managers, NEW p \in Looping, mgr[m].pc \in Looping,
         Go(m, mgr[m], p), clock' = clock
  PROVE  ManagersOK'
  <1>1. mgr[m] \in Manager /\ Fits(mgr[m], mgr[m].pc, clock) /\ p \in Steps
    BY ManagerFacts DEF Looping, Steps
  <1>2. Fits(mgr[m], p, clock)
    BY <1>1 DEF Fits, Timeless, Holding, Looping
  <1>. QED  BY <1>1, <1>2, GoOK

\* A loop over records goes on without changing its other locals.
LEMMA SameRecordNext ==
  ASSUME ControlInv, NEW m \in Managers, mgr[m].pc \in Looping,
         NextRecord(m, mgr[m]), clock' = clock
  PROVE  ManagersOK'
  <1>1. mgr[m] \in Manager /\ Fits(mgr[m], mgr[m].pc, clock)
    BY ManagerFacts
  <1>2. /\ mgr[m].now <= clock /\ mgr[m].cur \in ServiceIds
        /\ mgr[m].loop \in {"records", "limits"} /\ mgr[m].now # ZeroTime
    BY <1>1 DEF Fits, Timeless, Holding, Looping
  <1>. QED  BY <1>1, <1>2, NextRecordOK

\* A loop over records has a record and a time.
LEMMA LoopingFacts ==
  ASSUME ControlInv, NEW m \in Managers, mgr[m].pc \in Looping
  PROVE  mgr[m].cur \in ServiceIds /\ mgr[m].now \in 1 .. clock
  BY ManagerFacts DEF Fits, Timeless, Holding, Looping, ZeroTime

\* Clearing a health error and retiring a record keep the invariant.
LEMMA HealthRetireOK ==
  ASSUME ControlInv, NEW m \in Managers, ClearHealthError(m) \/ Retire(m)
  PROVE  InstantStep
  <1>. DEFINE r == mgr[m]
  <1>1. EnvironmentOK' /\ r.pc \in Looping /\ "fail" \in Looping
    BY QuietEnvironment DEF ClearHealthError, Retire, Looping
  <1>2. /\ r.cur \in ServiceIds /\ r.now \in 1 .. clock /\ r.category \in Categories
        /\ r.done \in BOOLEAN
    BY <1>1, LoopingFacts, ManagerFacts
  <1>3. CASE ClearHealthError(m)
    <2>1. \/ HealthUpdate(r.cur, FALSE) /\ NextRecord(m, r)
          \/ UNCHANGED regVars /\ Abort(m)
      BY <1>3 DEF ClearHealthError
    <2>2. [RegistryNext]_regVars /\ clock' = clock
      BY <1>2, <2>1, RecordCall, NoCall DEF RecordStep
    <2>. QED  BY <1>1, <2>1, <2>2, SameRecordNext, AbortOK DEF InstantStep
  <1>4. CASE Retire(m)
    <2>1. \/ RetireUpdate(r.cur, r.category, r.now, r.done) /\ Go(m, r, "fail")
          \/ UNCHANGED regVars /\ Abort(m)
      BY <1>4 DEF Retire
    <2>2. [RegistryNext]_regVars /\ clock' = clock
      BY <1>2, <2>1, RecordCall, NoCall DEF RecordStep
    <2>. QED  BY <1>1, <2>1, <2>2, SameRecordGo, AbortOK DEF InstantStep
  <1>. QED  BY <1>3, <1>4

\* Failing the demands of a retired service keeps the invariant.
LEMMA FailBoundOK ==
  ASSUME ControlInv, NEW m \in Managers, FailBoundDemands(m)
  PROVE  InstantStep
  <1>. DEFINE r == mgr[m]
  <1>1. /\ EnvironmentOK' /\ r.pc \in Looping
        /\ {"cancel", "delete"} \subseteq Looping
    BY QuietEnvironment DEF FailBoundDemands, Looping
  <1>2. r.cur \in ServiceIds /\ r.category \in Categories
    BY <1>1, LoopingFacts, ManagerFacts
  <1>3. FailDemandsForService(r.cur, r.category)
    BY DEF FailBoundDemands
  <1>4. RegistryNext /\ clock' = clock
    BY <1>2, <1>3, DemandCall
  <1>5. Go(m, r, "cancel") \/ Go(m, r, "delete") \/ NextRecord(m, r)
    BY DEF FailBoundDemands
  <1>. QED  BY <1>1, <1>4, <1>5, SameRecordGo, SameRecordNext DEF InstantStep

\* Cancelling a job and recording it keep the invariant.
LEMMA CancelJobOK ==
  ASSUME ControlInv, NEW m \in Managers, CancelJob(m) \/ RecordCancellation(m)
  PROVE  InstantStep
  <1>. DEFINE r == mgr[m]
  <1>1. r.pc \in Looping /\ {"cancelled", "delete"} \subseteq Looping
    BY DEF CancelJob, RecordCancellation, Looping
  <1>2. r.cur \in ServiceIds
    BY <1>1, LoopingFacts
  <1>3. CASE CancelJob(m)
    <2>1. EnvironmentOK'
      BY <1>2, <1>3
      DEF CancelJob, CancelAccepted, CancelRefused, envVars, ControlInv, EnvironmentOK
    <2>2. \/ UNCHANGED regVars /\ (Go(m, r, "cancelled") \/ Abort(m) \/ NextRecord(m, r))
          \/ HealthUpdate(r.cur, TRUE) /\ NextRecord(m, r)
      BY <1>3 DEF CancelJob
    <2>3. [RegistryNext]_regVars /\ clock' = clock
      BY <1>2, <2>2, RecordCall, NoCall DEF RecordStep
    <2>. QED
      BY <1>1, <2>1, <2>2, <2>3, SameRecordGo, SameRecordNext, AbortOK DEF InstantStep
  <1>4. CASE RecordCancellation(m)
    <2>1. EnvironmentOK'
      BY <1>4, QuietEnvironment DEF RecordCancellation
    <2>2. \/ UNCHANGED regVars /\ Abort(m)
          \/ CancelUpdate(r.cur) /\ (Go(m, r, "delete") \/ NextRecord(m, r))
      BY <1>4 DEF RecordCancellation
    <2>3. [RegistryNext]_regVars /\ clock' = clock
      BY <1>2, <2>2, RecordCall, NoCall DEF RecordStep
    <2>. QED
      BY <1>1, <2>1, <2>2, <2>3, SameRecordGo, SameRecordNext, AbortOK DEF InstantStep
  <1>. QED  BY <1>3, <1>4

\* Deleting a record keeps the invariant.
LEMMA DeleteRecordOK ==
  ASSUME ControlInv, NEW m \in Managers, DeleteRecord(m)
  PROVE  InstantStep
  <1>1. EnvironmentOK' /\ mgr[m].pc \in Looping /\ NextRecord(m, mgr[m])
    BY QuietEnvironment DEF DeleteRecord, Looping
  <1>2. Delete(mgr[m].cur) \/ UNCHANGED regVars
    BY DEF DeleteRecord
  <1>3. [RegistryNext]_regVars /\ clock' = clock
    BY <1>1, <1>2, LoopingFacts, RecordCall, NoCall DEF RecordStep
  <1>. QED  BY <1>1, <1>3, SameRecordNext DEF InstantStep

\* Merging failure categories yields a category.
LEMMA MergedCategories ==
  ASSUME NEW c \in Categories
  PROVE  /\ OrServiceFailure(c) \in Categories
         /\ \A s \in EndedJob : MergeTerminalFailure(OrServiceFailure(c), JobCategory(s)) \in Categories
  <1>1. OrServiceFailure(c) \in Categories
    BY DEF OrServiceFailure, Categories
  <1>. QED  BY <1>1, JobCategoryType DEF MergeTerminalFailure

\* The outcomes of looking at a retired record: the registry calls made and
\* the position reached.
LEMMA InspectUnhealthyCases ==
  ASSUME ControlInv, NEW m \in Managers, InspectUnhealthy(m)
  PROVE  \E id \in ServiceIds : LET listed == mgr[m].snap[id] IN
           /\ listed.state = "unhealthy"
           /\ \/ UNCHANGED regVars /\ Abort(m)
              \/ /\ \/ UNCHANGED regVars
                    \/ jobs[id] \in EndedJob /\ \E c \in Categories : TerminalUpdate(id, c)
                 /\ \/ \E c \in Categories, d \in BOOLEAN :
                         /\ d => jobs[id] \in EndedJob \/ listed.cancelRequested \/ ~listed.job
                         /\ Go(m, [mgr[m] EXCEPT !.cur = id, !.sick = TRUE,
                                                 !.category = c, !.done = d], "fail")
                    \/ NextRecord(m, [mgr[m] EXCEPT !.cur = id, !.sick = TRUE])
  <1>. DEFINE r == mgr[m]
  <1>. r.snap \in [ServiceIds -> Record]
    BY ManagerFacts
  <1>1. PICK id \in ServiceIds : LET listed == r.snap[id] IN
          /\ listed.state = "unhealthy"
          /\ \E status \in IF listed.job THEN Observed(id) ELSE {"none"} :
             LET r1 == [r EXCEPT !.cur = id, !.sick = TRUE]
                 own == OrServiceFailure(listed.category)
                 merged == MergeTerminalFailure(own, JobCategory(status))
                 waits == /\ AwaitsTerminalFailure(listed)
                          /\ \E d \in DemandIds : Bound(demands[d], id)
             IN
             CASE status \in EndedJob ->
                    \/ /\ TerminalUpdate(id, merged)
                       /\ Go(m, [r1 EXCEPT !.category = merged, !.done = TRUE], "fail")
                    \/ ~Known(id) /\ Abort(m) /\ UNCHANGED regVars
               [] status \in LiveJob \cup {"unclear"} /\ ~Known(id) -> Abort(m) /\ UNCHANGED regVars
               [] OTHER ->
                    /\ IF waits THEN NextRecord(m, r1)
                       ELSE Go(m, [r1 EXCEPT !.category = own,
                                   !.done = listed.cancelRequested \/ ~listed.job], "fail")
                    /\ UNCHANGED regVars
    BY ZenonT(120) DEF InspectUnhealthy
  <1>2. r.snap[id] \in Record /\ r.snap[id].category \in Categories
    BY DEF Record
  <1>3. /\ OrServiceFailure(r.snap[id].category) \in Categories
        /\ \A s \in EndedJob : MergeTerminalFailure(OrServiceFailure(r.snap[id].category),
                                                    JobCategory(s)) \in Categories
    BY <1>2, MergedCategories
  <1>4. (r.snap[id].cancelRequested \/ ~r.snap[id].job) \in BOOLEAN
    OBVIOUS
  <1>5. \A status \in IF r.snap[id].job THEN Observed(id) ELSE {"none"} :
          status \in EndedJob => status = jobs[id]
    BY DEF Observed, EndedJob
  <1>. QED  BY <1>1, <1>3, <1>4, <1>5

\* Looking at a retired record keeps the invariant.
LEMMA InspectUnhealthyOK ==
  ASSUME ControlInv, NEW m \in Managers, InspectUnhealthy(m)
  PROVE  InstantStep
  <1>. DEFINE r == mgr[m]
  <1>. /\ r \in Manager /\ Fits(r, r.pc, clock) /\ r.now \in Nat /\ clock \in Nat
       /\ r.snap \in [ServiceIds -> Record]
    BY ManagerFacts
  <1>1. EnvironmentOK' /\ r.pc = "records"
    BY QuietEnvironment DEF InspectUnhealthy
  <1>2. r.now # ZeroTime /\ r.now <= clock /\ r.loop \in {"records", "limits"}
    BY <1>1 DEF Fits, Timeless
  <1>3. PICK id \in ServiceIds :
          \/ UNCHANGED regVars /\ Abort(m)
          \/ /\ UNCHANGED regVars \/ \E c \in Categories : TerminalUpdate(id, c)
             /\ \/ \E c \in Categories, d \in BOOLEAN :
                     Go(m, [r EXCEPT !.cur = id, !.sick = TRUE, !.category = c, !.done = d],
                        "fail")
                \/ NextRecord(m, [r EXCEPT !.cur = id, !.sick = TRUE])
    BY InspectUnhealthyCases
  <1>4. [RegistryNext]_regVars /\ clock' = clock
    BY <1>3, RecordCall, NoCall DEF RecordStep, Abort
  <1>5. ASSUME NEW c \in Categories, NEW d \in BOOLEAN,
               Go(m, [r EXCEPT !.cur = id, !.sick = TRUE, !.category = c, !.done = d], "fail")
        PROVE  ManagersOK'
    <2>. DEFINE new == [r EXCEPT !.cur = id, !.sick = TRUE, !.category = c, !.done = d]
    <2>1. new \in Manager /\ new.cur = id /\ new.now = r.now /\ new.loop = r.loop
      BY DEF Manager
    <2>. HIDE DEF new
    <2>2. Fits(new, "fail", clock)
      BY <1>2, <2>1 DEF Fits, Timeless, Holding, Looping
    <2>3. "fail" \in Steps /\ Go(m, new, "fail")
      BY <1>5 DEF Steps, new
    <2>. QED  BY <1>4, <2>1, <2>2, <2>3, GoOK
  <1>6. ASSUME NextRecord(m, [r EXCEPT !.cur = id, !.sick = TRUE])
        PROVE  ManagersOK'
    <2>. DEFINE new == [r EXCEPT !.cur = id, !.sick = TRUE]
    <2>1. new \in Manager /\ new.cur = id /\ new.now = r.now /\ new.loop = r.loop
      BY DEF Manager
    <2>. HIDE DEF new
    <2>. QED  BY <1>2, <1>4, <1>6, <2>1, NextRecordOK DEF new
  <1>. QED  BY <1>1, <1>3, <1>4, <1>5, <1>6, AbortOK DEF InstantStep

\* Listing the records above a tier's maximum keeps the invariant.
LEMMA ListExcessOK ==
  ASSUME ControlInv, NEW m \in Managers, ListExcess(m)
  PROVE  InstantStep
  <1>. DEFINE r == mgr[m]
              over == [id \in ServiceIds |-> IF id \in Excess(r.now) THEN records[id] ELSE NoRecord]
              new == [r EXCEPT !.snap = over, !.loop = "limits"]
  <1>. r \in Manager /\ Fits(r, r.pc, clock)
    BY ManagerFacts
  <1>1. /\ EnvironmentOK' /\ r.pc = "records" /\ Go(m, new, "limits") /\ "limits" \in Steps
        /\ UNCHANGED regVars
    BY QuietEnvironment DEF ListExcess, Steps
  <1>2. over \in [ServiceIds -> Record]
    BY NoRecordType DEF ControlInv, RegistryTypeOK
  <1>. HIDE DEF over
  <1>3. new \in Manager /\ new.now = r.now /\ new.loop = "limits"
    BY <1>2 DEF Manager, Steps
  <1>4. Fits(new, "limits", clock)
    BY <1>1, <1>3 DEF Fits, Timeless, Holding, Looping
  <1>. QED  BY <1>1, <1>3, <1>4, GoOK, NoCall DEF InstantStep

\* Retiring the oldest of them keeps the invariant.
LEMMA RetireExcessOK ==
  ASSUME ControlInv, NEW m \in Managers, RetireExcess(m)
  PROVE  InstantStep
  <1>. DEFINE r == mgr[m]
  <1>. r \in Manager /\ Fits(r, r.pc, clock) /\ r.now \in Nat /\ clock \in Nat
    BY ManagerFacts
  <1>1. EnvironmentOK' /\ r.pc = "limits" /\ "fail" \in Steps
    BY QuietEnvironment DEF RetireExcess, Steps
  <1>2. r.now \in 1 .. clock /\ r.loop \in {"records", "limits"}
    BY <1>1 DEF Fits, Timeless, ZeroTime
  <1>3. PICK id \in ServiceIds :
          \/ UNCHANGED regVars /\ Abort(m)
          \/ /\ RetireUpdate(id, "service_failure", r.now, ~r.snap[id].job)
             /\ Go(m, [r EXCEPT !.cur = id, !.category = "service_failure",
                                !.done = ~r.snap[id].job], "fail")
    BY DEF RetireExcess
  <1>. DEFINE d == ~r.snap[id].job
              new == [r EXCEPT !.cur = id, !.category = "service_failure", !.done = d]
  <1>4. d \in BOOLEAN /\ "service_failure" \in Categories
    BY DEF Categories
  <1>5. [RegistryNext]_regVars /\ clock' = clock
    BY <1>2, <1>3, <1>4, RecordCall, NoCall DEF RecordStep
  <1>. HIDE DEF d
  <1>6. new \in Manager /\ new.cur = id /\ new.now = r.now /\ new.loop = r.loop
    BY <1>4 DEF Manager
  <1>. HIDE DEF new
  <1>7. Fits(new, "fail", clock)
    BY <1>2, <1>6 DEF Fits, Timeless, Holding, Looping, ZeroTime
  <1>8. ASSUME Go(m, new, "fail") PROVE ManagersOK'
    BY <1>1, <1>5, <1>6, <1>7, <1>8, GoOK
  <1>. QED  BY <1>1, <1>3, <1>5, <1>8, AbortOK DEF InstantStep, d, new

\* Listing the pending demands keeps the invariant.
LEMMA ListPendingOK ==
  ASSUME ControlInv, NEW m \in Managers, ListPendingDemands(m)
  PROVE  InstantStep
  <1>. DEFINE r == mgr[m]
              open == [d \in DemandIds |->
                         IF Open(Expired(demands[d])) THEN demands[d] ELSE NoDemand]
              new == [r EXCEPT !.todo = open]
  <1>. r \in Manager /\ Fits(r, r.pc, clock)
    BY ManagerFacts
  <1>1. /\ EnvironmentOK' /\ r.pc = "limits" /\ Go(m, new, "demands") /\ "demands" \in Steps
        /\ ExpireDemands
    BY QuietEnvironment DEF ListPendingDemands, Steps
  <1>2. open \in [DemandIds -> Demand]
    <2>1. NoDemand \in Demand
      BY ConfigAssumption DEF NoDemand, Demand, Categories, ZeroTime, NoService
    <2>. QED  BY <2>1 DEF ControlInv, RegistryTypeOK
  <1>. HIDE DEF open
  <1>3. new \in Manager /\ new.now = r.now
    BY <1>2 DEF Manager
  <1>4. Fits(new, "demands", clock)
    BY <1>1, <1>3 DEF Fits, Timeless, Holding, Looping
  <1>. QED  BY <1>1, <1>3, <1>4, GoOK, DemandCall DEF InstantStep

\* The demand in hand is settled: which one, its verdict, its service, and why.
LEMMA DemandDecided ==
  ASSUME ControlInv, NEW m \in Managers, NEW r \in Manager, clock' = clock,
         r.now <= clock, r.now # ZeroTime, r.dem \in DemandIds,
         NEW v \in {"launching", "ready", "failed"}, NEW id \in ServiceIds \cup {NoService},
         NEW c \in Categories,
         Go(m, [r EXCEPT !.verdict = v, !.cur = id, !.category = c], "decided")
  PROVE  ManagersOK'
  <1>. DEFINE new == [r EXCEPT !.verdict = v, !.cur = id, !.category = c]
  <1>1. v \in DemandStates /\ "decided" \in Steps
    BY DEF DemandStates, Steps
  <1>2. new \in Manager /\ new.now = r.now /\ new.dem = r.dem /\ new.verdict = v
    BY <1>1 DEF Manager
  <1>. HIDE DEF new
  <1>3. Fits(new, "decided", clock)
    BY <1>2 DEF Fits, Timeless, Holding, Looping
  <1>. QED  BY <1>1, <1>2, <1>3, GoOK DEF new

\* Writing the decision about a demand keeps the invariant.
LEMMA WriteDemandOK ==
  ASSUME ControlInv, NEW m \in Managers, WriteDemand(m)
  PROVE  InstantStep
  <1>. DEFINE r == mgr[m]
  <1>1. EnvironmentOK' /\ r.pc = "decided"
    BY QuietEnvironment DEF WriteDemand
  <1>2. /\ r \in Manager /\ r.now <= clock /\ r.now # ZeroTime /\ r.dem \in DemandIds
        /\ r.verdict \in {"launching", "ready", "failed"}
        /\ r.cur \in ServiceIds \cup {NoService} /\ r.category \in Categories
    BY <1>1, ManagerFacts DEF Fits, Timeless, Manager
  <1>3. \/ UpdateDemand(r.dem, r.verdict, r.cur, r.category) /\ NextDemand(m, r)
        \/ UNCHANGED regVars /\ Abort(m)
    BY DEF WriteDemand
  <1>4. [RegistryNext]_regVars /\ clock' = clock
    BY <1>2, <1>3, DemandCall, NoCall DEF DemandStep
  <1>. QED  BY <1>1, <1>2, <1>3, <1>4, NextDemandOK, AbortOK DEF InstantStep

\* The end of the loop over demands keeps the invariant.
LEMMA EndDemandsOK ==
  ASSUME ControlInv, NEW m \in Managers, EndDemands(m)
  PROVE  InstantStep
  <1>. DEFINE r == mgr[m]
              need == [t \in Tiers |->
                         LET count == Cardinality(RecordsForTier(t, r.now))
                         IN IF count < MinReplicas[t] THEN MinReplicas[t] - count ELSE 0]
              new == [r EXCEPT !.need = need]
  <1>. r \in Manager /\ Fits(r, r.pc, clock)
    BY ManagerFacts
  <1>1. /\ EnvironmentOK' /\ r.pc = "demands" /\ Go(m, new, "minimums") /\ "minimums" \in Steps
        /\ UNCHANGED regVars
    BY QuietEnvironment DEF EndDemands, Steps
  <1>2. need \in [Tiers -> Int]
    <2>1. \A t \in Tiers : /\ Cardinality(RecordsForTier(t, r.now)) \in Nat
                           /\ MinReplicas[t] \in Nat
      BY RecordsForTierFinite, FS_CardinalityType, ConfigAssumption
    <2>. QED  BY <2>1
  <1>. HIDE DEF need
  <1>3. new \in Manager /\ new.now = r.now
    BY <1>2 DEF Manager
  <1>4. Fits(new, "minimums", clock)
    BY <1>1, <1>3 DEF Fits, Timeless, Holding, Looping
  <1>. QED  BY <1>1, <1>3, <1>4, GoOK, NoCall DEF InstantStep

\* What can be decided about a demand that has a service.
LEMMA BoundOutcomes ==
  ASSUME NEW rec, NEW now
  PROVE  \/ BoundOutcome(rec, now) = <<"absent", "none">>
         \/ BoundOutcome(rec, now) = <<"ready", "none">>
         \/ BoundOutcome(rec, now) = <<"failed", "service_failure">>
         \/ BoundOutcome(rec, now) = <<"failed", OrServiceFailure(rec.category)>>
  BY DEF BoundOutcome

\* Deciding about a demand that has a service keeps the locals in order.
LEMMA DecideBoundOK ==
  ASSUME ControlInv, NEW m \in Managers, NEW d \in DemandIds,
         DecideBound(m, d), mgr[m].pc = "demands", clock' = clock
  PROVE  ManagersOK'
  <1>. DEFINE r0 == mgr[m]
              r == [r0 EXCEPT !.dem = d]
              id == r0.todo[d].service
              outcome == BoundOutcome(records[id], r0.now)
              who == IF outcome[1] = "ready" THEN id ELSE NoService
  <1>1. /\ r0 \in Manager /\ r0.now <= clock /\ r0.now # ZeroTime
        /\ id \in ServiceIds \cup {NoService}
    BY ManagerFacts DEF Fits, Timeless, Demand
  <1>2. \/ outcome = <<"absent", "none">>
        \/ outcome[1] \in {"ready", "failed"} /\ outcome[2] \in Categories
    <2>1. records[id].category \in Categories
      BY <1>1 DEF DecideBound, ControlInv, RegistryTypeOK, Record
    <2>2. OrServiceFailure(records[id].category) \in Categories
      BY <2>1, MergedCategories
    <2>. QED  BY <2>2, BoundOutcomes DEF Categories
  <1>3. \/ outcome[1] = "absent" /\ NextDemand(m, r)
        \/ /\ outcome[1] # "absent"
           /\ Go(m, [r EXCEPT !.verdict = outcome[1], !.cur = who, !.category = outcome[2]],
                 "decided")
    BY DEF DecideBound
  <1>4. /\ r \in Manager /\ r.now = r0.now /\ r.dem = d
        /\ who \in ServiceIds \cup {NoService}
    BY <1>1 DEF Manager
  <1>. HIDE DEF r, outcome, who, id
  <1>5. CASE NextDemand(m, r)
    BY <1>1, <1>4, <1>5, NextDemandOK
  <1>6. CASE /\ outcome[1] # "absent"
             /\ Go(m, [r EXCEPT !.verdict = outcome[1], !.cur = who, !.category = outcome[2]],
                   "decided")
    <2>1. outcome[1] \in {"launching", "ready", "failed"} /\ outcome[2] \in Categories
      BY <1>2, <1>6
    <2>. QED  BY <1>1, <1>4, <1>6, <2>1, DemandDecided
  <1>. QED  BY <1>3, <1>5, <1>6

\* Deciding about a demand without a service does, too.
LEMMA DecideUnboundOK ==
  ASSUME ControlInv, NEW m \in Managers, NEW d \in DemandIds,
         DecideUnbound(m, d), mgr[m].pc = "demands", clock' = clock
  PROVE  ManagersOK'
  <1>. DEFINE r0 == mgr[m]
              r == [r0 EXCEPT !.dem = d]
              healthy == HealthyIn(r.todo[d].tier, r.now)
              starting == StartingIn(r.todo[d].tier, r.now)
  <1>1. r0 \in Manager /\ r0.now <= clock /\ r0.now # ZeroTime
    BY ManagerFacts DEF Fits, Timeless
  <1>2. r \in Manager /\ r.now = r0.now /\ r.dem = d /\ r.category \in Categories
    BY <1>1 DEF Manager
  <1>3. \/ healthy # {} /\ Go(m, [r EXCEPT !.verdict = "ready", !.cur = Oldest(healthy)], "decided")
        \/ Abort(m)
        \/ NextDemand(m, r)
        \/ starting # {} /\ Go(m, [r EXCEPT !.verdict = "launching", !.cur = Youngest(starting)], "decided")
        \/ Go(m, r, "reserve")
    BY DEF DecideUnbound
  <1>4. healthy # {} => Oldest(healthy) \in ServiceIds
    BY OldestType DEF HealthyIn
  <1>5. starting # {} => Youngest(starting) \in ServiceIds
    BY YoungestType DEF StartingIn, RecordsForTier
  <1>. HIDE DEF r, healthy, starting
  <1>6. ASSUME NEW v \in {"launching", "ready", "failed"}, NEW id \in ServiceIds,
               Go(m, [r EXCEPT !.verdict = v, !.cur = id], "decided")
        PROVE  ManagersOK'
    <2>. DEFINE new == [r EXCEPT !.verdict = v, !.cur = id]
    <2>1. v \in DemandStates /\ "decided" \in Steps
      BY DEF DemandStates, Steps
    <2>2. new \in Manager /\ new.now = r.now /\ new.dem = r.dem /\ new.verdict = v
      BY <1>2, <2>1 DEF Manager
    <2>. HIDE DEF new
    <2>3. Fits(new, "decided", clock)
      BY <1>1, <1>2, <2>2 DEF Fits, Timeless, Holding, Looping
    <2>. QED  BY <1>6, <2>1, <2>2, <2>3, GoOK DEF new
  <1>7. CASE Go(m, r, "reserve")
    <2>1. "reserve" \in Steps /\ Fits(r, "reserve", clock)
      BY <1>1, <1>2 DEF Steps, Fits, Timeless, Holding, Looping
    <2>. QED  BY <1>2, <1>7, <2>1, GoOK
  <1>8. CASE NextDemand(m, r)
    BY <1>1, <1>2, <1>8, NextDemandOK
  <1>. QED  BY <1>3, <1>4, <1>5, <1>6, <1>7, <1>8, AbortOK

\* Deciding about the next demand keeps the invariant.
LEMMA DecideDemandOK ==
  ASSUME ControlInv, NEW m \in Managers, DecideDemand(m)
  PROVE  InstantStep
  <1>. DEFINE d == FirstListed(mgr[m])
  <1>1. EnvironmentOK' /\ UNCHANGED regVars /\ mgr[m].pc = "demands"
    BY QuietEnvironment DEF DecideDemand
  <1>2. DecideBound(m, d) \/ DecideUnbound(m, d)
    BY DEF DecideDemand
  <1>3. d \in DemandIds
    BY FirstListedType DEF DecideDemand
  <1>. HIDE DEF d
  <1>. QED  BY <1>1, <1>2, <1>3, DecideBoundOK, DecideUnboundOK, NoCall DEF InstantStep

\* After a launch that failed a pass goes on, or ends, with its locals in
\* order.
LEMMA LaunchFailedOK ==
  ASSUME ControlInv, NEW m \in Managers, NEW r \in Manager, LaunchFailed(m, r),
         clock' = clock, r.now <= clock, r.now # ZeroTime
  PROVE  ManagersOK'
  <1>1. CASE r.dem = 0
    BY <1>1, AbortOK DEF LaunchFailed
  <1>2. CASE r.dem # 0
    <2>. DEFINE new == [r EXCEPT !.verdict = "failed", !.category = "service_failure",
                                 !.cur = NoService]
    <2>1. /\ "failed" \in DemandStates /\ "service_failure" \in Categories
          /\ NoService \in ServiceIds \cup {NoService} /\ "decided" \in Steps
      BY DEF DemandStates, Categories, Steps
    <2>2. new \in Manager /\ new.now = r.now /\ new.dem = r.dem /\ new.verdict = "failed"
      BY <2>1 DEF Manager
    <2>3. Go(m, new, "decided") /\ r.dem \in DemandIds
      BY <1>2 DEF LaunchFailed, Manager
    <2>. HIDE DEF new
    <2>4. Fits(new, "decided", clock)
      BY <2>2, <2>3 DEF Fits, Timeless, Holding, Looping
    <2>. QED  BY <2>1, <2>2, <2>3, <2>4, GoOK
  <1>. QED  BY <1>1, <1>2

\* A reservation is a step of the registry and leaves the locals in order.
LEMMA ReserveForOK ==
  ASSUME ControlInv, NEW m \in Managers, NEW t \in Tiers, ReserveFor(m, mgr[m], t),
         mgr[m].pc \in {"reserve", "minimums"}
  PROVE  [RegistryNext]_regVars /\ ManagersOK' /\ clock' = clock
  <1>. DEFINE r == mgr[m]
  <1>. /\ r \in Manager /\ Fits(r, r.pc, clock) /\ r.now \in Nat /\ clock \in Nat
    BY ManagerFacts
  <1>1. r.now <= clock /\ r.now # ZeroTime /\ (r.dem = 0 \/ r.dem \in DemandIds)
    BY DEF Fits, Timeless, Manager
  <1>2. ASSUME issued < MaxServices, Reserve(issued + 1, t, r.now + StartupTimeout),
               Go(m, [r EXCEPT !.cur = issued + 1], "submit")
        PROVE  RegistryNext /\ ManagersOK' /\ clock' = clock
    <2>. DEFINE id == issued + 1
                new == [r EXCEPT !.cur = id]
    <2>1. id \in ServiceIds /\ r.now \in 1 .. clock
      BY <1>1, <1>2, BoundAssumption DEF ControlInv, RegistryTypeOK, ServiceIds, ZeroTime
    <2>2. RecordStep(id)
      BY <1>2, <2>1 DEF RecordStep
    <2>3. RegistryNext /\ clock' = clock
      BY <2>1, <2>2, RecordCall
    <2>. HIDE DEF id
    <2>4. new \in Manager /\ new.cur = id /\ new.now = r.now
      BY <2>1 DEF Manager
    <2>5. Go(m, new, "submit") /\ "submit" \in Steps
      BY <1>2 DEF id, Steps
    <2>. HIDE DEF new
    <2>6. Fits(new, "submit", clock)
      BY <1>1, <2>1, <2>4 DEF Fits, Timeless, Holding, Looping
    <2>. QED  BY <2>3, <2>4, <2>5, <2>6, GoOK
  <1>3. ASSUME UNCHANGED regVars, Abort(m) \/ (r.dem # 0 /\ NextDemand(m, r)) \/ LaunchFailed(m, r)
        PROVE  [RegistryNext]_regVars /\ ManagersOK' /\ clock' = clock
    <2>1. [RegistryNext]_regVars /\ clock' = clock
      BY <1>3, NoCall
    <2>. QED  BY <1>1, <1>3, <2>1, AbortOK, NextDemandOK, LaunchFailedOK
  <1>. QED  BY <1>2, <1>3 DEF ReserveFor

\* Reserving for a demand or for a tier's minimum keeps the invariant.
LEMMA ReserveOK ==
  ASSUME ControlInv, NEW m \in Managers, ReserveForDemand(m) \/ ReserveMinimum(m)
  PROVE  InstantStep
  <1>1. EnvironmentOK'
    BY QuietEnvironment DEF ReserveForDemand, ReserveMinimum
  <1>2. mgr[m].pc = "reserve" => mgr[m].todo[mgr[m].dem].tier \in Tiers
    BY ManagerFacts DEF Fits, Demand
  <1>3. \E t \in Tiers : ReserveFor(m, mgr[m], t) /\ mgr[m].pc \in {"reserve", "minimums"}
    BY <1>2 DEF ReserveForDemand, ReserveMinimum
  <1>. QED  BY <1>1, <1>3, ReserveForOK DEF InstantStep

\* Submitting a service job keeps the invariant.
LEMMA SubmitOK ==
  ASSUME ControlInv, NEW m \in Managers, SubmitService(m)
  PROVE  InstantStep
  <1>. DEFINE r == mgr[m]
  <1>. r \in Manager /\ Fits(r, r.pc, clock) /\ r.pc = "submit"
    BY ManagerFacts DEF SubmitService
  <1>1. r.now <= clock /\ r.now # ZeroTime /\ r.cur \in ServiceIds
    BY DEF Fits, Timeless, Holding
  <1>2. EnvironmentOK'
    BY <1>1 DEF SubmitService, ControlInv, EnvironmentOK, envVars, JobStates, LiveJob
  <1>3. CASE UNCHANGED regVars /\ Go(m, r, "attach")
    <2>1. "attach" \in Steps /\ Fits(r, "attach", clock)
      BY <1>1 DEF Steps, Fits, Timeless, Holding, Looping
    <2>2. [RegistryNext]_regVars /\ clock' = clock
      BY <1>3, NoCall
    <2>. QED  BY <1>2, <1>3, <2>1, <2>2, GoOK DEF InstantStep
  <1>4. CASE (Delete(r.cur) \/ UNCHANGED regVars) /\ LaunchFailed(m, r)
    <2>1. [RegistryNext]_regVars /\ clock' = clock
      BY <1>1, <1>4, RecordCall, NoCall DEF RecordStep
    <2>. QED  BY <1>1, <1>2, <1>4, <2>1, LaunchFailedOK DEF InstantStep
  <1>. QED  BY <1>3, <1>4 DEF SubmitService

\* Storing the job id with its record keeps the invariant.
LEMMA AttachOK ==
  ASSUME ControlInv, NEW m \in Managers, AttachService(m)
  PROVE  InstantStep
  <1>. DEFINE r == mgr[m]
              t == records[r.cur].tier
  <1>. r \in Manager /\ Fits(r, r.pc, clock) /\ r.pc = "attach"
    BY ManagerFacts DEF AttachService
  <1>1. r.now <= clock /\ r.now # ZeroTime /\ r.cur \in ServiceIds
    BY DEF Fits, Timeless, Holding
  <1>2. EnvironmentOK'
    BY <1>1 DEF AttachService, CancelAccepted, CancelRefused, ControlInv, EnvironmentOK, envVars
  <1>3. CASE UNCHANGED regVars /\ LaunchFailed(m, r)
    <2>1. [RegistryNext]_regVars /\ clock' = clock
      BY <1>3, NoCall
    <2>. QED  BY <1>1, <1>2, <1>3, <2>1, LaunchFailedOK DEF InstantStep
  <1>4. CASE AttachJob(r.cur)
    <2>1. RegistryNext /\ clock' = clock
      BY <1>1, <1>4, RecordCall DEF RecordStep
    <2>2. ASSUME r.dem = 0, Go(m, [r EXCEPT !.need[t] = @ - 1, !.cur = NoService], "minimums")
          PROVE  ManagersOK'
      <3>. DEFINE need == [r.need EXCEPT ![t] = @ - 1]
                  new == [r EXCEPT !.need = need, !.cur = NoService]
      <3>1. t \in Tiers /\ r.need \in [Tiers -> Int]
        BY <1>1 DEF ControlInv, RegistryTypeOK, Record, Manager
      <3>2. need \in [Tiers -> Int]
        BY <3>1
      <3>3. Go(m, new, "minimums") /\ "minimums" \in Steps
        BY <2>2 DEF Manager, Steps
      <3>. HIDE DEF need
      <3>4. new \in Manager /\ new.now = r.now
        BY <3>2 DEF Manager
      <3>. HIDE DEF new
      <3>5. Fits(new, "minimums", clock)
        BY <1>1, <3>4 DEF Fits, Timeless, Holding, Looping
      <3>. QED  BY <2>1, <3>3, <3>4, <3>5, GoOK
    <2>3. ASSUME r.dem # 0, Go(m, [r EXCEPT !.verdict = "launching"], "decided")
          PROVE  ManagersOK'
      <3>. DEFINE new == [r EXCEPT !.verdict = "launching"]
      <3>1. "launching" \in DemandStates /\ "decided" \in Steps /\ r.dem \in DemandIds
        BY <2>3 DEF DemandStates, Steps, Manager
      <3>2. new \in Manager /\ new.now = r.now /\ new.dem = r.dem /\ new.verdict = "launching"
        BY <3>1 DEF Manager
      <3>. HIDE DEF new
      <3>3. Fits(new, "decided", clock)
        BY <1>1, <3>1, <3>2 DEF Fits, Timeless, Holding, Looping
      <3>. QED  BY <2>1, <2>3, <3>1, <3>2, <3>3, GoOK DEF new
    <2>. QED  BY <1>2, <1>4, <2>1, <2>2, <2>3 DEF AttachService, AttachJob, PutRecord, InstantStep
  <1>. QED  BY <1>3, <1>4 DEF AttachService

\* Pruning old demands keeps the invariant.
LEMMA PruneOK ==
  ASSUME ControlInv, NEW m \in Managers, Prune(m)
  PROVE  InstantStep
  <1>1. mgr[m].now \in 1 .. clock
    BY ManagerFacts DEF Prune, Fits, Timeless, ZeroTime
  <1>2. RegistryNext /\ clock' = clock
    BY <1>1, DemandCall DEF Prune
  <1>. QED  BY <1>2, QuietEnvironment, AbortOK DEF Prune, InstantStep

\* A broker that dies, or ends its shutdown, keeps the invariant.
LEMMA CrashOK ==
  ASSUME ControlInv, NEW m \in Managers, Crash(m) \/ EndShutdown(m)
  PROVE  InstantStep
  <1>1. EnvironmentOK' /\ UNCHANGED regVars /\ Abort(m)
    BY FaultAssumption DEF Crash, EndShutdown, ControlInv, EnvironmentOK, envVars
  <1>. QED  BY <1>1, NoCall, AbortOK DEF InstantStep

\* The calls of a shutdown keep the invariant.
LEMMA ShutdownOK ==
  ASSUME ControlInv, NEW m \in Managers,
         ShutdownCancel(m) \/ ShutdownFail(m) \/ ShutdownDelete(m)
  PROVE  InstantStep
  <1>. DEFINE r == mgr[m]
  <1>. /\ r \in Manager /\ Fits(r, r.pc, clock) /\ r.now \in Nat /\ clock \in Nat
    BY ManagerFacts
  <1>1. CASE ShutdownCancel(m)
    <2>1. PICK id \in ServiceIds :
            /\ Go(m, [r EXCEPT !.cur = id, !.loop = "down"], "downfail")
            /\ CancelAccepted(id) \/ CancelRefused \/ UNCHANGED envVars
      BY <1>1 DEF ShutdownCancel
    <2>2. EnvironmentOK'
      BY <1>1, <2>1
      DEF ShutdownCancel, CancelAccepted, CancelRefused, ControlInv, EnvironmentOK, envVars
    <2>3. [RegistryNext]_regVars /\ clock' = clock
      BY <1>1, NoCall DEF ShutdownCancel
    <2>. DEFINE new == [r EXCEPT !.cur = id, !.loop = "down"]
    <2>4. "down" \in Steps /\ "downfail" \in Steps
      BY DEF Steps
    <2>5. new \in Manager /\ new.now = r.now /\ new.cur = id /\ new.loop = "down"
      BY <2>4 DEF Manager
    <2>. HIDE DEF new
    <2>6. Fits(new, "downfail", clock)
      BY <2>5 DEF Fits, Timeless, Holding, Looping
    <2>. QED  BY <2>1, <2>2, <2>3, <2>4, <2>5, <2>6, GoOK DEF InstantStep, new
  <1>2. CASE ShutdownFail(m)
    <2>1. /\ r.cur \in ServiceIds /\ r.loop = "down"
          /\ "downdelete" \in Steps /\ "service_failure" \in Categories
      BY <1>2 DEF ShutdownFail, Fits, Holding, Steps, Categories
    <2>2. RegistryNext /\ clock' = clock
      BY <1>2, <2>1, DemandCall DEF ShutdownFail
    <2>3. Fits(r, "downdelete", clock)
      BY <2>1 DEF Fits, Timeless, Holding, Looping
    <2>. QED
      BY <1>2, <2>1, <2>2, <2>3, QuietEnvironment, GoOK DEF ShutdownFail, InstantStep
  <1>3. CASE ShutdownDelete(m)
    <2>1. r.cur \in ServiceIds /\ r.loop = "down"
      BY <1>3 DEF ShutdownDelete, Fits, Holding
    <2>2. [RegistryNext]_regVars /\ clock' = clock
      BY <1>3, <2>1, RecordCall, NoCall DEF ShutdownDelete, RecordStep
    <2>3. NextRecord(m, r) /\ r.now <= clock
      BY <1>3 DEF ShutdownDelete, Fits
    <2>. QED
      BY <1>3, <2>1, <2>2, <2>3, QuietEnvironment, NextRecordOK DEF ShutdownDelete, InstantStep
  <1>. QED  BY <1>1, <1>2, <1>3

\* Every step of a manager keeps the invariant.
LEMMA ManagerStepOK ==
  ASSUME ControlInv, NEW m \in Managers, ManagerStep(m)
  PROVE  InstantStep
  BY ImportOK, StartOK, InspectOK, InspectUnhealthyOK, HealthRetireOK, FailBoundOK,
     CancelJobOK, DeleteRecordOK, ListExcessOK, RetireExcessOK, ListPendingOK,
     DecideDemandOK, WriteDemandOK, EndDemandsOK, ReserveOK, SubmitOK, AttachOK,
     PruneOK, ShutdownOK, CrashOK
  DEF ManagerStep, PassStep

\* Managers are in order if nothing happens to them.
LEMMA IdleManagers ==
  ASSUME ControlInv, UNCHANGED mgr, clock' = clock
  PROVE  ManagersOK'
  BY DEF ControlInv, ManagersOK

\* The steps of launchers and of Slurm keep the invariant.
LEMMA LauncherStepOK ==
  ASSUME ControlInv, NEW id \in ServiceIds, LauncherStep(id) \/ SlurmStep(id)
  PROVE  InstantStep
  <1>1. UNCHANGED mgr
    BY DEF LauncherStep, SlurmStep, RuntimeUp, Heartbeat, RuntimeExits, LauncherFails,
           JobStarts, JobCancelled, JobExits, JobKilled, JobEnds
  <1>2. \/ LauncherPublish(id) \/ Renew(id) \/ MarkUnhealthy(id)
        \/ UNCHANGED regVars
    BY DEF LauncherStep, SlurmStep, RuntimeUp, Heartbeat, RuntimeExits, LauncherFails,
           JobStarts, JobCancelled, JobExits, JobKilled, JobEnds
  <1>3. [RegistryNext]_regVars /\ clock' = clock
    BY <1>2, RecordCall, NoCall DEF RecordStep
  <1>4. CASE LauncherStep(id)
    <2>1. UNCHANGED <<jobs, cancelling, crashes>>
      BY <1>4 DEF LauncherStep, RuntimeUp, Heartbeat, RuntimeExits, LauncherFails
    <2>2. launcher' = launcher \/ \E p \in LauncherStates : LauncherGoes(id, p)
      BY <1>4
      DEF LauncherStep, RuntimeUp, Heartbeat, RuntimeExits, LauncherFails, LauncherStates
    <2>3. EnvironmentOK'
      BY <2>1, <2>2 DEF ControlInv, EnvironmentOK, LauncherGoes
    <2>. QED  BY <1>1, <1>3, <2>3, IdleManagers DEF InstantStep
  <1>5. CASE SlurmStep(id)
    <2>1. \E s \in JobStates, p \in LauncherStates :
            /\ jobs' = [jobs EXCEPT ![id] = s]
            /\ LauncherGoes(id, p)
            /\ cancelling' \subseteq cancelling
            /\ crashes' = crashes
      BY <1>5
      DEF SlurmStep, JobStarts, JobCancelled, JobExits, JobKilled, JobEnds,
          JobStates, LiveJob, EndedJob, LauncherStates
    <2>2. EnvironmentOK'
      BY <2>1 DEF ControlInv, EnvironmentOK, LauncherGoes
    <2>. QED  BY <1>1, <1>3, <2>2, IdleManagers DEF InstantStep
  <1>. QED  BY <1>4, <1>5

\* Time passes for the registry, and locals that hold a past time keep one.
LEMMA TimePassesOK ==
  ASSUME ControlInv, TimePasses
  PROVE  RegistryNext /\ EnvironmentOK' /\ ManagersOK'
  <1>1. clock \in Nat /\ clock' = clock + 1 /\ mgr' = mgr
    BY DEF TimePasses, Tick, ControlInv, RegistryTypeOK
  <1>2. ASSUME NEW m \in Managers
        PROVE  ManagerOK(mgr[m], clock + 1)
    <2>1. ManagerOK(mgr[m], clock) /\ mgr[m].now \in Nat
      BY ManagerFacts DEF ControlInv, ManagersOK
    <2>. QED  BY <1>1, <2>1 DEF ManagerOK, Fits
  <1>3. ManagersOK'
    BY <1>1, <1>2 DEF ControlInv, ManagersOK
  <1>. QED  BY <1>3 DEF TimePasses, RegistryNext, ControlInv, EnvironmentOK

\* Every step of the control plane keeps the invariant and is a step, or a
\* stutter, of the registry.
LEMMA NextOK ==
  ASSUME ControlInv, [Next]_vars
  PROVE  [RegistryNext]_regVars /\ ControlInv'
  <1>1. CASE UNCHANGED vars
    BY <1>1 DEF vars, regVars, ControlInv, RegistryTypeOK, EnvironmentOK, ManagersOK
  <1>2. CASE Next
    <2>1. [RegistryNext]_regVars /\ EnvironmentOK' /\ ManagersOK'
      BY <1>2, ManagerStepOK, LauncherStepOK, TimePassesOK DEF Next, InstantStep
    <2>2. RegistryTypeOK'
      BY <2>1, NextRegistryType DEF ControlInv
    <2>. QED  BY <2>1, <2>2 DEF ControlInv
  <1>. QED  BY <1>1, <1>2

\* The control plane starts with an empty registry and idle managers.
LEMMA InitOK == Init => RegistryInit /\ ControlInv
  <1>. SUFFICES ASSUME Init PROVE RegistryInit /\ ControlInv
    OBVIOUS
  <1>1. RegistryInit /\ RegistryTypeOK
    BY InitLeaseInv DEF Init, LeaseInv
  <1>2. EnvironmentOK
    BY FaultAssumption DEF Init, EnvironmentOK, JobStates, LauncherStates
  <1>3. ManagerOK(IdleManager, clock) /\ IdleManager \in Manager
    BY <1>1, IdleManagerOK DEF RegistryTypeOK, ManagerOK
  <1>4. ManagersOK
    BY <1>3 DEF Init, ManagersOK
  <1>. QED  BY <1>1, <1>2, <1>4 DEF ControlInv

\* What every reconciler knows at every position, for any number of brokers.
THEOREM ControlInvariant == Spec => []ControlInv
  BY InitOK, NextOK, PTL DEF Spec

\* Type correctness of the control plane: every position of a pass has the
\* record, demand, category and instant it goes on to use.
THEOREM ControlTypeCorrect == Spec => []ControlTypeOK
  <1>1. ControlInv => ControlTypeOK
    BY DEF ControlInv, EnvironmentOK, ManagersOK, ManagerOK, Fits, Manager, ControlTypeOK,
           JobStates, LauncherStates, RegistryTypeOK
  <1>. QED  BY <1>1, ControlInvariant, PTL

\* The refinement: reconcilers, launchers and Slurm use the registry only as its
\* contract allows, whatever fails, dies or is delayed.
THEOREM ControlPlaneImplementsRegistry == Spec => RegistrySpec
  <1>1. Init => RegistryInit
    BY InitOK
  <1>2. ControlInv /\ [Next]_vars => [RegistryNext]_regVars
    BY NextOK
  <1>. QED  BY <1>1, <1>2, ControlInvariant, PTL DEF Spec, RegistrySpec

\* So what the registry promises any client holds in the running system: a
\* retired or lapsed scale-from-zero lease never becomes live again ...
THEOREM ControlPlaneLapsedStaysLapsed == Spec => LapsedStaysLapsed
  BY ControlPlaneImplementsRegistry, LapsedLeasesStayLapsed, PTL

\* ... and the live leases of a scale-from-zero tier stay within its maximum.
THEOREM ControlPlaneScaleZeroLimit == Spec => []ScaleZeroReplicaLimit
  BY ControlPlaneImplementsRegistry, ScaleZeroLimitHolds, PTL

\* ... and the tiers that scale from zero are semaphores: no permit is taken above
\* the limit or a second time, with brokers that race and die.
THEOREM ControlPlaneKeepsCapacity == Spec => CapacityIsKept
  BY ControlPlaneImplementsRegistry, RegistryKeepsCapacity, PTL

-----------------------------------------------------------------------------
(* One broker that does not die forgets no job *)

\* The job of a service needs no further cancellation.
Covered(id) == jobs[id] \in LiveJob => id \in cancelling

\* Slurm and the launchers: only a running job has a launcher, only a live one
\* is being cancelled, only a reserved id was submitted.
JobsOK ==
  /\ \A id \in ServiceIds : id > issued => jobs[id] = "none"
  /\ \A id \in ServiceIds : launcher[id] # "off" => jobs[id] = "running"
  /\ \A id \in cancelling : jobs[id] \in LiveJob

AbsentIsNoRecord == \A id \in ServiceIds : ~Known(id) => records[id] = NoRecord

\* A reservation stays until its job is attached.
LaunchOK(r) ==
  /\ r.pc \in {"submit", "attach"} => Known(r.cur) /\ ~records[r.cur].cancelRequested
  /\ r.pc = "submit" => jobs[r.cur] = "none"

\* Nothing to cancel: no job is recorded, or its cancellation is.
Settled(rec) == ~rec.job \/ rec.cancelRequested

SettledCovered(r) ==
  \A id \in ServiceIds :
    Known(id) /\ Settled(records[id]) => Covered(id) \/ (r.pc = "attach" /\ r.cur = id)

ListedCovered(r) ==
  r.pc \in Looping \cup {"listed", "records", "limits"} =>
    \A id \in ServiceIds :
      r.snap[id] # NoRecord /\ Settled(r.snap[id]) => Covered(id)

HandCovered(r) ==
  r.pc \in {"delete", "cancelled"} \/ (r.pc \in {"retire", "fail"} /\ r.done)
  => Covered(r.cur)

Remembered(r) ==
  \A id \in ServiceIds :
    jobs[id] \in LiveJob =>
      Known(id) \/ id \in cancelling \/ (r.pc = "attach" /\ r.cur = id)

BrokerInv(r) ==
  /\ JobsOK
  /\ AbsentIsNoRecord
  /\ r.pc \notin {"down", "downfail", "downdelete"}
  /\ LaunchOK(r)
  /\ SettledCovered(r)
  /\ ListedCovered(r)
  /\ HandCovered(r)
  /\ Remembered(r)

OneBrokerInv == crashes = 0 => \A m \in Managers : BrokerInv(mgr[m])

\* Where a move takes the reconciler.
LEMMA GoFields ==
  ASSUME ControlInv, NEW m \in Managers, NEW r \in Manager, NEW p, Go(m, r, p)
  PROVE  /\ mgr'[m].pc = p /\ mgr'[m].cur = r.cur
         /\ mgr'[m].snap = r.snap /\ mgr'[m].done = r.done
  BY DEF Go, ControlInv, ManagersOK, Manager

\* What going on to another position does to the locals about demands.
LEMMA GoDemand ==
  ASSUME ControlInv, NEW m \in Managers, NEW r \in Manager, NEW p, Go(m, r, p)
  PROVE  mgr'[m].pc = p /\ mgr'[m].dem = r.dem /\ mgr'[m].todo = r.todo
  BY DEF Go, ControlInv, ManagersOK, Manager

\* A pass that gives up is between passes.
LEMMA AbortFields ==
  ASSUME ControlInv, NEW m \in Managers, Abort(m)
  PROVE  mgr'[m].pc = "idle"
  BY DEF Abort, ControlInv, ManagersOK, IdleManager

\* Going on with the next record forgets the one just handled.
LEMMA NextRecordFields ==
  ASSUME ControlInv, NEW m \in Managers, NEW r \in Manager, r.cur \in ServiceIds,
         NextRecord(m, r)
  PROVE  /\ mgr'[m].pc = r.loop
         /\ mgr'[m].snap = [r.snap EXCEPT ![r.cur] = NoRecord]
  <1>. DEFINE left == [r.snap EXCEPT ![r.cur] = NoRecord]
              new == [r EXCEPT !.snap = left, !.cur = NoService, !.sick = FALSE,
                               !.category = "none", !.done = FALSE, !.pc = r.loop]
  <1>1. mgr' = [mgr EXCEPT ![m] = new]
    BY DEF NextRecord, Go, Manager
  <1>2. mgr'[m] = new
    BY <1>1 DEF ControlInv, ManagersOK
  <1>. HIDE DEF left
  <1>3. new.pc = r.loop /\ new.snap = left
    BY DEF Manager
  <1>. QED  BY <1>2, <1>3 DEF left

\* Going on with the next demand forgets the one just handled.
LEMMA NextDemandFields ==
  ASSUME ControlInv, NEW m \in Managers, NEW r \in Manager, NextDemand(m, r)
  PROVE  /\ mgr'[m].pc = "demands" /\ mgr'[m].dem = 0
         /\ mgr'[m].todo = [r.todo EXCEPT ![r.dem] = NoDemand]
  <1>. DEFINE left == [r.todo EXCEPT ![r.dem] = NoDemand]
              new == [r EXCEPT !.todo = left, !.dem = 0, !.verdict = "absent",
                               !.cur = NoService, !.category = "none", !.pc = "demands"]
  <1>1. mgr' = [mgr EXCEPT ![m] = new]
    BY DEF NextDemand, Go, Manager
  <1>2. mgr'[m] = new
    BY <1>1 DEF ControlInv, ManagersOK
  <1>. HIDE DEF left
  <1>3. new.pc = "demands" /\ new.dem = 0 /\ new.todo = left
    BY DEF Manager
  <1>. QED  BY <1>2, <1>3 DEF left

\* Cancellations are accepted for live jobs only and not taken back.
CancellationsGrow ==
  /\ UNCHANGED <<jobs, launcher>>
  /\ cancelling \subseteq cancelling'
  /\ \A id \in cancelling' \ cancelling : jobs[id] \in LiveJob

\* A record is deleted, or its cancellation noted, only with its job covered.
RecordsStayCovered ==
  \A id \in ServiceIds :
    \/ records'[id] = records[id]
    \/ /\ Known(id)
       /\ \/ records'[id] = NoRecord
          \/ records'[id].state # "absent"
       /\ records'[id].state = "absent" \/ Settled(records'[id]) => Covered(id)'

\* The steps of a pass but reserving, submitting and attaching.
LEMMA ManagingKeepsBroker ==
  ASSUME NEW m \in Managers, BrokerInv(mgr[m]), issued' = issued,
         CancellationsGrow, RecordsStayCovered,
         mgr[m].pc # "attach",
         mgr'[m].pc \notin {"down", "downfail", "downdelete", "submit", "attach"},
         ListedCovered(mgr[m])', HandCovered(mgr[m])'
  PROVE  BrokerInv(mgr[m])'
  <1>. NoRecord.state = "absent" /\ ~NoRecord.job
    BY DEF NoRecord, Absent
  <1>1. JobsOK' /\ AbsentIsNoRecord' /\ LaunchOK(mgr[m])'
    BY DEF BrokerInv, JobsOK, AbsentIsNoRecord, LaunchOK, CancellationsGrow,
           RecordsStayCovered, Known
  <1>2. SettledCovered(mgr[m])'
    BY DEF BrokerInv, SettledCovered, CancellationsGrow, RecordsStayCovered, Known, Covered
  <1>3. Remembered(mgr[m])'
    BY DEF BrokerInv, Remembered, CancellationsGrow, RecordsStayCovered, Known, Covered
  <1>. QED  BY <1>1, <1>2, <1>3 DEF BrokerInv

\* The records still listed are among those listed before.
LEMMA ListedKept ==
  ASSUME NEW m \in Managers, BrokerInv(mgr[m]), CancellationsGrow,
         mgr[m].pc \in Looping \cup {"listed", "records", "limits"},
         \A id \in ServiceIds : mgr'[m].snap[id] \in {mgr[m].snap[id], NoRecord}
  PROVE  ListedCovered(mgr[m])'
  BY DEF BrokerInv, ListedCovered, CancellationsGrow, Covered

\* If nothing happens to jobs, whatever was covered still is.
LEMMA NothingCancelled ==
  ASSUME UNCHANGED envVars
  PROVE  CancellationsGrow
  BY DEF envVars, CancellationsGrow

\* If no record changes, the records stay covered.
LEMMA NoRecordChanged ==
  ASSUME UNCHANGED records
  PROVE  RecordsStayCovered
  BY DEF RecordsStayCovered

\* Back to the loop: nothing in hand, one listed record less.
LEMMA NextRecordBroker ==
  ASSUME ControlInv, NEW m \in Managers, BrokerInv(mgr[m]), issued' = issued,
         CancellationsGrow, RecordsStayCovered,
         mgr[m].pc \in Looping \cup {"records"},
         NEW r \in Manager, NextRecord(m, r), r.snap = mgr[m].snap, r.loop = mgr[m].loop,
         r.cur \in ServiceIds
  PROVE  BrokerInv(mgr[m])'
  <1>1. r.loop \in {"records", "limits"}
    BY ManagerFacts DEF Fits
  <1>2. /\ mgr'[m].pc = r.loop
        /\ mgr'[m].snap = [r.snap EXCEPT ![r.cur] = NoRecord]
        /\ mgr[m].snap \in [ServiceIds -> Record]
    BY NextRecordFields, ManagerFacts
  <1>3. ListedCovered(mgr[m])'
    BY <1>2, ListedKept
  <1>4. HandCovered(mgr[m])'
    BY <1>1, <1>2 DEF HandCovered
  <1>. QED  BY <1>1, <1>2, <1>3, <1>4, ManagingKeepsBroker DEF Looping

\* A pass that gives up holds no job, unless it was about to attach one.
LEMMA AbortBroker ==
  ASSUME ControlInv, NEW m \in Managers, BrokerInv(mgr[m]), issued' = issued,
         CancellationsGrow, RecordsStayCovered, Abort(m), mgr[m].pc # "attach"
  PROVE  BrokerInv(mgr[m])'
  <1>1. mgr'[m].pc = "idle"
    BY AbortFields
  <1>2. ListedCovered(mgr[m])' /\ HandCovered(mgr[m])'
    BY <1>1 DEF ListedCovered, HandCovered, Looping
  <1>. QED  BY <1>1, <1>2, ManagingKeepsBroker

\* On with the record in hand.
LEMMA HandBroker ==
  ASSUME ControlInv, NEW m \in Managers, BrokerInv(mgr[m]), issued' = issued,
         CancellationsGrow, RecordsStayCovered,
         mgr[m].pc \in Looping \cup {"records", "limits"},
         NEW r \in Manager, NEW p \in Looping, Go(m, r, p), r.snap = mgr[m].snap,
         p \in {"delete", "cancelled"} \/ (p \in {"retire", "fail"} /\ r.done)
         => Covered(r.cur)'
  PROVE  BrokerInv(mgr[m])'
  <1>1. /\ mgr'[m].pc = p /\ mgr'[m].snap = mgr[m].snap
        /\ mgr'[m].cur = r.cur /\ mgr'[m].done = r.done
    BY GoFields
  <1>2. ListedCovered(mgr[m])'
    BY <1>1, ListedKept
  <1>3. HandCovered(mgr[m])'
    BY <1>1 DEF HandCovered, Covered
  <1>. QED  BY <1>1, <1>2, <1>3, ManagingKeepsBroker DEF Looping

\* An update of one record: deleted or noted with its job covered, or no news.
LEMMA PutCovered ==
  ASSUME ControlInv, NEW id \in ServiceIds, NEW rec, PutRecord(id, rec),
         rec = NoRecord \/ rec.state # "absent",
         rec.state = "absent" \/ Settled(rec) => Covered(id)'
  PROVE  RecordsStayCovered
  BY DEF RecordsStayCovered, PutRecord, ControlInv, RegistryTypeOK

\* What the updates of a record say of its job and of the cancellation.
LEMMA UpdatesStayCovered ==
  ASSUME ControlInv, NEW m \in Managers, BrokerInv(mgr[m]), mgr[m].pc # "attach",
         CancellationsGrow, NEW id \in ServiceIds,
         \/ \E failed \in BOOLEAN : HealthUpdate(id, failed)
         \/ \E c, now : \E d \in BOOLEAN :
              RetireUpdate(id, c, now, d) /\ (d => Covered(id)')
         \/ (\E c : TerminalUpdate(id, c)) /\ Covered(id)'
         \/ CancelUpdate(id) /\ Covered(id)'
         \/ Delete(id) /\ Covered(id)'
  PROVE  RecordsStayCovered /\ issued' = issued
  <1>. DEFINE old == records[id]
  <1>. old \in Record
    BY DEF ControlInv, RegistryTypeOK
  <1>1. Known(id) /\ Settled(old) => Covered(id)'
    BY DEF BrokerInv, SettledCovered, Covered, CancellationsGrow
  <1>2. issued' = issued /\ Known(id)
    BY DEF HealthUpdate, RetireUpdate, TerminalUpdate, CancelUpdate, Delete, PutRecord
  <1>3. ASSUME NEW failed \in BOOLEAN, HealthUpdate(id, failed)
        PROVE  RecordsStayCovered
    <2>. DEFINE rec == [old EXCEPT !.healthError = failed]
    <2>1. PutRecord(id, rec)
      BY <1>3 DEF HealthUpdate
    <2>2. rec.state = old.state /\ rec.job = old.job /\ rec.cancelRequested = old.cancelRequested
      BY DEF Record
    <2>. HIDE DEF rec
    <2>. QED  BY <1>1, <1>2, <2>1, <2>2, PutCovered DEF Known, Settled
  <1>4. ASSUME NEW c, NEW now, NEW d \in BOOLEAN, RetireUpdate(id, c, now, d), d => Covered(id)'
        PROVE  RecordsStayCovered
    <2>. DEFINE rec == [old EXCEPT !.state = "unhealthy", !.healthError = TRUE,
                                   !.category = c, !.lease = now, !.cancelRequested = d]
    <2>1. PutRecord(id, rec)
      BY <1>4 DEF RetireUpdate
    <2>2. rec.state = "unhealthy" /\ rec.job = old.job /\ rec.cancelRequested = d
      BY DEF Record
    <2>. HIDE DEF rec
    <2>. QED  BY <1>1, <1>2, <1>4, <2>1, <2>2, PutCovered DEF Settled
  <1>5. ASSUME NEW c, TerminalUpdate(id, c), Covered(id)'
        PROVE  RecordsStayCovered
    <2>. DEFINE rec == [old EXCEPT !.category = c, !.healthError = TRUE, !.cancelRequested = TRUE]
    <2>1. PutRecord(id, rec) /\ rec.state = old.state
      BY <1>5 DEF TerminalUpdate, Record
    <2>. HIDE DEF rec
    <2>. QED  BY <1>2, <1>5, <2>1, PutCovered DEF Known
  <1>6. ASSUME CancelUpdate(id), Covered(id)'
        PROVE  RecordsStayCovered
    <2>. DEFINE rec == [old EXCEPT !.cancelRequested = TRUE]
    <2>1. PutRecord(id, rec) /\ rec.state = old.state
      BY <1>6 DEF CancelUpdate, Record
    <2>. HIDE DEF rec
    <2>. QED  BY <1>2, <1>6, <2>1, PutCovered DEF Known
  <1>7. ASSUME Delete(id), Covered(id)'
        PROVE  RecordsStayCovered
    BY <1>7, PutCovered DEF Delete
  <1>. QED  BY <1>2, <1>3, <1>4, <1>5, <1>6, <1>7

\* A job that ended needs no record any more.
LEMMA EndedIsCovered ==
  ASSUME NEW id \in ServiceIds, CancellationsGrow, jobs[id] \in EndedJob
  PROVE  Covered(id)'
  BY DEF Covered, CancellationsGrow, EndedJob, LiveJob

\* A listed record that was settled is still settled, or its job over.
LEMMA ListedIsCovered ==
  ASSUME NEW m \in Managers, BrokerInv(mgr[m]), CancellationsGrow,
         mgr[m].pc \in {"records", "limits"},
         NEW id \in ServiceIds, mgr[m].snap[id] # NoRecord, Settled(mgr[m].snap[id])
  PROVE  Covered(id)'
  BY DEF BrokerInv, ListedCovered, Covered, CancellationsGrow

\* The record a pass is about to delete has a job that is over or cancelled.
LEMMA HeldIsCovered ==
  ASSUME NEW m \in Managers, BrokerInv(mgr[m]), CancellationsGrow,
         \/ mgr[m].pc \in {"delete", "cancelled"}
         \/ mgr[m].pc \in {"retire", "fail"} /\ mgr[m].done,
         NEW id, id = mgr[m].cur
  PROVE  Covered(id)'
  BY DEF BrokerInv, HandCovered, Covered, CancellationsGrow

\* Without a call of the registry the records stay covered.
LEMMA RegistryIdle ==
  ASSUME UNCHANGED regVars
  PROVE  issued' = issued /\ RecordsStayCovered
  BY NoRecordChanged DEF regVars

\* The value for no record is absent and has no job.
LEMMA NoRecordIsAbsent == NoRecord.state = "absent" /\ ~NoRecord.job
  BY DEF NoRecord, Absent

\* Inspecting a record keeps every job on record.
LEMMA InspectBroker ==
  ASSUME ControlInv, NEW m \in Managers, BrokerInv(mgr[m]), Inspect(m)
  PROVE  BrokerInv(mgr[m])'
  <1>. DEFINE r == mgr[m]
  <1>. r \in Manager
    BY ManagerFacts
  <1>1. r.pc = "records" /\ CancellationsGrow
    BY NothingCancelled DEF Inspect
  <1>2. PICK id \in ServiceIds : LET listed == r.snap[id] IN
          /\ listed.state \in {"starting", "ready"}
          /\ \/ Abort(m) /\ UNCHANGED regVars
             \/ /\ HealthUpdate(id, TRUE) \/ UNCHANGED regVars
                /\ \/ \E c \in Categories, d \in BOOLEAN :
                        /\ d => jobs[id] \in EndedJob \/ ~listed.job
                        /\ Go(m, [r EXCEPT !.cur = id, !.category = c, !.done = d], "retire")
                   \/ Go(m, [r EXCEPT !.cur = id], "healthy")
                   \/ NextRecord(m, [r EXCEPT !.cur = id])
    BY InspectCases
  <1>3. RecordsStayCovered /\ issued' = issued
    BY <1>1, <1>2, UpdatesStayCovered, RegistryIdle
  <1>4. r.snap[id] # NoRecord
    BY <1>2, NoRecordIsAbsent
  <1>5. CASE Abort(m)
    BY <1>1, <1>3, <1>5, AbortBroker
  <1>6. ASSUME NEW c \in Categories, NEW d \in BOOLEAN,
               d => jobs[id] \in EndedJob \/ ~r.snap[id].job,
               Go(m, [r EXCEPT !.cur = id, !.category = c, !.done = d], "retire")
        PROVE  BrokerInv(mgr[m])'
    <2>. DEFINE new == [r EXCEPT !.cur = id, !.category = c, !.done = d]
    <2>1. new \in Manager /\ new.cur = id /\ new.snap = r.snap /\ new.done = d
      BY DEF Manager
    <2>2. d => Covered(id)'
      BY <1>1, <1>4, <1>6, EndedIsCovered, ListedIsCovered DEF Settled
    <2>3. "retire" \in Looping /\ Go(m, new, "retire")
      BY <1>6 DEF Looping
    <2>. HIDE DEF new
    <2>. QED  BY <1>1, <1>3, <2>1, <2>2, <2>3, HandBroker
  <1>7. ASSUME Go(m, [r EXCEPT !.cur = id], "healthy") \/ NextRecord(m, [r EXCEPT !.cur = id])
        PROVE  BrokerInv(mgr[m])'
    <2>. DEFINE new == [r EXCEPT !.cur = id]
    <2>1. new \in Manager /\ new.cur = id /\ new.snap = r.snap /\ new.loop = r.loop
      BY DEF Manager
    <2>2. "healthy" \in Looping /\ (Go(m, new, "healthy") \/ NextRecord(m, new))
      BY <1>7 DEF Looping
    <2>. HIDE DEF new
    <2>. QED  BY <1>1, <1>3, <2>1, <2>2, HandBroker, NextRecordBroker
  <1>. QED  BY <1>2, <1>5, <1>6, <1>7

\* Looking at a retired record keeps every job on record, and deletes only
\* what is over.
LEMMA InspectUnhealthyBroker ==
  ASSUME ControlInv, NEW m \in Managers, BrokerInv(mgr[m]), InspectUnhealthy(m)
  PROVE  BrokerInv(mgr[m])'
  <1>. DEFINE r == mgr[m]
  <1>. r \in Manager
    BY ManagerFacts
  <1>1. r.pc = "records" /\ CancellationsGrow
    BY NothingCancelled DEF InspectUnhealthy
  <1>2. PICK id \in ServiceIds : LET listed == r.snap[id] IN
          /\ listed.state = "unhealthy"
          /\ \/ UNCHANGED regVars /\ Abort(m)
             \/ /\ \/ UNCHANGED regVars
                   \/ jobs[id] \in EndedJob /\ \E c \in Categories : TerminalUpdate(id, c)
                /\ \/ \E c \in Categories, d \in BOOLEAN :
                        /\ d => jobs[id] \in EndedJob \/ listed.cancelRequested \/ ~listed.job
                        /\ Go(m, [r EXCEPT !.cur = id, !.sick = TRUE,
                                           !.category = c, !.done = d], "fail")
                   \/ NextRecord(m, [r EXCEPT !.cur = id, !.sick = TRUE])
    BY InspectUnhealthyCases
  <1>3. RecordsStayCovered /\ issued' = issued
    BY <1>1, <1>2, UpdatesStayCovered, RegistryIdle, EndedIsCovered
  <1>4. r.snap[id] # NoRecord
    BY <1>2, NoRecordIsAbsent
  <1>5. CASE Abort(m)
    BY <1>1, <1>3, <1>5, AbortBroker
  <1>6. ASSUME NEW c \in Categories, NEW d \in BOOLEAN,
               d => jobs[id] \in EndedJob \/ Settled(r.snap[id]),
               Go(m, [r EXCEPT !.cur = id, !.sick = TRUE, !.category = c, !.done = d], "fail")
        PROVE  BrokerInv(mgr[m])'
    <2>. DEFINE new == [r EXCEPT !.cur = id, !.sick = TRUE, !.category = c, !.done = d]
    <2>1. new \in Manager /\ new.cur = id /\ new.snap = r.snap /\ new.done = d
      BY DEF Manager
    <2>2. d => Covered(id)'
      BY <1>1, <1>4, <1>6, EndedIsCovered, ListedIsCovered
    <2>3. "fail" \in Looping /\ Go(m, new, "fail")
      BY <1>6 DEF Looping
    <2>. HIDE DEF new
    <2>. QED  BY <1>1, <1>3, <2>1, <2>2, <2>3, HandBroker
  <1>7. ASSUME NextRecord(m, [r EXCEPT !.cur = id, !.sick = TRUE])
        PROVE  BrokerInv(mgr[m])'
    <2>. DEFINE new == [r EXCEPT !.cur = id, !.sick = TRUE]
    <2>1. new \in Manager /\ new.cur = id /\ new.snap = r.snap /\ new.loop = r.loop
      BY DEF Manager
    <2>. HIDE DEF new
    <2>. QED  BY <1>1, <1>3, <1>7, <2>1, NextRecordBroker DEF new
  <1>. QED  BY <1>2, <1>5, <1>6, <1>7 DEF Settled

\* A position from which the pass works on no listed record.
LEMMA MoveBroker ==
  ASSUME ControlInv, NEW m \in Managers, BrokerInv(mgr[m]), issued' = issued,
         CancellationsGrow, RecordsStayCovered, mgr[m].pc # "attach",
         mgr'[m].pc \in {"idle", "demands", "decided", "reserve", "minimums"}
  PROVE  BrokerInv(mgr[m])'
  <1>1. ListedCovered(mgr[m])' /\ HandCovered(mgr[m])'
    BY DEF ListedCovered, HandCovered, Looping
  <1>. QED  BY <1>1, ManagingKeepsBroker

\* Nothing BrokerInv speaks of changes.
LEMMA StillBroker ==
  ASSUME NEW m \in Managers, BrokerInv(mgr[m]),
         UNCHANGED <<jobs, cancelling, launcher, records, issued, mgr>>
  PROVE  BrokerInv(mgr[m])'
  BY DEF BrokerInv, JobsOK, AbsentIsNoRecord, LaunchOK, SettledCovered, ListedCovered,
         HandCovered, Remembered, Covered, Settled, Known

\* The lists of a pass: a listed record that is settled has its job covered.
LEMMA ListBroker ==
  ASSUME ControlInv, NEW m \in Managers, BrokerInv(mgr[m]),
         ListRecords(m) \/ ReadClock(m) \/ ListExcess(m)
  PROVE  BrokerInv(mgr[m])'
  <1>. DEFINE r == mgr[m]
  <1>. r \in Manager /\ r.snap \in [ServiceIds -> Record]
    BY ManagerFacts
  <1>1. /\ issued' = issued /\ CancellationsGrow /\ RecordsStayCovered
        /\ records' = records /\ UNCHANGED envVars
        /\ r.pc \in {"idle", "listed", "records"}
    BY NothingCancelled, RegistryIdle DEF ListRecords, ReadClock, ListExcess, regVars
  <1>2. \A id \in ServiceIds : records[id] # NoRecord /\ Settled(records[id]) => Covered(id)
    BY <1>1 DEF BrokerInv, AbsentIsNoRecord, SettledCovered
  <1>3. CASE ListRecords(m)
    <2>. DEFINE new == [r EXCEPT !.snap = records, !.loop = "records"]
    <2>1. new \in Manager /\ new.snap = records
      BY DEF ControlInv, RegistryTypeOK, Manager, Steps
    <2>2. Go(m, new, "listed")
      BY <1>3 DEF ListRecords
    <2>. HIDE DEF new
    <2>3. mgr'[m].pc = "listed" /\ mgr'[m].snap = records
      BY <2>1, <2>2, GoFields
    <2>4. ListedCovered(mgr[m])' /\ HandCovered(mgr[m])'
      BY <1>1, <1>2, <2>3 DEF ListedCovered, HandCovered, Covered, envVars
    <2>. QED  BY <1>1, <2>3, <2>4, ManagingKeepsBroker
  <1>4. CASE ReadClock(m)
    <2>. DEFINE new == [r EXCEPT !.now = clock]
    <2>1. new \in Manager /\ new.snap = r.snap
      BY ManagerFacts DEF Manager
    <2>2. Go(m, new, "records") /\ r.pc = "listed"
      BY <1>4 DEF ReadClock
    <2>. HIDE DEF new
    <2>3. mgr'[m].pc = "records" /\ mgr'[m].snap = r.snap
      BY <2>1, <2>2, GoFields
    <2>4. ListedCovered(mgr[m])'
      BY <1>1, <2>2, <2>3, ListedKept
    <2>5. HandCovered(mgr[m])'
      BY <2>3 DEF HandCovered
    <2>. QED  BY <1>1, <2>3, <2>4, <2>5, ManagingKeepsBroker
  <1>5. CASE ListExcess(m)
    <2>. DEFINE snap == [id \in ServiceIds |->
                           IF id \in Excess(r.now) THEN records[id] ELSE NoRecord]
                new == [r EXCEPT !.snap = snap, !.loop = "limits"]
    <2>1. snap \in [ServiceIds -> Record]
      BY NoRecordType DEF ControlInv, RegistryTypeOK
    <2>2. Go(m, new, "limits")
      BY <1>5 DEF ListExcess
    <2>3. \A id \in ServiceIds : snap[id] \in {records[id], NoRecord}
      OBVIOUS
    <2>. HIDE DEF snap
    <2>4. new \in Manager /\ new.snap = snap
      BY <2>1 DEF Manager, Steps
    <2>. HIDE DEF new
    <2>5. mgr'[m].pc = "limits" /\ mgr'[m].snap = snap
      BY <2>2, <2>4, GoFields
    <2>6. ListedCovered(mgr[m])' /\ HandCovered(mgr[m])'
      BY <1>1, <1>2, <2>3, <2>5 DEF ListedCovered, HandCovered, Covered, envVars
    <2>. QED  BY <1>1, <2>5, <2>6, ManagingKeepsBroker
  <1>. QED  BY <1>3, <1>4, <1>5

\* Clearing a health error or retiring keeps every job on record.
LEMMA HealthRetireBroker ==
  ASSUME ControlInv, NEW m \in Managers, BrokerInv(mgr[m]),
         ClearHealthError(m) \/ Retire(m)
  PROVE  BrokerInv(mgr[m])'
  <1>. DEFINE r == mgr[m]
  <1>1. /\ r \in Manager /\ r.cur \in ServiceIds /\ r.pc \in {"healthy", "retire"}
        /\ r.done \in BOOLEAN /\ CancellationsGrow
    BY ManagerFacts, NothingCancelled DEF ClearHealthError, Retire, Fits, Holding, Looping
  <1>2. CASE ClearHealthError(m)
    <2>1. /\ HealthUpdate(r.cur, FALSE) \/ UNCHANGED regVars
          /\ NextRecord(m, r) \/ Abort(m)
      BY <1>2 DEF ClearHealthError
    <2>2. RecordsStayCovered /\ issued' = issued
      BY <1>1, <2>1, UpdatesStayCovered, RegistryIdle
    <2>. QED  BY <1>1, <2>1, <2>2, NextRecordBroker, AbortBroker DEF Looping
  <1>3. CASE Retire(m)
    <2>1. \/ RetireUpdate(r.cur, r.category, r.now, r.done) /\ Go(m, r, "fail")
          \/ Abort(m) /\ UNCHANGED regVars
      BY <1>3 DEF Retire
    <2>2. r.done => \A id : id = r.cur => Covered(id)'
      BY <1>1, <1>3, HeldIsCovered DEF Retire
    <2>3. RecordsStayCovered /\ issued' = issued
      BY <1>1, <2>1, <2>2, UpdatesStayCovered, RegistryIdle
    <2>4. CASE Go(m, r, "fail")
      <3>1. "fail" \in Looping
        BY DEF Looping
      <3>. QED  BY <1>1, <2>2, <2>3, <2>4, <3>1, HandBroker DEF Looping
    <2>. QED  BY <1>1, <2>1, <2>3, <2>4, AbortBroker
  <1>. QED  BY <1>2, <1>3

\* Failing bound demands keeps every job on record.
LEMMA FailBoundBroker ==
  ASSUME ControlInv, NEW m \in Managers, BrokerInv(mgr[m]), FailBoundDemands(m)
  PROVE  BrokerInv(mgr[m])'
  <1>. DEFINE r == mgr[m]
  <1>1. /\ r \in Manager /\ r.cur \in ServiceIds /\ r.pc = "fail"
        /\ r.done \in BOOLEAN /\ r.sick \in BOOLEAN
    BY ManagerFacts DEF FailBoundDemands, Fits, Holding, Looping
  <1>2. CancellationsGrow /\ RecordsStayCovered /\ issued' = issued
    BY NothingCancelled, NoRecordChanged
    DEF FailBoundDemands, FailDemandsForService, PutDemands
  <1>3. \/ ~r.done /\ Go(m, r, "cancel")
        \/ r.done /\ Go(m, r, "delete")
        \/ NextRecord(m, r)
    BY <1>1 DEF FailBoundDemands
  <1>4. r.done => \A id : id = r.cur => Covered(id)'
    BY <1>1, <1>2, HeldIsCovered
  <1>5. CASE ~r.done /\ Go(m, r, "cancel")
    BY <1>1, <1>2, <1>5, HandBroker DEF Looping
  <1>6. CASE r.done /\ Go(m, r, "delete")
    BY <1>1, <1>2, <1>4, <1>6, HandBroker DEF Looping
  <1>7. CASE NextRecord(m, r)
    BY <1>1, <1>2, <1>7, NextRecordBroker DEF Looping
  <1>. QED  BY <1>3, <1>5, <1>6, <1>7

\* A cancellation that Slurm accepts covers the job.
LEMMA CancellationAccepted ==
  ASSUME NEW id \in ServiceIds, CancelAccepted(id)
  PROVE  CancellationsGrow /\ Covered(id)'
  BY DEF CancelAccepted, CancellationsGrow, Covered

\* A pass goes on to delete a record only after its cancellation was accepted.
LEMMA CancelJobBroker ==
  ASSUME ControlInv, NEW m \in Managers, BrokerInv(mgr[m]), CancelJob(m)
  PROVE  BrokerInv(mgr[m])'
  <1>. DEFINE r == mgr[m]
  <1>1. r \in Manager /\ r.cur \in ServiceIds /\ r.pc = "cancel"
    BY ManagerFacts DEF CancelJob, Fits, Holding, Looping
  <1>2. CASE CancelAccepted(r.cur) /\ Go(m, r, "cancelled") /\ UNCHANGED regVars
    <2>1. CancellationsGrow /\ \A id : id = r.cur => Covered(id)'
      BY <1>1, <1>2, CancellationAccepted
    <2>2. issued' = issued /\ RecordsStayCovered /\ "cancelled" \in Looping
      BY <1>2, RegistryIdle DEF Looping
    <2>. QED  BY <1>1, <1>2, <2>1, <2>2, HandBroker DEF Looping
  <1>3. CASE /\ CancelRefused
             /\ HealthUpdate(r.cur, TRUE) \/ UNCHANGED regVars
             /\ NextRecord(m, r) \/ Abort(m)
    <2>1. CancellationsGrow
      BY <1>3, NothingCancelled DEF CancelRefused
    <2>2. issued' = issued /\ RecordsStayCovered
      BY <1>1, <1>3, <2>1, UpdatesStayCovered, RegistryIdle
    <2>. QED  BY <1>1, <1>3, <2>1, <2>2, NextRecordBroker, AbortBroker DEF Looping
  <1>. QED  BY <1>2, <1>3 DEF CancelJob

\* Recording a cancellation keeps the record of the job.
LEMMA RecordCancellationBroker ==
  ASSUME ControlInv, NEW m \in Managers, BrokerInv(mgr[m]), RecordCancellation(m)
  PROVE  BrokerInv(mgr[m])'
  <1>. DEFINE r == mgr[m]
  <1>1. r \in Manager /\ r.cur \in ServiceIds /\ r.pc = "cancelled" /\ CancellationsGrow
    BY ManagerFacts, NothingCancelled DEF RecordCancellation, Fits, Holding, Looping
  <1>2. \A id : id = r.cur => Covered(id)'
    BY <1>1, HeldIsCovered
  <1>3. /\ CancelUpdate(r.cur) \/ UNCHANGED regVars
        /\ Go(m, r, "delete") \/ NextRecord(m, r) \/ Abort(m)
    BY DEF RecordCancellation
  <1>4. issued' = issued /\ RecordsStayCovered
    BY <1>1, <1>2, <1>3, UpdatesStayCovered, RegistryIdle
  <1>5. CASE Go(m, r, "delete")
    BY <1>1, <1>2, <1>4, <1>5, HandBroker DEF Looping
  <1>. QED  BY <1>1, <1>3, <1>4, <1>5, NextRecordBroker, AbortBroker DEF Looping

\* A deletion removes only a record whose job is covered.
LEMMA DeleteRecordBroker ==
  ASSUME ControlInv, NEW m \in Managers, BrokerInv(mgr[m]), DeleteRecord(m)
  PROVE  BrokerInv(mgr[m])'
  <1>. DEFINE r == mgr[m]
  <1>1. r \in Manager /\ r.cur \in ServiceIds /\ r.pc = "delete" /\ CancellationsGrow
    BY ManagerFacts, NothingCancelled DEF DeleteRecord, Fits, Holding, Looping
  <1>2. \A id : id = r.cur => Covered(id)'
    BY <1>1, HeldIsCovered
  <1>3. Delete(r.cur) \/ UNCHANGED regVars
    BY DEF DeleteRecord
  <1>4. issued' = issued /\ RecordsStayCovered
    BY <1>1, <1>2, <1>3, UpdatesStayCovered, RegistryIdle
  <1>5. NextRecord(m, r)
    BY DEF DeleteRecord
  <1>. QED  BY <1>1, <1>4, <1>5, NextRecordBroker DEF Looping

\* A warm record in excess is marked first; its job stays on record.
LEMMA RetireExcessBroker ==
  ASSUME ControlInv, NEW m \in Managers, BrokerInv(mgr[m]), RetireExcess(m)
  PROVE  BrokerInv(mgr[m])'
  <1>. DEFINE r == mgr[m]
  <1>1. r \in Manager /\ r.pc = "limits" /\ CancellationsGrow
    BY ManagerFacts, NothingCancelled DEF RetireExcess
  <1>2. PICK id \in ServiceIds :
          /\ r.snap[id] # NoRecord
          /\ \/ /\ RetireUpdate(id, "service_failure", r.now, ~r.snap[id].job)
                /\ Go(m, [r EXCEPT !.cur = id, !.category = "service_failure",
                                   !.done = ~r.snap[id].job], "fail")
             \/ Abort(m) /\ UNCHANGED regVars
    BY DEF RetireExcess
  <1>3. CASE Abort(m) /\ UNCHANGED regVars
    BY <1>1, <1>3, RegistryIdle, AbortBroker
  <1>4. ASSUME NEW d \in BOOLEAN, d = ~r.snap[id].job,
               RetireUpdate(id, "service_failure", r.now, d),
               Go(m, [r EXCEPT !.cur = id, !.category = "service_failure", !.done = d], "fail")
        PROVE  BrokerInv(mgr[m])'
    <2>. DEFINE new == [r EXCEPT !.cur = id, !.category = "service_failure", !.done = d]
    <2>1. d => Covered(id)'
      BY <1>1, <1>2, <1>4, ListedIsCovered DEF Settled
    <2>2. issued' = issued /\ RecordsStayCovered
      BY <1>1, <1>4, <2>1, UpdatesStayCovered
    <2>3. Go(m, new, "fail") /\ "service_failure" \in Categories
      BY <1>4 DEF Categories
    <2>4. new \in Manager /\ new.cur = id /\ new.done = d /\ new.snap = r.snap
      BY <1>1, <2>3 DEF Manager
    <2>. HIDE DEF new
    <2>. QED  BY <1>1, <2>1, <2>2, <2>3, <2>4, HandBroker DEF Looping
  <1>5. (~r.snap[id].job) \in BOOLEAN
    OBVIOUS
  <1>. QED  BY <1>2, <1>3, <1>4, <1>5

\* What becomes of the first listed demand.
LEMMA DecideFields ==
  ASSUME ControlInv, NEW m \in Managers, DecideDemand(m)
  PROVE  \E d \in DemandIds :
           /\ mgr[m].todo[d] # NoDemand
           /\ \/ Abort(m)
              \/ NextDemand(m, [mgr[m] EXCEPT !.dem = d])
              \/ /\ mgr'[m].pc \in {"decided", "reserve"}
                 /\ mgr'[m].dem = d
                 /\ mgr'[m].todo = mgr[m].todo
  <1>. DEFINE d == FirstListed(mgr[m])
              r == [mgr[m] EXCEPT !.dem = d]
              Taken == /\ mgr'[m].pc \in {"decided", "reserve"}
                       /\ mgr'[m].dem = d
                       /\ mgr'[m].todo = mgr[m].todo
  <1>1. d \in DemandIds /\ mgr[m].todo[d] # NoDemand
    BY FirstListedType DEF DecideDemand
  <1>. HIDE DEF d
  <1>2. r \in Manager /\ r.dem = d /\ r.todo = mgr[m].todo
    BY <1>1, ManagerFacts DEF Manager
  <1>. HIDE DEF r
  <1>3. ASSUME NEW v, NEW id, Go(m, [r EXCEPT !.verdict = v, !.cur = id], "decided")
        PROVE  Taken
    BY <1>2, <1>3 DEF Go, ControlInv, ManagersOK, Manager
  <1>4. ASSUME NEW v, NEW c, NEW id,
               Go(m, [r EXCEPT !.verdict = v, !.category = c, !.cur = id], "decided")
        PROVE  Taken
    BY <1>2, <1>4 DEF Go, ControlInv, ManagersOK, Manager
  <1>5. Go(m, r, "reserve") => Taken
    BY <1>2, GoDemand
  <1>6. CASE DecideBound(m, d)
    <2>1. \/ NextDemand(m, r)
          \/ \E v, c, id : Go(m, [r EXCEPT !.verdict = v, !.category = c, !.cur = id], "decided")
      BY <1>6, Zenon DEF DecideBound, r
    <2>. QED  BY <1>1, <1>4, <2>1 DEF r
  <1>7. CASE DecideUnbound(m, d)
    <2>1. \/ NextDemand(m, r) \/ Abort(m) \/ Go(m, r, "reserve")
          \/ \E v, id : Go(m, [r EXCEPT !.verdict = v, !.cur = id], "decided")
      BY <1>7, ZenonT(60) DEF DecideUnbound, r
    <2>. QED  BY <1>1, <1>3, <1>5, <2>1 DEF r
  <1>. QED  BY <1>6, <1>7 DEF DecideDemand, d

\* Demands and minimum replicas: no record in hand, or a new reservation.
LEMMA DemandsBroker ==
  ASSUME ControlInv, NEW m \in Managers, BrokerInv(mgr[m]),
         \/ ListPendingDemands(m) \/ DecideDemand(m) \/ WriteDemand(m)
         \/ EndDemands(m) \/ Prune(m)
  PROVE  BrokerInv(mgr[m])'
  <1>. DEFINE r == mgr[m]
  <1>1. r \in Manager
    BY ManagerFacts
  <1>2. /\ CancellationsGrow /\ RecordsStayCovered /\ issued' = issued
        /\ r.pc \in {"limits", "demands", "decided", "minimums"}
    BY NothingCancelled, NoRecordChanged
    DEF ListPendingDemands, DecideDemand, WriteDemand, EndDemands, Prune, ExpireDemands,
        UpdateDemand, PruneExpiredDemands, PutDemands, regVars
  <1>3. mgr'[m].pc \in {"idle", "demands", "decided", "reserve", "minimums"}
    <2>2. CASE ListPendingDemands(m)
      BY <2>2 DEF ListPendingDemands, Go, ControlInv, ManagersOK, Manager
    <2>3. CASE DecideDemand(m)
      <3>1. PICK d \in DemandIds :
              \/ Abort(m)
              \/ NextDemand(m, [mgr[m] EXCEPT !.dem = d])
              \/ mgr'[m].pc \in {"decided", "reserve"}
        BY <2>3, DecideFields
      <3>. DEFINE new == [mgr[m] EXCEPT !.dem = d]
      <3>2. new \in Manager
        BY <1>1 DEF Manager
      <3>. HIDE DEF new
      <3>. QED  BY <3>1, <3>2, AbortFields, NextDemandFields DEF new
    <2>4. CASE WriteDemand(m)
      BY <1>1, <2>4, NextDemandFields, AbortFields DEF WriteDemand
    <2>5. CASE EndDemands(m)
      BY <2>5 DEF EndDemands, Go, ControlInv, ManagersOK, Manager
    <2>6. CASE Prune(m)
      BY <2>6, AbortFields DEF Prune
    <2>. QED  BY <2>2, <2>3, <2>4, <2>5, <2>6
  <1>. QED  BY <1>2, <1>3, MoveBroker

\* A launch that failed: nothing was submitted, or its reservation is deleted.
LEMMA LaunchFailedFields ==
  ASSUME ControlInv, NEW m \in Managers, LaunchFailed(m, mgr[m])
  PROVE  mgr'[m].pc \in {"idle", "decided"}
  BY AbortFields DEF LaunchFailed, Go, ControlInv, ManagersOK, Manager

\* A new reservation has no job yet.
LEMMA ReservedBroker ==
  ASSUME ControlInv, NEW m \in Managers, BrokerInv(mgr[m]), UNCHANGED envVars,
         mgr[m].pc # "attach", issued < MaxServices, NEW t, NEW deadline, Reserve(issued + 1, t, deadline),
         Go(m, [mgr[m] EXCEPT !.cur = issued + 1], "submit")
  PROVE  BrokerInv(mgr[m])'
  <1>. DEFINE id == issued + 1
              new == [mgr[m] EXCEPT !.cur = id]
              rec == NewRecord(t, deadline)
  <1>1. id \in ServiceIds /\ issued \in Nat
    BY BoundAssumption DEF ControlInv, RegistryTypeOK, ServiceIds
  <1>2. new \in Manager /\ new.cur = id
    BY <1>1, ManagerFacts DEF Manager
  <1>3. Go(m, new, "submit")
    OBVIOUS
  <1>4. rec.state = "starting" /\ ~rec.job /\ ~rec.cancelRequested
    BY DEF NewRecord, Absent
  <1>5. records' = [records EXCEPT ![id] = rec] /\ issued' = id /\ records \in [ServiceIds -> Record]
    BY DEF Reserve, ControlInv, RegistryTypeOK
  <1>. HIDE DEF new, rec
  <1>6. mgr'[m].pc = "submit" /\ mgr'[m].cur = id
    BY <1>2, <1>3, GoFields
  <1>. HIDE DEF id
  <1>7. /\ UNCHANGED <<jobs, cancelling, launcher>>
        /\ jobs[id] = "none"
        /\ \A o \in ServiceIds : o > issued' => o > issued
    BY <1>1, <1>5 DEF envVars, BrokerInv, JobsOK, ServiceIds, id
  <1>8. JobsOK' /\ AbsentIsNoRecord'
    BY <1>1, <1>4, <1>5, <1>7 DEF BrokerInv, JobsOK, AbsentIsNoRecord, Known
  <1>9. LaunchOK(mgr[m])'
    BY <1>1, <1>4, <1>5, <1>6, <1>7 DEF LaunchOK, Known
  <1>10. mgr[m].pc # "attach" => SettledCovered(mgr[m])' /\ Remembered(mgr[m])'
    BY <1>1, <1>4, <1>5, <1>7
    DEF BrokerInv, SettledCovered, Remembered, Known, Settled, Covered, LiveJob
  <1>11. ListedCovered(mgr[m])' /\ HandCovered(mgr[m])'
    BY <1>6 DEF ListedCovered, HandCovered, Looping
  <1>. QED  BY <1>6, <1>8, <1>9, <1>10, <1>11 DEF BrokerInv

\* Reserving for a demand or a minimum keeps every job on record.
LEMMA ReserveBroker ==
  ASSUME ControlInv, NEW m \in Managers, BrokerInv(mgr[m]),
         ReserveForDemand(m) \/ ReserveMinimum(m)
  PROVE  BrokerInv(mgr[m])'
  <1>. DEFINE r == mgr[m]
  <1>1. PICK t : ReserveFor(m, r, t)
    BY DEF ReserveForDemand, ReserveMinimum
  <1>2. r \in Manager /\ r.pc \in {"reserve", "minimums"} /\ UNCHANGED envVars
    BY ManagerFacts DEF ReserveForDemand, ReserveMinimum
  <1>3. CASE /\ issued < MaxServices
             /\ Reserve(issued + 1, t, r.now + StartupTimeout)
             /\ Go(m, [r EXCEPT !.cur = issued + 1], "submit")
    BY <1>2, <1>3, ReservedBroker
  <1>4. CASE /\ UNCHANGED regVars
             /\ Abort(m) \/ NextDemand(m, r) \/ LaunchFailed(m, r)
    <2>1. mgr'[m].pc \in {"idle", "demands", "decided"}
      BY <1>2, <1>4, AbortFields, NextDemandFields, LaunchFailedFields
    <2>. QED  BY <1>2, <1>4, <2>1, MoveBroker, NothingCancelled, RegistryIdle
  <1>. QED  BY <1>1, <1>3, <1>4 DEF ReserveFor

\* Between submission and attachment the pass itself remembers the job.
LEMMA SubmitBroker ==
  ASSUME ControlInv, LeaseInv, NEW m \in Managers, BrokerInv(mgr[m]), SubmitService(m)
  PROVE  BrokerInv(mgr[m])'
  <1>. DEFINE r == mgr[m]
  <1>1. /\ r \in Manager /\ r.cur \in ServiceIds /\ r.pc = "submit"
        /\ Known(r.cur) /\ ~records[r.cur].cancelRequested /\ jobs[r.cur] = "none"
        /\ r.cur <= issued
    <2>1. r \in Manager /\ r.cur \in ServiceIds /\ r.pc = "submit"
      BY ManagerFacts DEF SubmitService, Fits, Holding
    <2>2. Known(r.cur) /\ ~records[r.cur].cancelRequested /\ jobs[r.cur] = "none"
      BY <2>1 DEF BrokerInv, LaunchOK
    <2>3. r.cur <= issued
      BY <2>1, <2>2 DEF LeaseInv, RegistryTypeOK, FreshIds, ServiceIds
    <2>. QED  BY <2>1, <2>2, <2>3
  <1>2. CASE /\ jobs' = [jobs EXCEPT ![r.cur] = "queued"]
             /\ Go(m, r, "attach")
             /\ UNCHANGED <<regVars, cancelling, launcher>>
    <2>. DEFINE id == r.cur
    <2>1. mgr'[m].pc = "attach" /\ mgr'[m].cur = id
      BY <1>1, <1>2, GoFields
    <2>2. /\ jobs' = [jobs EXCEPT ![id] = "queued"] /\ jobs[id] = "none" /\ id \in ServiceIds
          /\ jobs \in [ServiceIds -> JobStates]
          /\ UNCHANGED <<records, issued, cancelling, launcher>>
          /\ Known(id) /\ ~records[id].cancelRequested /\ ~(id > issued)
      BY <1>1, <1>2 DEF regVars, ControlInv, EnvironmentOK, RegistryTypeOK, ServiceIds
    <2>. HIDE DEF id
    <2>3. JobsOK' /\ AbsentIsNoRecord'
      BY <2>2 DEF BrokerInv, JobsOK, AbsentIsNoRecord, Known, LiveJob
    <2>4. LaunchOK(mgr[m])'
      BY <2>1, <2>2 DEF LaunchOK, Known
    <2>5. SettledCovered(mgr[m])' /\ Remembered(mgr[m])'
      BY <1>1, <2>1, <2>2
      DEF BrokerInv, SettledCovered, Remembered, Known, Settled, Covered, LiveJob
    <2>6. ListedCovered(mgr[m])' /\ HandCovered(mgr[m])'
      BY <2>1 DEF ListedCovered, HandCovered, Looping
    <2>. QED  BY <2>1, <2>3, <2>4, <2>5, <2>6 DEF BrokerInv
  <1>3. CASE Delete(r.cur) /\ LaunchFailed(m, r) /\ UNCHANGED envVars
    <2>1. CancellationsGrow /\ \A id : id = r.cur => Covered(id)'
      BY <1>1, <1>3, NothingCancelled DEF Covered, envVars, LiveJob
    <2>2. RecordsStayCovered /\ issued' = issued
      BY <1>1, <1>3, <2>1, UpdatesStayCovered
    <2>. QED  BY <1>1, <1>3, <2>1, <2>2, LaunchFailedFields, MoveBroker
  <1>. QED  BY <1>1, <1>2, <1>3 DEF SubmitService

\* An attached job is on record, with no cancellation: it is not settled.
LEMMA AttachBroker ==
  ASSUME ControlInv, NEW m \in Managers, BrokerInv(mgr[m]), AttachService(m)
  PROVE  BrokerInv(mgr[m])'
  <1>. DEFINE r == mgr[m]
              rec == [records[r.cur] EXCEPT !.job = TRUE]
  <1>1. r \in Manager /\ r.cur \in ServiceIds /\ r.pc = "attach"
    BY ManagerFacts DEF AttachService, Fits, Holding
  <1>2. Known(r.cur) /\ ~records[r.cur].cancelRequested /\ records[r.cur] \in Record
    BY <1>1 DEF BrokerInv, LaunchOK, ControlInv, RegistryTypeOK
  <1>3. /\ AttachJob(r.cur) /\ UNCHANGED envVars
        /\ IF r.dem = 0
           THEN Go(m, [r EXCEPT !.need[records[r.cur].tier] = @ - 1,
                                !.cur = NoService], "minimums")
           ELSE Go(m, [r EXCEPT !.verdict = "launching"], "decided")
    BY <1>2, Zenon DEF AttachService
  <1>4. mgr'[m].pc \in {"minimums", "decided"}
    <2>1. ASSUME Go(m, [r EXCEPT !.need[records[r.cur].tier] = @ - 1, !.cur = NoService],
                    "minimums")
          PROVE  mgr'[m].pc = "minimums"
      <3>. DEFINE need == [r.need EXCEPT ![records[r.cur].tier] = @ - 1]
                  new == [r EXCEPT !.need = need, !.cur = NoService]
      <3>1. Go(m, new, "minimums")
        BY <1>1, <2>1 DEF Manager
      <3>. HIDE DEF need
      <3>. QED  BY <1>1, <3>1 DEF Go, ControlInv, ManagersOK, Manager
    <2>2. Go(m, [r EXCEPT !.verdict = "launching"], "decided") => mgr'[m].pc = "decided"
      BY <1>1 DEF Go, ControlInv, ManagersOK, Manager
    <2>. QED  BY <1>3, <2>1, <2>2
  <1>5. /\ records' = [records EXCEPT ![r.cur] = rec] /\ issued' = issued
        /\ UNCHANGED <<jobs, cancelling, launcher>>
        /\ records \in [ServiceIds -> Record]
    BY <1>3 DEF AttachJob, PutRecord, envVars, ControlInv, RegistryTypeOK
  <1>6. rec.job /\ ~rec.cancelRequested /\ rec.state # "absent"
    BY <1>2 DEF Record, Known
  <1>. HIDE DEF rec
  <1>7. JobsOK' /\ AbsentIsNoRecord'
    BY <1>1, <1>5, <1>6 DEF BrokerInv, JobsOK, AbsentIsNoRecord, Known
  <1>8. SettledCovered(mgr[m])' /\ Remembered(mgr[m])'
    BY <1>1, <1>5, <1>6 DEF BrokerInv, SettledCovered, Remembered, Known, Settled, Covered
  <1>9. LaunchOK(mgr[m])' /\ ListedCovered(mgr[m])' /\ HandCovered(mgr[m])'
    BY <1>4 DEF LaunchOK, ListedCovered, HandCovered, Looping
  <1>. QED  BY <1>4, <1>7, <1>8, <1>9 DEF BrokerInv

\* What a launcher publishes is a record.
LEMMA PublishedType ==
  ASSUME NEW r \in Record, clock \in Nat
  PROVE  Published(r) \in Record
  <1>. DEFINE lease == BoundedLeaseExpiry(r, clock + LeaseDuration)
  <1>1. lease \in Nat
    BY ConfigAssumption, BoundedType
  <1>. HIDE DEF lease
  <1>2. [r EXCEPT !.state = "ready", !.job = TRUE, !.heartbeat = clock, !.lease = lease,
                  !.healthError = FALSE, !.category = "none"] \in Record
    BY <1>1 DEF Record, Categories
  <1>. QED  BY <1>2 DEF Published, lease

\* What a launcher writes leaves job and cancellation of the record as they are,
\* but for a publication, which notes the job.
LEMMA LauncherBroker ==
  ASSUME ControlInv, NEW m \in Managers, BrokerInv(mgr[m]),
         NEW id \in ServiceIds, LauncherStep(id)
  PROVE  BrokerInv(mgr[m])'
  <1>1. UNCHANGED <<mgr, jobs, cancelling, issued>>
    BY DEF LauncherStep, RuntimeUp, Heartbeat, RuntimeExits, LauncherFails, regVars,
           LauncherPublish, Renew, MarkUnhealthy, PutRecord
  <1>2. \A o \in ServiceIds : launcher'[o] # "off" => launcher[o] # "off"
    BY DEF LauncherStep, RuntimeUp, Heartbeat, RuntimeExits, LauncherFails, LauncherGoes,
           ControlInv, EnvironmentOK
  <1>3. \/ records' = records
        \/ \E new \in Record :
             /\ records' = [records EXCEPT ![id] = new]
             /\ Known(id) /\ new.state # "absent"
             /\ new.cancelRequested = records[id].cancelRequested
             /\ records[id].job => new.job
    <2>. DEFINE old == records[id]
    <2>. old \in Record /\ clock \in Nat
      BY DEF ControlInv, RegistryTypeOK
    <2>1. CASE LauncherPublish(id)
      <3>1. Published(old) \in Record
        BY PublishedType
      <3>2. /\ Published(old).state = "ready" /\ Published(old).job = TRUE
            /\ Published(old).cancelRequested = old.cancelRequested
        BY DEF Published, Record
      <3>. QED  BY <2>1, <3>1, <3>2 DEF LauncherPublish, PutRecord
    <2>2. CASE Renew(id)
      <3>. DEFINE lease == BoundedLeaseExpiry(old, clock + LeaseDuration)
                  new == [old EXCEPT !.heartbeat = clock, !.lease = lease]
      <3>1. lease \in Nat
        BY ConfigAssumption, BoundedType
      <3>. HIDE DEF lease
      <3>2. new \in Record /\ new.state = old.state /\ new.job = old.job
            /\ new.cancelRequested = old.cancelRequested
        BY <3>1 DEF Record
      <3>3. records' = [records EXCEPT ![id] = new] /\ Known(id)
        BY <2>2 DEF Renew, PutRecord, lease
      <3>. HIDE DEF new
      <3>. QED  BY <3>2, <3>3 DEF Known
    <2>3. CASE MarkUnhealthy(id)
      <3>. DEFINE new == [old EXCEPT !.state = "unhealthy", !.healthError = TRUE,
                                     !.category = "service_failure", !.lease = clock]
      <3>1. new \in Record /\ new.state = "unhealthy" /\ new.job = old.job
            /\ new.cancelRequested = old.cancelRequested
        BY DEF Record, Categories
      <3>2. records' = [records EXCEPT ![id] = new] /\ Known(id)
        BY <2>3 DEF MarkUnhealthy, PutRecord
      <3>. HIDE DEF new
      <3>. QED  BY <3>1, <3>2
    <2>. QED
      BY <2>1, <2>2, <2>3
      DEF LauncherStep, RuntimeUp, Heartbeat, RuntimeExits, LauncherFails, regVars
  <1>4. records \in [ServiceIds -> Record]
    BY DEF ControlInv, RegistryTypeOK
  <1>5. /\ AbsentIsNoRecord'
        /\ \A o \in ServiceIds : Known(o)' <=> Known(o)
        /\ \A o \in ServiceIds : Settled(records'[o]) => Settled(records[o])
        /\ \A o \in ServiceIds :
             ~records[o].cancelRequested => ~records'[o].cancelRequested
    BY <1>3, <1>4 DEF BrokerInv, AbsentIsNoRecord, Known, Settled, Record
  <1>6. JobsOK'
    BY <1>1, <1>2 DEF BrokerInv, JobsOK
  <1>7. mgr[m].pc \in {"submit", "attach"} => mgr[m].cur \in ServiceIds
    BY ManagerFacts DEF Fits, Holding
  <1>8. LaunchOK(mgr[m])'
    BY <1>1, <1>5, <1>7 DEF BrokerInv, LaunchOK
  <1>9. SettledCovered(mgr[m])' /\ Remembered(mgr[m])'
    BY <1>1, <1>5 DEF BrokerInv, SettledCovered, Remembered, Covered
  <1>10. ListedCovered(mgr[m])' /\ HandCovered(mgr[m])'
    BY <1>1 DEF BrokerInv, ListedCovered, HandCovered, Covered
  <1>. QED  BY <1>1, <1>5, <1>6, <1>8, <1>9, <1>10 DEF BrokerInv

\* Slurm ends only jobs it has started or agreed to cancel, and forgets a
\* cancellation only with the job.
LEMMA SlurmBroker ==
  ASSUME ControlInv, NEW m \in Managers, BrokerInv(mgr[m]),
         NEW id \in ServiceIds, SlurmStep(id)
  PROVE  BrokerInv(mgr[m])'
  <1>1. UNCHANGED <<mgr, records, issued>>
    BY DEF SlurmStep, JobStarts, JobCancelled, JobExits, JobKilled, JobEnds, regVars
  <1>2. jobs[id] \in LiveJob
    BY DEF SlurmStep, JobStarts, JobCancelled, JobExits, JobKilled, BrokerInv, JobsOK, LiveJob
  <1>3. \/ /\ jobs' = [jobs EXCEPT ![id] = "running"]
           /\ launcher' = [launcher EXCEPT ![id] = "loading"]
           /\ cancelling' = cancelling
        \/ \E s \in EndedJob :
             /\ jobs' = [jobs EXCEPT ![id] = s]
             /\ launcher' = [launcher EXCEPT ![id] = "off"]
             /\ cancelling' = cancelling \ {id}
    BY DEF SlurmStep, JobStarts, JobCancelled, JobExits, JobKilled, JobEnds, LauncherGoes,
           EndedJob
  <1>4. /\ jobs \in [ServiceIds -> JobStates] /\ launcher \in [ServiceIds -> LauncherStates]
        /\ cancelling \subseteq ServiceIds
    BY DEF ControlInv, EnvironmentOK
  <1>5. JobsOK'
    BY <1>1, <1>2, <1>3, <1>4 DEF BrokerInv, JobsOK, LiveJob, EndedJob
  <1>6. \A o \in ServiceIds :
          /\ jobs'[o] \in LiveJob => jobs[o] \in LiveJob
          /\ jobs'[o] \in LiveJob /\ o \in cancelling => o \in cancelling'
          /\ jobs[o] = "none" => jobs'[o] = "none"
    BY <1>2, <1>3, <1>4 DEF LiveJob, EndedJob
  <1>7. \A o \in ServiceIds : Covered(o) => Covered(o)'
    BY <1>6 DEF Covered
  <1>8. mgr[m].pc \in {"submit", "attach"} \cup Looping => mgr[m].cur \in ServiceIds
    BY ManagerFacts DEF Fits, Holding
  <1>9. LaunchOK(mgr[m])' /\ AbsentIsNoRecord'
    BY <1>1, <1>6, <1>8 DEF BrokerInv, LaunchOK, AbsentIsNoRecord, Known
  <1>10. SettledCovered(mgr[m])' /\ Remembered(mgr[m])'
    BY <1>1, <1>6, <1>7 DEF BrokerInv, SettledCovered, Remembered, Known
  <1>11. ListedCovered(mgr[m])' /\ HandCovered(mgr[m])'
    BY <1>1, <1>7, <1>8 DEF BrokerInv, ListedCovered, HandCovered, Looping
  <1>. QED  BY <1>1, <1>5, <1>9, <1>10, <1>11 DEF BrokerInv

\* The process that dies or shuts down, or a report, ends the claim.
LEMMA ManagerBroker ==
  ASSUME ControlInv, LeaseInv, NEW m \in Managers, BrokerInv(mgr[m]), ManagerStep(m),
         crashes' = 0
  PROVE  BrokerInv(mgr[m])'
  <1>1. crashes \in Nat
    BY FaultAssumption DEF ControlInv, EnvironmentOK
  <1>2. ~Crash(m) /\ ~StartShutdown(m) /\ ~ImportReport(m)
    BY <1>1 DEF Crash, StartShutdown, ImportReport
  <1>3. ~ShutdownCancel(m) /\ ~ShutdownFail(m) /\ ~ShutdownDelete(m) /\ ~EndShutdown(m)
    BY DEF ShutdownCancel, ShutdownFail, ShutdownDelete, EndShutdown, BrokerInv
  <1>4. CASE ImportDemand(m)
    BY <1>4, StillBroker DEF ImportDemand, RequestDemand
  <1>. QED
    BY <1>2, <1>3, <1>4, ListBroker, InspectBroker, InspectUnhealthyBroker, HealthRetireBroker,
       FailBoundBroker, CancelJobBroker, RecordCancellationBroker, DeleteRecordBroker,
       RetireExcessBroker, DemandsBroker, ReserveBroker, SubmitBroker, AttachBroker
    DEF ManagerStep, PassStep

\* No job is under way at the start.
LEMMA OneBrokerInit ==
  ASSUME Init
  PROVE  OneBrokerInv
  <1>1. ASSUME NEW m \in Managers PROVE BrokerInv(mgr[m])
    <2>1. mgr[m] = IdleManager /\ IdleManager.pc = "idle"
      BY DEF Init, IdleManager
    <2>2. JobsOK /\ AbsentIsNoRecord
      BY DEF Init, JobsOK, AbsentIsNoRecord, RegistryInit
    <2>3. \A id \in ServiceIds : jobs[id] \notin LiveJob
      BY DEF Init, LiveJob
    <2>. QED
      BY <2>1, <2>2, <2>3
      DEF BrokerInv, LaunchOK, SettledCovered, ListedCovered, HandCovered, Remembered,
          Covered, Looping
  <1>. QED  BY <1>1 DEF OneBrokerInv

\* Every step of a control plane with one broker keeps every job on record.
LEMMA OneBrokerNext ==
  ASSUME NEW b, Managers = {b}, ControlInv, LeaseInv, OneBrokerInv, [Next]_vars
  PROVE  OneBrokerInv'
  <1>. SUFFICES ASSUME crashes' = 0 PROVE BrokerInv(mgr[b])'
    BY DEF OneBrokerInv
  <1>1. crashes = 0
    <2>1. crashes \in Nat
      BY FaultAssumption DEF ControlInv, EnvironmentOK
    <2>2. ASSUME NEW m \in Managers, ManagerStep(m)
          PROVE  crashes' = crashes \/ crashes' = crashes + 1
      BY <2>2
      DEF ManagerStep, PassStep, ImportDemand, ImportReport, Crash, StartShutdown,
          ListRecords, ReadClock, Inspect, InspectUnhealthy, ClearHealthError, Retire,
          FailBoundDemands, CancelJob, RecordCancellation, DeleteRecord, ListExcess,
          RetireExcess, ListPendingDemands, DecideDemand, WriteDemand, EndDemands,
          ReserveForDemand, ReserveMinimum, SubmitService, AttachService, Prune,
          ShutdownCancel, ShutdownFail, ShutdownDelete, EndShutdown
    <2>3. ASSUME NEW id \in ServiceIds, LauncherStep(id) \/ SlurmStep(id)
          PROVE  crashes' = crashes
      BY <2>3
      DEF LauncherStep, SlurmStep, RuntimeUp, Heartbeat, RuntimeExits, LauncherFails,
          JobStarts, JobCancelled, JobExits, JobKilled, JobEnds
    <2>. QED  BY <2>1, <2>2, <2>3 DEF Next, TimePasses, vars
  <1>2. b \in Managers /\ BrokerInv(mgr[b])
    BY <1>1 DEF OneBrokerInv
  <1>3. CASE UNCHANGED vars
    BY <1>2, <1>3, StillBroker DEF vars
  <1>4. CASE ManagerStep(b)
    BY <1>2, <1>4, ManagerBroker
  <1>5. CASE \E id \in ServiceIds : LauncherStep(id) \/ SlurmStep(id)
    BY <1>2, <1>5, LauncherBroker, SlurmBroker
  <1>6. CASE TimePasses
    BY <1>2, <1>6, StillBroker DEF TimePasses, Tick
  <1>. QED  BY <1>3, <1>4, <1>5, <1>6 DEF Next

\* One broker that does not die, with no report of a worker: whatever the
\* launchers, Slurm and the faults do, no path of a pass loses a live job.
THEOREM NoJobIsForgotten ==
  ASSUME NEW b, Managers = {b}
  PROVE  Spec => []NoForgottenJob
  <1>1. OneBrokerInv => NoForgottenJob
    BY DEF OneBrokerInv, BrokerInv, Remembered, NoForgottenJob, Submitting
  <1>2. Spec => []LeaseInv
    BY ControlPlaneImplementsRegistry, LeaseInvariant, PTL
  <1>3. Init => OneBrokerInv
    BY OneBrokerInit
  <1>4. ControlInv /\ LeaseInv /\ OneBrokerInv /\ [Next]_vars => OneBrokerInv'
    BY OneBrokerNext
  <1>. QED  BY <1>1, <1>2, <1>3, <1>4, ControlInvariant, PTL DEF Spec

-----------------------------------------------------------------------------
(* One broker: an answered demand is not taken up again *)

\* Positions of a pass that works on the listed demands, or holds one of them.
Answering == {"decided", "reserve", "submit", "attach"}
Demanding == Answering \cup {"demands", "minimums"}

\* The listed demands are open while the pass works on them, the one in hand too.
TodoOpen(r) ==
  /\ r.pc \in Demanding => \A d \in DemandIds : r.todo[d] # NoDemand => Open(demands[d])
  /\ r.pc \in Answering /\ r.dem # 0 => Open(demands[r.dem])
  /\ r.pc \notin Answering => r.dem = 0

DemandsInv == FreshDemands /\ \A m \in Managers : TodoOpen(mgr[m])

\* A position before the demands of the pass are listed.
Early(r) == r.pc \notin Demanding /\ r.dem = 0

\* A pass that has not listed demands has no stale list.
LEMMA EarlyTodo ==
  ASSUME NEW m \in Managers, Early(mgr'[m])
  PROVE  TodoOpen(mgr[m])'
  BY DEF Early, TodoOpen, Demanding

\* A pass that gives up has no list of demands.
LEMMA AbortEarly ==
  ASSUME ControlInv, NEW m \in Managers, Abort(m)
  PROVE  Early(mgr'[m])
  BY DEF Abort, ControlInv, ManagersOK, IdleManager, Early, Demanding, Answering

\* Nor has one that goes on outside the loop over demands.
LEMMA GoEarly ==
  ASSUME ControlInv, NEW m \in Managers, NEW r \in Manager, NEW p, Go(m, r, p),
         r.dem = 0, p \notin Demanding
  PROVE  Early(mgr'[m])
  BY GoDemand DEF Early

\* Nor has one in a loop over records.
LEMMA NextRecordEarly ==
  ASSUME ControlInv, NEW m \in Managers, NEW r \in Manager, NextRecord(m, r),
         r.dem = 0, r.loop \in {"records", "limits", "down"}
  PROVE  Early(mgr'[m])
  <1>. DEFINE left == [r.snap EXCEPT ![r.cur] = NoRecord]
              new == [r EXCEPT !.snap = left, !.cur = NoService, !.sick = FALSE,
                               !.category = "none", !.done = FALSE]
  <1>1. Go(m, new, r.loop)
    BY DEF NextRecord, Manager
  <1>2. r.snap \in [ServiceIds -> Record]
    BY DEF Manager
  <1>3. left \in [ServiceIds -> Record]
    BY <1>2, NoRecordType
  <1>. HIDE DEF left
  <1>4. new \in Manager /\ new.dem = r.dem
    BY <1>3 DEF Manager, Categories
  <1>. HIDE DEF new
  <1>. QED  BY <1>1, <1>4, GoEarly DEF Demanding, Answering

\* The part of a pass on lease records, and the end of a process.
LEMMA RecordPartEarly ==
  ASSUME ControlInv, NEW m \in Managers, mgr[m].dem = 0,
         \/ ListRecords(m) \/ ReadClock(m) \/ Inspect(m) \/ InspectUnhealthy(m)
         \/ ClearHealthError(m) \/ Retire(m) \/ FailBoundDemands(m) \/ CancelJob(m)
         \/ RecordCancellation(m) \/ DeleteRecord(m) \/ ListExcess(m) \/ RetireExcess(m)
         \/ ShutdownCancel(m) \/ ShutdownFail(m) \/ ShutdownDelete(m) \/ EndShutdown(m)
         \/ Crash(m) \/ StartShutdown(m) \/ Prune(m)
  PROVE  Early(mgr'[m])
  <1>. DEFINE r == mgr[m]
  <1>1. r \in Manager /\ r.snap \in [ServiceIds -> Record] /\ records \in [ServiceIds -> Record]
        /\ clock \in Nat
    BY ManagerFacts DEF ControlInv, RegistryTypeOK
  <1>2. r.pc \in Looping \cup {"records", "limits"} => r.loop \in {"records", "limits"}
    BY ManagerFacts DEF Fits
  <1>3. Looping \cap Demanding = {} /\ {"listed", "records", "limits", "down", "downfail",
                                        "downdelete"} \cap Demanding = {}
    BY DEF Looping, Demanding, Answering
  <1>4. ASSUME NextRecord(m, r), r.pc \in Looping \/ r.loop = "down"
        PROVE  Early(mgr'[m])
    BY <1>1, <1>2, <1>4, NextRecordEarly
  <1>5. ASSUME NEW p, p \notin Demanding, Go(m, r, p)
        PROVE  Early(mgr'[m])
    BY <1>1, <1>5, GoEarly
  <1>6. CASE ListRecords(m)
    BY <1>1, <1>3, <1>6
    DEF ListRecords, Go, ControlInv, ManagersOK, Manager, Steps, Early
  <1>7. CASE ReadClock(m)
    BY <1>1, <1>3, <1>7 DEF ReadClock, Go, ControlInv, ManagersOK, Manager, Early
  <1>8. CASE Inspect(m)
    <2>1. PICK id \in ServiceIds :
            \/ Abort(m)
            \/ \E c \in Categories, d \in BOOLEAN :
                 Go(m, [r EXCEPT !.cur = id, !.category = c, !.done = d], "retire")
            \/ Go(m, [r EXCEPT !.cur = id], "healthy")
            \/ NextRecord(m, [r EXCEPT !.cur = id])
      BY <1>8, InspectCases
    <2>2. ASSUME NEW c \in Categories, NEW d \in BOOLEAN,
                 Go(m, [r EXCEPT !.cur = id, !.category = c, !.done = d], "retire")
          PROVE  Early(mgr'[m])
      <3>. DEFINE new == [r EXCEPT !.cur = id, !.category = c, !.done = d]
      <3>1. new \in Manager /\ new.dem = r.dem /\ Go(m, new, "retire")
        BY <1>1, <2>2 DEF Manager
      <3>. HIDE DEF new
      <3>. QED  BY <1>3, <3>1, GoEarly DEF Looping
    <2>. DEFINE new == [r EXCEPT !.cur = id]
    <2>3. new \in Manager /\ new.dem = r.dem /\ new.loop = r.loop
      BY <1>1 DEF Manager
    <2>4. r.loop \in {"records", "limits"}
      BY <1>2, <1>8 DEF Inspect
    <2>5. \/ Abort(m) \/ Early(mgr'[m]) \/ Go(m, new, "healthy") \/ NextRecord(m, new)
      BY <2>1, <2>2
    <2>. HIDE DEF new
    <2>. QED  BY <1>3, <2>3, <2>4, <2>5, AbortEarly, GoEarly, NextRecordEarly DEF Looping
  <1>9. CASE InspectUnhealthy(m)
    <2>1. PICK id \in ServiceIds :
            \/ Abort(m)
            \/ \E c \in Categories, d \in BOOLEAN :
                 Go(m, [r EXCEPT !.cur = id, !.sick = TRUE, !.category = c, !.done = d], "fail")
            \/ NextRecord(m, [r EXCEPT !.cur = id, !.sick = TRUE])
      BY <1>9, InspectUnhealthyCases
    <2>2. ASSUME NEW c \in Categories, NEW d \in BOOLEAN,
                 Go(m, [r EXCEPT !.cur = id, !.sick = TRUE, !.category = c, !.done = d], "fail")
          PROVE  Early(mgr'[m])
      <3>. DEFINE new == [r EXCEPT !.cur = id, !.sick = TRUE, !.category = c, !.done = d]
      <3>1. new \in Manager /\ new.dem = r.dem /\ Go(m, new, "fail")
        BY <1>1, <2>2 DEF Manager
      <3>. HIDE DEF new
      <3>. QED  BY <1>3, <3>1, GoEarly DEF Looping
    <2>. DEFINE new == [r EXCEPT !.cur = id, !.sick = TRUE]
    <2>3. new \in Manager /\ new.dem = r.dem /\ new.loop = r.loop
      BY <1>1 DEF Manager
    <2>4. r.loop \in {"records", "limits"}
      BY <1>2, <1>9 DEF InspectUnhealthy
    <2>5. \/ Abort(m) \/ Early(mgr'[m]) \/ NextRecord(m, new)
      BY <2>1, <2>2
    <2>. HIDE DEF new
    <2>. QED  BY <2>3, <2>4, <2>5, AbortEarly, NextRecordEarly
  <1>10. CASE ClearHealthError(m) \/ Retire(m) \/ EndShutdown(m) \/ Crash(m) \/ Prune(m)
    BY <1>3, <1>4, <1>5, <1>10, AbortEarly
    DEF ClearHealthError, Retire, EndShutdown, Crash, Prune, Looping
  <1>11. CASE FailBoundDemands(m)
    BY <1>3, <1>4, <1>5, <1>11 DEF FailBoundDemands, Looping
  <1>12. CASE CancelJob(m) \/ RecordCancellation(m) \/ DeleteRecord(m)
    BY <1>3, <1>4, <1>5, <1>12, AbortEarly
    DEF CancelJob, RecordCancellation, DeleteRecord, Looping
  <1>13. CASE ListExcess(m)
    <2>. DEFINE snap == [id \in ServiceIds |->
                           IF id \in Excess(r.now) THEN records[id] ELSE NoRecord]
                new == [r EXCEPT !.snap = snap, !.loop = "limits"]
    <2>1. snap \in [ServiceIds -> Record] /\ Go(m, new, "limits")
      BY <1>1, <1>13, NoRecordType DEF ListExcess
    <2>. HIDE DEF snap
    <2>2. new \in Manager /\ new.dem = r.dem
      BY <1>1, <2>1 DEF Manager, Steps
    <2>. HIDE DEF new
    <2>. QED  BY <1>3, <2>1, <2>2, GoEarly
  <1>14. CASE RetireExcess(m)
    <2>1. PICK id \in ServiceIds :
            \/ Abort(m)
            \/ Go(m, [r EXCEPT !.cur = id, !.category = "service_failure",
                               !.done = ~r.snap[id].job], "fail")
      BY <1>14 DEF RetireExcess
    <2>2. ASSUME NEW d \in BOOLEAN,
                 Go(m, [r EXCEPT !.cur = id, !.category = "service_failure", !.done = d], "fail")
          PROVE  Early(mgr'[m])
      <3>. DEFINE new == [r EXCEPT !.cur = id, !.category = "service_failure", !.done = d]
      <3>1. Go(m, new, "fail") /\ "service_failure" \in Categories
        BY <2>2 DEF Categories
      <3>2. new \in Manager /\ new.dem = r.dem
        BY <1>1, <3>1 DEF Manager
      <3>. HIDE DEF new
      <3>. QED  BY <1>3, <3>1, <3>2, GoEarly DEF Looping
    <2>3. (~r.snap[id].job) \in BOOLEAN
      OBVIOUS
    <2>. QED  BY <2>1, <2>2, <2>3, AbortEarly
  <1>15. CASE StartShutdown(m)
    BY <1>1, <1>3, <1>15 DEF StartShutdown, Go, ControlInv, ManagersOK, Manager, Early
  <1>16. CASE ShutdownCancel(m)
    <2>1. PICK id \in ServiceIds : Go(m, [r EXCEPT !.cur = id, !.loop = "down"], "downfail")
      BY <1>16 DEF ShutdownCancel
    <2>. DEFINE new == [r EXCEPT !.cur = id, !.loop = "down"]
    <2>2. new \in Manager /\ new.dem = r.dem /\ Go(m, new, "downfail")
      BY <1>1, <2>1 DEF Manager, Steps
    <2>. HIDE DEF new
    <2>. QED  BY <1>3, <2>2, GoEarly
  <1>17. CASE ShutdownFail(m)
    BY <1>3, <1>5, <1>17 DEF ShutdownFail
  <1>18. CASE ShutdownDelete(m)
    BY <1>4, <1>18, ManagerFacts DEF ShutdownDelete, Fits
  <1>. QED
    BY <1>6, <1>7, <1>8, <1>9, <1>10, <1>11, <1>12, <1>13, <1>14, <1>15, <1>16, <1>17, <1>18

\* The demand in hand stays in hand, or no demand is.
LEMMA KeepTodo ==
  ASSUME NEW m \in Managers, TodoOpen(mgr[m]), mgr[m].pc \in Demanding,
         demands' = demands, mgr'[m].pc \in Demanding,
         mgr'[m].dem = mgr[m].dem, mgr'[m].todo = mgr[m].todo,
         mgr'[m].pc \in Answering \/ mgr[m].dem = 0
  PROVE  TodoOpen(mgr[m])'
  BY DEF TodoOpen

\* One demand is dealt with; the other listed ones are as they were.
LEMMA NextDemandTodo ==
  ASSUME ControlInv, NEW m \in Managers, TodoOpen(mgr[m]), mgr[m].pc \in Demanding,
         NEW r \in Manager, r.todo = mgr[m].todo, NextDemand(m, r), r.dem \in DemandIds,
         \A d \in DemandIds \ {r.dem} : demands'[d] = demands[d]
  PROVE  TodoOpen(mgr[m])'
  <1>1. /\ mgr'[m].pc = "demands" /\ mgr'[m].dem = 0
        /\ mgr'[m].todo = [r.todo EXCEPT ![r.dem] = NoDemand]
    BY NextDemandFields
  <1>2. \A d \in DemandIds : r.todo[d] # NoDemand => Open(demands[d])
    BY DEF TodoOpen
  <1>3. \A d \in DemandIds : mgr'[m].todo[d] # NoDemand => d # r.dem /\ r.todo[d] # NoDemand
    BY <1>1 DEF Manager
  <1>4. \A d \in DemandIds : mgr'[m].todo[d] # NoDemand => Open(demands'[d])
    BY <1>2, <1>3
  <1>. QED  BY <1>1, <1>4 DEF TodoOpen, Answering

\* After a failed launch the demands still to handle are as listed.
LEMMA LaunchFailedTodo ==
  ASSUME ControlInv, NEW m \in Managers, TodoOpen(mgr[m]), mgr[m].pc \in Demanding,
         LaunchFailed(m, mgr[m]), demands' = demands
  PROVE  TodoOpen(mgr[m])'
  <1>. DEFINE new == [mgr[m] EXCEPT !.verdict = "failed", !.category = "service_failure",
                                    !.cur = NoService]
  <1>1. Abort(m) \/ (mgr[m].dem # 0 /\ Go(m, new, "decided"))
    BY DEF LaunchFailed
  <1>2. "service_failure" \in Categories /\ "failed" \in DemandStates
    BY DEF Categories, DemandStates
  <1>3. new \in Manager /\ new.dem = mgr[m].dem /\ new.todo = mgr[m].todo
    BY <1>2, ManagerFacts DEF Manager
  <1>. HIDE DEF new
  <1>4. CASE Abort(m)
    BY <1>4, AbortEarly, EarlyTodo
  <1>5. CASE Go(m, new, "decided")
    BY <1>3, <1>5, GoDemand, KeepTodo DEF Demanding, Answering
  <1>. QED  BY <1>1, <1>4, <1>5

\* The demands just listed are open.
LEMMA ListPendingTodo ==
  ASSUME ControlInv, NEW m \in Managers, TodoOpen(mgr[m]), ListPendingDemands(m)
  PROVE  TodoOpen(mgr[m])'
  <1>. DEFINE open == [d \in DemandIds |->
                         IF Open(Expired(demands[d])) THEN demands[d] ELSE NoDemand]
              new == [mgr[m] EXCEPT !.todo = open]
  <1>1. Go(m, new, "demands") /\ mgr[m].pc = "limits"
    BY DEF ListPendingDemands
  <1>2. demands' = [d \in DemandIds |-> Expired(demands[d])]
    BY DEF ListPendingDemands, ExpireDemands, PutDemands
  <1>3. open \in [DemandIds -> Demand]
    <2>1. NoDemand \in Demand
      BY ConfigAssumption DEF NoDemand, Demand, Categories, ZeroTime, NoService
    <2>. QED  BY <2>1 DEF ControlInv, RegistryTypeOK
  <1>4. \A d \in DemandIds : open[d] # NoDemand => Open(demands'[d])
    BY <1>2
  <1>. HIDE DEF open
  <1>5. new \in Manager /\ new.dem = mgr[m].dem /\ new.todo = open
    BY <1>3, ManagerFacts DEF Manager
  <1>. HIDE DEF new
  <1>6. mgr[m].dem = 0
    BY <1>1 DEF TodoOpen, Answering
  <1>7. mgr'[m].pc = "demands" /\ mgr'[m].dem = 0 /\ mgr'[m].todo = open
    BY <1>1, <1>5, <1>6, GoDemand
  <1>. QED  BY <1>4, <1>7 DEF TodoOpen, Answering

\* Deciding about one demand changes none of the others in the list.
LEMMA DecideTodo ==
  ASSUME ControlInv, NEW m \in Managers, TodoOpen(mgr[m]), DecideDemand(m)
  PROVE  TodoOpen(mgr[m])'
  <1>1. PICK d \in DemandIds :
          /\ mgr[m].todo[d] # NoDemand
          /\ \/ Abort(m)
             \/ NextDemand(m, [mgr[m] EXCEPT !.dem = d])
             \/ /\ mgr'[m].pc \in {"decided", "reserve"}
                /\ mgr'[m].dem = d
                /\ mgr'[m].todo = mgr[m].todo
    BY DecideFields
  <1>2. demands' = demands /\ mgr[m].pc = "demands"
    BY DEF DecideDemand, regVars
  <1>3. CASE Abort(m)
    BY <1>3, AbortEarly, EarlyTodo
  <1>4. CASE NextDemand(m, [mgr[m] EXCEPT !.dem = d])
    <2>. DEFINE r == [mgr[m] EXCEPT !.dem = d]
    <2>1. r \in Manager /\ r.dem = d /\ r.todo = mgr[m].todo /\ NextDemand(m, r)
      BY <1>4, ManagerFacts DEF Manager
    <2>. HIDE DEF r
    <2>. QED  BY <1>2, <2>1, NextDemandTodo DEF Demanding
  <1>5. CASE mgr'[m].pc \in {"decided", "reserve"} /\ mgr'[m].dem = d
             /\ mgr'[m].todo = mgr[m].todo
    BY <1>1, <1>2, <1>5 DEF TodoOpen, Demanding, Answering
  <1>. QED  BY <1>1, <1>3, <1>4, <1>5

\* Writing one demand changes none of the others in the list.
LEMMA WriteTodo ==
  ASSUME ControlInv, NEW m \in Managers, TodoOpen(mgr[m]), WriteDemand(m)
  PROVE  TodoOpen(mgr[m])'
  <1>. DEFINE r == mgr[m]
  <1>1. r \in Manager /\ r.dem \in DemandIds /\ r.pc = "decided"
    BY ManagerFacts DEF WriteDemand, Fits
  <1>2. CASE UpdateDemand(r.dem, r.verdict, r.cur, r.category) /\ NextDemand(m, r)
    <2>1. \A d \in DemandIds \ {r.dem} : demands'[d] = demands[d]
      BY <1>1, <1>2 DEF UpdateDemand, PutDemands, ControlInv, RegistryTypeOK
    <2>. QED  BY <1>1, <1>2, <2>1, NextDemandTodo DEF Demanding, Answering
  <1>3. CASE Abort(m)
    BY <1>3, AbortEarly, EarlyTodo
  <1>. QED  BY <1>2, <1>3 DEF WriteDemand

\* At the end of the loop the list is empty.
LEMMA EndTodo ==
  ASSUME ControlInv, NEW m \in Managers, TodoOpen(mgr[m]), EndDemands(m)
  PROVE  TodoOpen(mgr[m])'
  <1>. DEFINE need == [t \in Tiers |->
                         LET count == Cardinality(RecordsForTier(t, mgr[m].now))
                         IN IF count < MinReplicas[t] THEN MinReplicas[t] - count ELSE 0]
              new == [mgr[m] EXCEPT !.need = need]
  <1>1. Go(m, new, "minimums") /\ mgr[m].pc = "demands" /\ demands' = demands
    BY DEF EndDemands, regVars
  <1>. HIDE DEF need
  <1>2. mgr'[m].pc = "minimums" /\ mgr'[m].dem = mgr[m].dem /\ mgr'[m].todo = mgr[m].todo
    BY <1>1 DEF Go, ControlInv, ManagersOK, Manager
  <1>3. mgr[m].dem = 0
    BY <1>1 DEF TodoOpen, Answering
  <1>. QED  BY <1>1, <1>2, <1>3, KeepTodo DEF Demanding

\* A reservation changes no demand.
LEMMA ReserveTodo ==
  ASSUME ControlInv, NEW m \in Managers, TodoOpen(mgr[m]),
         ReserveForDemand(m) \/ ReserveMinimum(m)
  PROVE  TodoOpen(mgr[m])'
  <1>. DEFINE r == mgr[m]
              new == [r EXCEPT !.cur = issued + 1]
  <1>1. PICK t : ReserveFor(m, r, t)
    BY DEF ReserveForDemand, ReserveMinimum
  <1>2. /\ r \in Manager /\ r.dem \in DemandIds \cup {0}
        /\ r.pc \in {"reserve", "minimums"} /\ r.pc \in Demanding
    BY ManagerFacts DEF ReserveForDemand, ReserveMinimum, Demanding, Answering
  <1>3. demands' = demands
    BY <1>1 DEF ReserveFor, Reserve, regVars
  <1>4. CASE issued < MaxServices /\ Go(m, new, "submit")
    <2>1. issued + 1 \in ServiceIds
      BY <1>4, BoundAssumption DEF ControlInv, RegistryTypeOK, ServiceIds
    <2>2. new \in Manager /\ new.dem = r.dem /\ new.todo = r.todo
      BY <1>2, <2>1 DEF Manager
    <2>. HIDE DEF new
    <2>. QED  BY <1>2, <1>3, <1>4, <2>2, GoDemand, KeepTodo DEF Demanding, Answering
  <1>5. CASE Abort(m)
    BY <1>5, AbortEarly, EarlyTodo
  <1>6. CASE r.dem # 0 /\ NextDemand(m, r)
    BY <1>2, <1>3, <1>6, NextDemandTodo
  <1>7. CASE LaunchFailed(m, r)
    BY <1>2, <1>3, <1>7, LaunchFailedTodo
  <1>. QED  BY <1>1, <1>4, <1>5, <1>6, <1>7 DEF ReserveFor

\* Neither does submission or attachment.
LEMMA LaunchTodo ==
  ASSUME ControlInv, NEW m \in Managers, TodoOpen(mgr[m]),
         SubmitService(m) \/ AttachService(m)
  PROVE  TodoOpen(mgr[m])'
  <1>. DEFINE r == mgr[m]
              need == [r.need EXCEPT ![records[r.cur].tier] = @ - 1]
              short == [r EXCEPT !.need = need, !.cur = NoService]
              new == [r EXCEPT !.verdict = "launching"]
  <1>1. r \in Manager /\ r.pc \in {"submit", "attach"} /\ r.pc \in Demanding
    BY ManagerFacts DEF SubmitService, AttachService, Demanding, Answering
  <1>2. demands' = demands
    BY DEF SubmitService, AttachService, AttachJob, Delete, PutRecord, regVars
  <1>3. \/ Go(m, r, "attach")
        \/ LaunchFailed(m, r)
        \/ r.dem = 0 /\ Go(m, short, "minimums")
        \/ Go(m, new, "decided")
    BY <1>1 DEF SubmitService, AttachService, Manager
  <1>4. CASE Go(m, r, "attach")
    BY <1>1, <1>2, <1>4, GoDemand, KeepTodo DEF Demanding, Answering
  <1>5. CASE LaunchFailed(m, r)
    BY <1>1, <1>2, <1>5, LaunchFailedTodo
  <1>6. CASE r.dem = 0 /\ Go(m, short, "minimums")
    <2>. HIDE DEF need
    <2>1. mgr'[m].pc = "minimums" /\ mgr'[m].dem = r.dem /\ mgr'[m].todo = r.todo
      BY <1>1, <1>6 DEF Go, ControlInv, ManagersOK, Manager
    <2>. QED  BY <1>1, <1>2, <1>6, <2>1, KeepTodo DEF Demanding
  <1>7. CASE Go(m, new, "decided")
    <2>1. new \in Manager /\ new.dem = r.dem /\ new.todo = r.todo
      BY <1>1 DEF Manager, DemandStates
    <2>. HIDE DEF new
    <2>. QED  BY <1>1, <1>2, <1>7, <2>1, GoDemand, KeepTodo DEF Demanding, Answering
  <1>. QED  BY <1>3, <1>4, <1>5, <1>6, <1>7

\* Whatever the one broker does, the demands it still has to handle are open,
\* or expired.
LEMMA ManagerTodo ==
  ASSUME ControlInv, NEW m \in Managers, TodoOpen(mgr[m]), ManagerStep(m)
  PROVE  TodoOpen(mgr[m])'
  <1>1. CASE Crash(m)
    BY <1>1, AbortEarly, EarlyTodo DEF Crash
  <1>2. CASE ImportDemand(m) \/ ImportReport(m)
    <2>1. mgr' = mgr /\ mgr[m].pc = "idle"
      BY <1>2 DEF ImportDemand, ImportReport
    <2>. QED  BY <2>1, EarlyTodo DEF TodoOpen, Early, Demanding, Answering
  <1>3. ASSUME mgr[m].dem = 0, Early(mgr'[m])
        PROVE  TodoOpen(mgr[m])'
    BY <1>3, EarlyTodo
  <1>4. mgr[m].pc \notin Answering => mgr[m].dem = 0
    BY DEF TodoOpen
  <1>5. \/ Crash(m) \/ ImportDemand(m) \/ ImportReport(m)
        \/ ListPendingDemands(m) \/ DecideDemand(m) \/ WriteDemand(m) \/ EndDemands(m)
        \/ ReserveForDemand(m) \/ ReserveMinimum(m) \/ SubmitService(m) \/ AttachService(m)
        \/ mgr[m].pc \notin Answering
    BY DEF ManagerStep, PassStep, Answering, ListRecords, ReadClock, Inspect,
           InspectUnhealthy, ClearHealthError, Retire, FailBoundDemands, CancelJob,
           RecordCancellation, DeleteRecord, ListExcess, RetireExcess, Prune,
           ShutdownCancel, ShutdownFail, ShutdownDelete, EndShutdown, StartShutdown
  <1>. QED
    BY <1>1, <1>2, <1>3, <1>4, <1>5, RecordPartEarly, ListPendingTodo, DecideTodo, WriteTodo,
       EndTodo, ReserveTodo, LaunchTodo
    DEF ManagerStep, PassStep

\* Launchers, Slurm and time leave reconcilers and demands alone.
LEMMA OthersIdle ==
  ASSUME \/ \E id \in ServiceIds : LauncherStep(id) \/ SlurmStep(id)
         \/ TimePasses
         \/ UNCHANGED vars
  PROVE  UNCHANGED <<mgr, demands>>
  BY DEF LauncherStep, SlurmStep, RuntimeUp, Heartbeat, RuntimeExits, LauncherFails,
         JobStarts, JobCancelled, JobExits, JobKilled, JobEnds, LauncherPublish, Renew,
         MarkUnhealthy, PutRecord, TimePasses, Tick, vars, regVars

\* Every step keeps the invariant about the demands a pass has listed.
LEMMA DemandsNext ==
  ASSUME NEW b, Managers = {b}, ControlInv, DemandsInv, [Next]_vars
  PROVE  DemandsInv'
  <1>1. FreshDemands'
    BY NextOK, FreshDemandsKept DEF DemandsInv, ControlInv
  <1>2. b \in Managers /\ TodoOpen(mgr[b])
    BY DEF DemandsInv
  <1>3. UNCHANGED <<mgr, demands>> => TodoOpen(mgr[b])'
    BY <1>2 DEF TodoOpen
  <1>4. ManagerStep(b) => TodoOpen(mgr[b])'
    BY <1>2, ManagerTodo
  <1>5. TodoOpen(mgr[b])'
    BY <1>3, <1>4, OthersIdle DEF Next
  <1>. QED  BY <1>1, <1>5 DEF DemandsInv

\* What one step makes of the outcome of a demand.
OutcomeStep ==
  \A d \in DemandIds :
    /\ demands[d].state = "failed" => demands'[d].state \in {"failed", "absent"}
    /\ demands[d].state = "ready" => demands'[d].state \in {"ready", "failed", "absent"}

\* No step changes the outcome of a demand that has one.
LEMMA OutcomeKept ==
  ASSUME NEW b, Managers = {b}, ControlInv, DemandsInv, [Next]_vars
  PROVE  OutcomeStep
  <1>. demands \in [DemandIds -> Demand] /\ requested \in Nat
    BY DEF ControlInv, RegistryTypeOK
  <1>1. CASE demands' = demands
    BY <1>1 DEF OutcomeStep
  <1>2. CASE ImportDemand(b)
    BY <1>2 DEF ImportDemand, RequestDemand, DemandsInv, FreshDemands, OutcomeStep, DemandIds
  <1>3. CASE WriteDemand(b)
    <2>1. Open(demands[mgr[b].dem]) /\ mgr[b].dem \in DemandIds
      <3>1. mgr[b].dem \in DemandIds /\ mgr[b].pc = "decided"
        BY <1>3, ManagerFacts DEF WriteDemand, Fits
      <3>2. mgr[b].dem # 0
        BY <3>1 DEF DemandIds
      <3>. QED  BY <3>1, <3>2 DEF DemandsInv, TodoOpen, Answering
    <2>2. \A d \in DemandIds \ {mgr[b].dem} : demands'[d] = demands[d]
      BY <1>3, <2>1 DEF WriteDemand, UpdateDemand, PutDemands, regVars
    <2>. QED  BY <2>1, <2>2 DEF OutcomeStep, Open
  <1>4. CASE ListPendingDemands(b)
    <2>1. demands' = [d \in DemandIds |-> Expired(demands[d])]
      BY <1>4 DEF ListPendingDemands, ExpireDemands, PutDemands
    <2>. QED  BY <2>1 DEF OutcomeStep, Expired, Open
  <1>5. CASE \E id, c : FailDemandsForService(id, c)
    <2>1. PICK id, c : FailDemandsForService(id, c)
      BY <1>5
    <2>2. \A d \in DemandIds :
            \/ demands'[d] = demands[d]
            \/ demands'[d] = [demands[d] EXCEPT !.state = "failed",
                                                !.category = OrServiceFailure(c)]
      BY <2>1 DEF FailDemandsForService, PutDemands
    <2>3. \A d \in DemandIds : demands'[d] = demands[d] \/ demands'[d].state = "failed"
      BY <2>2 DEF Demand
    <2>. QED  BY <2>3 DEF OutcomeStep
  <1>6. CASE Prune(b)
    BY <1>6 DEF Prune, PruneExpiredDemands, PutDemands, NoDemand, OutcomeStep
  <1>7. ManagerStep(b) =>
          \/ demands' = demands \/ ImportDemand(b) \/ WriteDemand(b)
          \/ ListPendingDemands(b) \/ Prune(b)
          \/ \E id, c : FailDemandsForService(id, c)
    BY DEF ManagerStep, PassStep, ImportReport, Crash, StartShutdown, ListRecords,
           ReadClock, Inspect, InspectUnhealthy, ClearHealthError, Retire,
           FailBoundDemands, CancelJob, RecordCancellation, DeleteRecord, ListExcess,
           RetireExcess, DecideDemand, EndDemands, ReserveForDemand, ReserveMinimum,
           ReserveFor, SubmitService, AttachService, ShutdownCancel, ShutdownFail,
           ShutdownDelete, EndShutdown, ReportServiceFailure, HealthUpdate, RetireUpdate,
           TerminalUpdate, CancelUpdate, Delete, AttachJob, Reserve, PutRecord, regVars
  <1>. QED
    BY <1>1, <1>2, <1>3, <1>4, <1>5, <1>6, <1>7, OthersIdle DEF Next

\* One broker, which may die and be restarted: an answered demand keeps its
\* answer until it is pruned, but that a ready service may still fail.
THEOREM OutcomesAreFinal ==
  ASSUME NEW b, Managers = {b}
  PROVE  Spec => OutcomeIsFinal
  <1>1. Init => DemandsInv
    BY DEF Init, RegistryInit, NoDemand, IdleManager, DemandsInv, FreshDemands, TodoOpen,
           Demanding, Answering
  <1>2. ControlInv /\ DemandsInv /\ [Next]_vars => DemandsInv'
    BY DemandsNext
  <1>3. ControlInv /\ DemandsInv /\ [Next]_vars
        => [\A d \in DemandIds :
              /\ demands[d].state = "failed" => demands'[d].state \in {"failed", "absent"}
              /\ demands[d].state = "ready"
                 => demands'[d].state \in {"ready", "failed", "absent"}]_demands
    BY OutcomeKept DEF OutcomeStep
  <1>. QED  BY <1>1, <1>2, <1>3, ControlInvariant, PTL DEF Spec, OutcomeIsFinal

-----------------------------------------------------------------------------
(* One broker: why a service died is not lost on the way to its demands *)

\* Positions of a pass that works on listed records.
Scanning == Looping \cup {"records", "limits"}

\* A service that was reserved and, if its record is there, is of the tier.
Serves(id, t) == id \in 1 .. issued /\ (Known(id) => records[id].tier = t)

\* A demand is bound to a service of its own tier.
BoundFits ==
  \A d \in DemandIds :
    /\ demands[d].state = "pending" => demands[d].service = NoService
    /\ demands[d].state \in {"launching", "ready"}
       => Serves(demands[d].service, demands[d].tier)

\* The demand in hand is as it was listed, the service in hand of its tier.
HandFits(r) ==
  /\ r.pc \in Demanding
     => \A d \in DemandIds : r.todo[d] # NoDemand => demands[d] = r.todo[d]
  /\ r.pc \in Answering /\ r.dem # 0 => r.todo[r.dem] # NoDemand
  /\ r.pc = "decided" /\ r.verdict \in {"launching", "ready"}
     => Serves(r.cur, demands[r.dem].tier)
  /\ r.pc \in {"submit", "attach"}
     => r.cur \in 1 .. issued /\ (r.dem # 0 => Serves(r.cur, demands[r.dem].tier))
  /\ r.pc = "submit" => jobs[r.cur] = "none"

\* A record listed as unhealthy stays unhealthy and gets no other job.
ListedFits(r) ==
  r.pc \in Scanning \cup {"listed"} =>
    \A id \in ServiceIds : r.snap[id] # NoRecord =>
      /\ Serves(id, r.snap[id].tier)
      /\ r.snap[id].state = "unhealthy" /\ Known(id)
         => records[id].state = "unhealthy" /\ records[id].job = r.snap[id].job

LoopFits(r) == r.pc \in {"records", "limits"} => r.loop = r.pc

\* Only warm tiers are above their maximum: of the others there is at most one
\* live record at the instant of the pass.
ExcessWarm(r) ==
  r.pc \in Scanning /\ r.loop = "limits"
  => \A id \in ServiceIds : r.snap[id] # NoRecord => r.snap[id].tier \in WarmTiers

OneAlive(now) ==
  \A t \in Tiers \ WarmTiers : \A x, y \in RecordsForTier(t, now) : x = y

OneAtNow(r) == r.pc \in Scanning /\ r.loop = "records" => OneAlive(r.now)

\* Why a service is retired: service_failure only when Slurm has said so, or
\* when it has nothing to say about a demand that waits.
EndedOtherwise(id) == jobs[id] \in EndedJob \ {"oom"}

Excused(id) ==
  \/ ~Known(id)
  \/ records[id].tier \in WarmTiers
  \/ records[id].state = "unhealthy" /\ ~records[id].job
  \/ \A d \in DemandIds : ~Bound(demands[d], id)

WhyFits(r) ==
  r.pc \in {"retire", "fail"} =>
    /\ r.category # "none" /\ r.cur \in 1 .. issued
    /\ r.category = "service_failure"
       => EndedOtherwise(r.cur) \/ (r.pc = "fail" /\ Excused(r.cur))

PassFits(r) ==
  ListedFits(r) /\ LoopFits(r) /\ ExcessWarm(r) /\ OneAtNow(r) /\ WhyFits(r)

OomInv ==
  /\ AbsentIsNoRecord
  /\ JobsOK
  /\ BoundFits
  /\ \A m \in Managers : HandFits(mgr[m]) /\ PassFits(mgr[m])

\* What happens to the records that were reserved before a step: a record that is
\* still there has its tier, and an unhealthy one is unhealthy.
RecordsAge ==
  /\ issued <= issued' /\ issued' \in Nat
  /\ \A id \in 1 .. issued :
       Known(id)' => /\ Known(id) /\ records'[id].tier = records[id].tier
                     /\ records[id].state = "unhealthy" => records'[id].state = "unhealthy"
  /\ AbsentIsNoRecord => AbsentIsNoRecord'

\* Records age in every step of the registry.
LEMMA StepRecordsAge ==
  ASSUME LeaseInv, [RegistryNext]_regVars
  PROVE  RecordsAge
  <1>. /\ records \in [ServiceIds -> Record] /\ issued \in Nat
       /\ 1 .. issued \subseteq ServiceIds
    BY BoundAssumption DEF LeaseInv, RegistryTypeOK, ServiceIds
  <1>1. ASSUME NEW id \in ServiceIds, NEW t \in Tiers, NEW deadline \in Nat,
               Reserve(id, t, deadline)
        PROVE  RecordsAge
    <2>1. /\ issued' = issued + 1 /\ id = issued + 1
          /\ records' = [records EXCEPT ![id] = NewRecord(t, deadline)]
      BY <1>1 DEF Reserve
    <2>2. NewRecord(t, deadline).state = "starting"
      BY DEF NewRecord, Absent
    <2>3. \A o \in 1 .. issued : records'[o] = records[o]
      BY <2>1
    <2>4. AbsentIsNoRecord => AbsentIsNoRecord'
      BY <2>1, <2>2 DEF AbsentIsNoRecord, Known
    <2>. QED  BY <2>1, <2>3, <2>4 DEF RecordsAge, Known
  <1>2. ASSUME NEW id \in ServiceIds, NEW r \in Record, Put(id, r)
        PROVE  RecordsAge
    <2>1. /\ issued' = issued /\ Known(id) /\ Allowed(records[id], r)
          /\ records' = [records EXCEPT ![id] = r]
      BY <1>2 DEF Put, PutRecord
    <2>2. NoRecord.state = "absent"
      BY NoRecordIsAbsent
    <2>3. \/ r = NoRecord
          \/ /\ r.state # "absent" /\ r.tier = records[id].tier
             /\ records[id].state = "unhealthy" => r.state = "unhealthy"
      BY <2>1 DEF Allowed, Known, Managed
    <2>. QED  BY <2>1, <2>2, <2>3 DEF RecordsAge, Known, AbsentIsNoRecord
  <1>3. CASE DemandsOnly \/ Tick
    BY <1>3 DEF DemandsOnly, Tick, RecordsAge, Known, AbsentIsNoRecord
  <1>. QED  BY <1>1, <1>2, <1>3, StepKinds DEF LeaseInv

\* A scale-from-zero record that is live at some instant after a step, other than a
\* reservation, was live at that instant before.
LEMMA NoneRevived ==
  ASSUME LeaseInv, [RegistryNext]_regVars, issued' = issued, NEW now \in Nat,
         OneAlive(now)
  PROVE  OneAlive(now)'
  <1>. /\ records \in [ServiceIds -> Record] /\ issued \in Nat
    BY DEF LeaseInv, RegistryTypeOK
  <1>1. ASSUME NEW id \in ServiceIds, NEW t \in Tiers, NEW deadline \in Nat,
               Reserve(id, t, deadline)
        PROVE  FALSE
    BY <1>1 DEF Reserve
  <1>2. ASSUME NEW id \in ServiceIds, NEW r \in Record, Put(id, r)
        PROVE  OneAlive(now)'
    <2>. DEFINE old == records[id]
    <2>1. /\ records' = [records EXCEPT ![id] = r] /\ Allowed(old, r) /\ old \in Record
      BY <1>2 DEF Put, PutRecord
    <2>2. ASSUME Alive(r, now), r.tier \notin WarmTiers
          PROVE  old.tier = r.tier /\ Alive(old, now)
      <3>1. r # NoRecord /\ r.state \in Managed
        BY <2>2 DEF NoRecord, Absent, Alive, Managed
      <3>2. r.tier = old.tier /\ r.absolute = old.absolute /\ old.state \in Managed
        BY <2>1, <3>1 DEF Allowed, Managed
      <3>3. /\ old.absolute # ZeroTime /\ old.lease = old.absolute /\ old.absolute \in Nat
            /\ r.lease \in Nat
        BY <2>1, <2>2, <3>2 DEF LeaseInv, AbsoluteLease, Record
      <3>4. old.absolute > now
        BY <2>2, <3>2, <3>3 DEF Alive, EffectiveLease, BoundedLeaseExpiry
      <3>5. EffectiveLease(old) = old.absolute
        BY <3>3 DEF EffectiveLease, BoundedLeaseExpiry
      <3>. QED  BY <3>2, <3>4, <3>5 DEF Alive, Managed
    <2>. HIDE DEF old
    <2>3. \A t \in Tiers \ WarmTiers : RecordsForTier(t, now)' \subseteq RecordsForTier(t, now)
      <3>. SUFFICES ASSUME NEW t \in Tiers \ WarmTiers, NEW o \in RecordsForTier(t, now)'
                    PROVE  o \in RecordsForTier(t, now)
        OBVIOUS
      <3>1. o \in ServiceIds /\ records'[o].tier = t /\ Alive(records'[o], now)
        BY DEF RecordsForTier
      <3>2. CASE o = id
        BY <2>1, <2>2, <3>1, <3>2 DEF RecordsForTier, old
      <3>3. CASE o # id
        BY <2>1, <3>1, <3>3 DEF RecordsForTier
      <3>. QED  BY <3>2, <3>3
    <2>. QED  BY <2>3 DEF OneAlive
  <1>3. CASE DemandsOnly \/ Tick
    <2>1. records' = records
      BY <1>3 DEF DemandsOnly, Tick
    <2>. QED  BY <2>1 DEF OneAlive, RecordsForTier
  <1>. QED  BY <1>1, <1>2, <1>3, StepKinds DEF LeaseInv

\* An unhealthy record keeps its job.
JobKept ==
  \A id \in ServiceIds :
    records[id].state = "unhealthy" /\ Known(id)' => records'[id].job = records[id].job

\* A job that does not live stays as it is.
JobsStay == \A id \in ServiceIds : jobs[id] \notin LiveJob => jobs'[id] = jobs[id]

\* The updates of records by passes, launchers and workers leave the job of an
\* unhealthy record alone, reserve nothing and change no demand.
LEMMA UpdatesKeepJob ==
  ASSUME ControlInv, NEW id \in ServiceIds,
         \/ \E failed \in BOOLEAN : HealthUpdate(id, failed)
         \/ \E c, now, done : RetireUpdate(id, c, now, done)
         \/ \E c : TerminalUpdate(id, c)
         \/ CancelUpdate(id) \/ Delete(id)
         \/ LauncherPublish(id) \/ Renew(id) \/ MarkUnhealthy(id)
         \/ \E c : ReportServiceFailure(id, c)
  PROVE  JobKept /\ UNCHANGED <<issued, demands>>
  <1>. DEFINE old == records[id]
  <1>. old \in Record /\ records \in [ServiceIds -> Record]
    BY DEF ControlInv, RegistryTypeOK
  <1>1. NoRecord.state = "absent"
    BY NoRecordIsAbsent
  <1>2. ASSUME NEW rec, PutRecord(id, rec),
               rec.state = "absent" \/ old.state # "unhealthy" \/ rec.job = old.job
        PROVE  JobKept /\ UNCHANGED <<issued, demands>>
    BY <1>2 DEF PutRecord, JobKept, Known
  <1>3. ASSUME NEW failed \in BOOLEAN, HealthUpdate(id, failed)
        PROVE  JobKept /\ UNCHANGED <<issued, demands>>
    <2>. DEFINE rec == [old EXCEPT !.healthError = failed]
    <2>1. PutRecord(id, rec) /\ rec.job = old.job
      BY <1>3 DEF HealthUpdate, Record
    <2>. HIDE DEF rec
    <2>. QED  BY <1>2, <2>1
  <1>4. ASSUME NEW c, NEW now, NEW done, RetireUpdate(id, c, now, done)
        PROVE  JobKept /\ UNCHANGED <<issued, demands>>
    <2>. DEFINE rec == [old EXCEPT !.state = "unhealthy", !.healthError = TRUE,
                                   !.category = c, !.lease = now, !.cancelRequested = done]
    <2>1. PutRecord(id, rec) /\ rec.job = old.job
      BY <1>4 DEF RetireUpdate, Record
    <2>. HIDE DEF rec
    <2>. QED  BY <1>2, <2>1
  <1>5. ASSUME NEW c, TerminalUpdate(id, c)
        PROVE  JobKept /\ UNCHANGED <<issued, demands>>
    <2>. DEFINE rec == [old EXCEPT !.category = c, !.healthError = TRUE, !.cancelRequested = TRUE]
    <2>1. PutRecord(id, rec) /\ rec.job = old.job
      BY <1>5 DEF TerminalUpdate, Record
    <2>. HIDE DEF rec
    <2>. QED  BY <1>2, <2>1
  <1>6. CASE CancelUpdate(id)
    <2>. DEFINE rec == [old EXCEPT !.cancelRequested = TRUE]
    <2>1. PutRecord(id, rec) /\ rec.job = old.job
      BY <1>6 DEF CancelUpdate, Record
    <2>. HIDE DEF rec
    <2>. QED  BY <1>2, <2>1
  <1>7. CASE Delete(id)
    BY <1>1, <1>2, <1>7 DEF Delete
  <1>8. CASE LauncherPublish(id)
    BY <1>2, <1>8 DEF LauncherPublish, Publishable
  <1>9. CASE Renew(id)
    BY <1>2, <1>9 DEF Renew
  <1>10. CASE MarkUnhealthy(id)
    <2>. DEFINE rec == [old EXCEPT !.state = "unhealthy", !.healthError = TRUE,
                                   !.category = "service_failure", !.lease = clock]
    <2>1. PutRecord(id, rec) /\ rec.job = old.job
      BY <1>10 DEF MarkUnhealthy, Record
    <2>. HIDE DEF rec
    <2>. QED  BY <1>2, <2>1
  <1>11. ASSUME NEW c, ReportServiceFailure(id, c)
        PROVE  JobKept /\ UNCHANGED <<issued, demands>>
    BY <1>2, <1>11 DEF ReportServiceFailure
  <1>. QED
    BY <1>3, <1>4, <1>5, <1>6, <1>7, <1>8, <1>9, <1>10, <1>11

\* So does a step without a call about a record.
LEMMA IdleKeepsJob ==
  ASSUME records' = records
  PROVE  JobKept
  BY DEF JobKept

\* What a move does to the locals about the listed records.
LEMMA GoPass ==
  ASSUME ControlInv, NEW m \in Managers, NEW r \in Manager, NEW p, Go(m, r, p)
  PROVE  /\ mgr'[m].pc = p /\ mgr'[m].loop = r.loop /\ mgr'[m].now = r.now
         /\ mgr'[m].snap = r.snap /\ mgr'[m].cur = r.cur
         /\ mgr'[m].category = r.category
  BY DEF Go, ControlInv, ManagersOK, Manager

\* What going on with the next record does to them.
LEMMA NextRecordPass ==
  ASSUME ControlInv, NEW m \in Managers, NEW r \in Manager, r.cur \in ServiceIds,
         NextRecord(m, r)
  PROVE  /\ mgr'[m].pc = r.loop /\ mgr'[m].loop = r.loop /\ mgr'[m].now = r.now
         /\ mgr'[m].snap = [r.snap EXCEPT ![r.cur] = NoRecord]
  <1>. DEFINE left == [r.snap EXCEPT ![r.cur] = NoRecord]
              new == [r EXCEPT !.snap = left, !.cur = NoService, !.sick = FALSE,
                               !.category = "none", !.done = FALSE, !.pc = r.loop]
  <1>1. mgr' = [mgr EXCEPT ![m] = new]
    BY DEF NextRecord, Go, Manager
  <1>2. mgr'[m] = new
    BY <1>1 DEF ControlInv, ManagersOK
  <1>. HIDE DEF left
  <1>3. new.pc = r.loop /\ new.loop = r.loop /\ new.now = r.now /\ new.snap = left
    BY DEF Manager
  <1>. QED  BY <1>2, <1>3 DEF left

\* A position at which the pass has no listed record.
LEMMA PassOver ==
  ASSUME NEW m \in Managers, mgr'[m].pc \notin Scanning \cup {"listed"}
  PROVE  PassFits(mgr[m])'
  BY DEF PassFits, ListedFits, LoopFits, ExcessWarm, OneAtNow, WhyFits, Scanning, Looping

\* A position at which it has no listed demand.
LEMMA HandEmpty ==
  ASSUME NEW m \in Managers, mgr'[m].pc \notin Demanding
  PROVE  HandFits(mgr[m])'
  BY DEF HandFits, Demanding, Answering

\* What is known of the listed records stays true while they are worked off.
LEMMA ListKept ==
  ASSUME ControlInv, LeaseInv, [RegistryNext]_regVars, issued' = issued, JobKept,
         NEW m \in Managers, PassFits(mgr[m]),
         mgr[m].pc \in Scanning \cup {"listed"},
         mgr'[m].loop = mgr[m].loop, mgr'[m].now = mgr[m].now,
         \A id \in ServiceIds : mgr'[m].snap[id] \in {mgr[m].snap[id], NoRecord},
         mgr[m].pc \in Scanning \/ mgr'[m].pc \notin Scanning
  PROVE  ListedFits(mgr[m])' /\ ExcessWarm(mgr[m])' /\ OneAtNow(mgr[m])'
  <1>1. RecordsAge
    BY StepRecordsAge
  <1>2. ListedFits(mgr[m])'
    <2>1. ASSUME NEW id \in ServiceIds, mgr'[m].snap[id] # NoRecord
          PROVE  /\ id \in 1 .. issued' /\ (Known(id)' => records'[id].tier = mgr'[m].snap[id].tier)
                 /\ mgr'[m].snap[id].state = "unhealthy" /\ Known(id)'
                    => records'[id].state = "unhealthy" /\ records'[id].job = mgr'[m].snap[id].job
      <3>1. mgr'[m].snap[id] = mgr[m].snap[id]
        BY <2>1
      <3>2. /\ id \in 1 .. issued /\ (Known(id) => records[id].tier = mgr[m].snap[id].tier)
            /\ mgr[m].snap[id].state = "unhealthy" /\ Known(id)
               => records[id].state = "unhealthy" /\ records[id].job = mgr[m].snap[id].job
        BY <2>1, <3>1 DEF PassFits, ListedFits, Serves
      <3>. QED  BY <1>1, <3>1, <3>2 DEF RecordsAge, JobKept
    <2>. QED  BY <2>1 DEF ListedFits, Serves
  <1>3. ExcessWarm(mgr[m])'
    BY DEF PassFits, ExcessWarm
  <1>4. OneAtNow(mgr[m])'
    <2>1. mgr[m].now \in Nat
      BY ManagerFacts
    <2>2. \A now \in Nat : OneAlive(now) => OneAlive(now)'
      BY NoneRevived
    <2>3. mgr'[m].pc \in Scanning /\ mgr'[m].loop = "records"
          => \A now \in Nat : now = mgr[m].now => OneAlive(now)
      BY DEF PassFits, OneAtNow
    <2>. QED  BY <2>1, <2>2, <2>3 DEF OneAtNow
  <1>. QED  BY <1>2, <1>3, <1>4

\* A cancellation leaves jobs and launchers as Slurm has them.
LEMMA CancellingJobs ==
  ASSUME JobsOK, CancellationsGrow, issued \in Nat, issued' \in Nat, issued <= issued'
  PROVE  JobsOK' /\ JobsStay
  <1>1. \A id \in ServiceIds : id > issued' => id > issued
    BY DEF ServiceIds
  <1>2. \A id \in cancelling' : jobs'[id] \in LiveJob
    BY DEF JobsOK, CancellationsGrow
  <1>. QED  BY <1>1, <1>2 DEF JobsOK, CancellationsGrow, JobsStay

\* Nothing else but a submission does a reconciler do to Slurm.
LEMMA ManagerEnvironment ==
  ASSUME ControlInv, NEW m \in Managers, ManagerStep(m)
  PROVE  CancellationsGrow \/ SubmitService(m)
  <1>1. \/ UNCHANGED <<jobs, cancelling, launcher>> \/ SubmitService(m)
        \/ CancelJob(m) \/ AttachService(m) \/ ShutdownCancel(m)
    BY DEF ManagerStep, PassStep, ImportDemand, ImportReport, Crash, StartShutdown,
           ListRecords, ReadClock, Inspect, InspectUnhealthy, ClearHealthError, Retire,
           FailBoundDemands, RecordCancellation, DeleteRecord, ListExcess, RetireExcess,
           ListPendingDemands, DecideDemand, WriteDemand, EndDemands, ReserveForDemand,
           ReserveMinimum, Prune, ShutdownFail, ShutdownDelete, EndShutdown, envVars
  <1>2. CASE UNCHANGED <<jobs, cancelling, launcher>>
    BY <1>2 DEF CancellationsGrow
  <1>3. CASE CancelJob(m) \/ AttachService(m)
    <2>1. mgr[m].cur \in ServiceIds
      BY <1>3, ManagerFacts DEF CancelJob, AttachService, Fits, Holding, Looping
    <2>2. CancelAccepted(mgr[m].cur) \/ UNCHANGED envVars
      BY <1>3 DEF CancelJob, AttachService, CancelRefused
    <2>. QED  BY <2>1, <2>2, CancellationAccepted, NothingCancelled
  <1>4. CASE ShutdownCancel(m)
    <2>1. PICK id \in ServiceIds : CancelAccepted(id) \/ UNCHANGED envVars
      BY <1>4 DEF ShutdownCancel, CancelRefused
    <2>. QED  BY <2>1, CancellationAccepted, NothingCancelled
  <1>. QED  BY <1>1, <1>2, <1>3, <1>4

\* A submission is the first one for a service that was reserved.
LEMMA SubmissionJobs ==
  ASSUME ControlInv, OomInv, NEW m \in Managers, SubmitService(m)
  PROVE  JobsOK'
  <1>. DEFINE id == mgr[m].cur
  <1>1. id \in 1 .. issued /\ jobs[id] = "none" /\ issued \in Nat /\ issued' = issued
    BY DEF OomInv, HandFits, SubmitService, Delete, PutRecord, regVars, ControlInv,
           RegistryTypeOK
  <1>2. jobs \in [ServiceIds -> JobStates] /\ cancelling \subseteq ServiceIds
    BY DEF ControlInv, EnvironmentOK
  <1>3. UNCHANGED <<cancelling, launcher>>
    BY DEF SubmitService, envVars
  <1>4. jobs' = jobs \/ jobs' = [jobs EXCEPT ![id] = "queued"]
    BY DEF SubmitService, envVars
  <1>. HIDE DEF id
  <1>5. id \in ServiceIds /\ ~(id > issued)
    BY <1>1, BoundAssumption DEF ControlInv, RegistryTypeOK, ServiceIds
  <1>. QED  BY <1>1, <1>2, <1>3, <1>4, <1>5 DEF OomInv, JobsOK, LiveJob

\* Slurm lets no job live again, and launchers and time do nothing to one.
LEMMA OthersJobs ==
  ASSUME ControlInv, JobsOK,
         \/ \E id \in ServiceIds : LauncherStep(id) \/ SlurmStep(id)
         \/ TimePasses
         \/ UNCHANGED vars
  PROVE  JobsOK' /\ JobsStay /\ JobKept /\ issued' = issued
  <1>1. CASE TimePasses \/ UNCHANGED vars
    BY <1>1 DEF TimePasses, Tick, vars, JobsOK, JobsStay, JobKept
  <1>2. ASSUME NEW id \in ServiceIds, LauncherStep(id)
        PROVE  JobsOK' /\ JobsStay /\ JobKept /\ issued' = issued
    <2>1. UNCHANGED <<jobs, cancelling>>
      BY <1>2 DEF LauncherStep, RuntimeUp, Heartbeat, RuntimeExits, LauncherFails
    <2>2. \A o \in ServiceIds : launcher'[o] # "off" => launcher[o] # "off"
      BY <1>2 DEF LauncherStep, RuntimeUp, Heartbeat, RuntimeExits, LauncherFails,
                  LauncherGoes, ControlInv, EnvironmentOK
    <2>3. LauncherPublish(id) \/ Renew(id) \/ MarkUnhealthy(id) \/ UNCHANGED regVars
      BY <1>2 DEF LauncherStep, RuntimeUp, Heartbeat, RuntimeExits, LauncherFails
    <2>4. JobKept /\ issued' = issued
      BY <2>3, UpdatesKeepJob, IdleKeepsJob DEF regVars
    <2>. QED  BY <2>1, <2>2, <2>4 DEF JobsOK, JobsStay
  <1>3. ASSUME NEW id \in ServiceIds, SlurmStep(id)
        PROVE  JobsOK' /\ JobsStay /\ JobKept /\ issued' = issued
    <2>1. UNCHANGED <<records, issued>>
      BY <1>3 DEF SlurmStep, JobStarts, JobCancelled, JobExits, JobKilled, JobEnds, regVars
    <2>2. jobs[id] \in LiveJob
      BY <1>3 DEF SlurmStep, JobStarts, JobCancelled, JobExits, JobKilled, JobsOK, LiveJob
    <2>3. \/ /\ jobs' = [jobs EXCEPT ![id] = "running"]
             /\ launcher' = [launcher EXCEPT ![id] = "loading"]
             /\ cancelling' = cancelling
          \/ \E s \in EndedJob :
               /\ jobs' = [jobs EXCEPT ![id] = s]
               /\ launcher' = [launcher EXCEPT ![id] = "off"]
               /\ cancelling' = cancelling \ {id}
      BY <1>3 DEF SlurmStep, JobStarts, JobCancelled, JobExits, JobKilled, JobEnds,
                  LauncherGoes, EndedJob
    <2>4. /\ jobs \in [ServiceIds -> JobStates] /\ launcher \in [ServiceIds -> LauncherStates]
          /\ cancelling \subseteq ServiceIds
      BY DEF ControlInv, EnvironmentOK
    <2>5. JobsOK'
      BY <2>1, <2>2, <2>3, <2>4 DEF JobsOK, LiveJob, EndedJob
    <2>. QED  BY <2>1, <2>2, <2>3, <2>4, <2>5, IdleKeepsJob DEF JobsStay
  <1>. QED  BY <1>1, <1>2, <1>3

\* What excuses a category goes on to excuse it.
LEMMA WhyKept ==
  ASSUME RecordsAge, JobKept, JobsStay, NEW id \in 1 .. issued, id \in ServiceIds,
         \A d \in DemandIds : Bound(demands'[d], id) => Bound(demands[d], id)
  PROVE  /\ EndedOtherwise(id) => EndedOtherwise(id)'
         /\ Excused(id) => Excused(id)'
  <1>1. EndedOtherwise(id) => EndedOtherwise(id)'
    BY DEF EndedOtherwise, JobsStay, EndedJob, LiveJob
  <1>2. ASSUME Excused(id) PROVE Excused(id)'
    <2>1. CASE ~Known(id)
      BY <2>1 DEF RecordsAge, Excused
    <2>2. CASE records[id].tier \in WarmTiers
      BY <2>2 DEF RecordsAge, Excused
    <2>3. CASE records[id].state = "unhealthy" /\ ~records[id].job
      BY <2>3 DEF RecordsAge, JobKept, Excused
    <2>4. CASE \A d \in DemandIds : ~Bound(demands[d], id)
      BY <2>4 DEF Excused
    <2>. QED  BY <1>2, <2>1, <2>2, <2>3, <2>4 DEF Excused
  <1>. QED  BY <1>1, <1>2

\* A service goes on to serve its tier.
LEMMA ServesKept ==
  ASSUME RecordsAge, issued \in Nat, NEW id, NEW t, Serves(id, t)
  PROVE  Serves(id, t)'
  BY DEF RecordsAge, Serves

\* Bindings stay right in a step that makes none.
LEMMA BoundKept ==
  ASSUME RecordsAge, issued \in Nat, BoundFits,
         \A d \in DemandIds :
           \/ demands'[d] = demands[d]
           \/ demands'[d].state \in {"failed", "absent"}
           \/ demands'[d].state = "pending" /\ demands'[d].service = NoService
  PROVE  BoundFits'
  <1>1. \A id, t : Serves(id, t) => Serves(id, t)'
    BY ServesKept
  <1>2. ASSUME NEW d \in DemandIds, demands'[d].state \in {"launching", "ready"}
        PROVE  /\ demands'[d].service \in 1 .. issued'
               /\ records'[demands'[d].service].state # "absent"
                  => records'[demands'[d].service].tier = demands'[d].tier
    <2>1. demands'[d] = demands[d] /\ Serves(demands[d].service, demands[d].tier)
      BY <1>2 DEF BoundFits
    <2>2. \A id, t : id = demands[d].service /\ t = demands[d].tier => Serves(id, t)'
      BY <1>1, <2>1
    <2>. QED  BY <2>1, <2>2 DEF Serves, Known
  <1>3. \A d \in DemandIds : demands'[d].state = "pending" => demands'[d].service = NoService
    BY DEF BoundFits
  <1>. QED  BY <1>2, <1>3 DEF BoundFits, Serves, Known

\* Launchers, Slurm and time break nothing that a pass counts on.
LEMMA OthersOom ==
  ASSUME ControlInv, LeaseInv, OomInv, [RegistryNext]_regVars,
         \/ \E id \in ServiceIds : LauncherStep(id) \/ SlurmStep(id)
         \/ TimePasses
         \/ UNCHANGED vars
  PROVE  OomInv'
  <1>1. /\ JobsOK' /\ JobsStay /\ JobKept /\ issued' = issued
        /\ mgr' = mgr /\ demands' = demands /\ issued \in Nat
        /\ 1 .. issued \subseteq ServiceIds
    BY OthersJobs, OthersIdle, BoundAssumption DEF OomInv, ControlInv, RegistryTypeOK, ServiceIds
  <1>2. RecordsAge
    BY StepRecordsAge
  <1>3. AbsentIsNoRecord' /\ BoundFits'
    BY <1>1, <1>2, BoundKept DEF OomInv, RecordsAge
  <1>4. ASSUME NEW m \in Managers
        PROVE  HandFits(mgr[m])' /\ PassFits(mgr[m])'
    <2>1. HandFits(mgr[m]) /\ PassFits(mgr[m])
      BY DEF OomInv
    <2>2. \A id, t : Serves(id, t) => Serves(id, t)'
      BY <1>1, <1>2, ServesKept
    <2>3. HandFits(mgr[m])'
      <3>1. mgr[m].pc = "submit" /\ mgr[m].cur \in 1 .. issued /\ jobs[mgr[m].cur] = "none"
            => jobs'[mgr[m].cur] = "none"
        BY <1>1 DEF JobsStay, LiveJob
      <3>. QED  BY <1>1, <2>1, <2>2, <3>1 DEF HandFits, Serves, Known
    <2>4. WhyFits(mgr[m])'
      <3>1. \A id \in 1 .. issued :
              /\ EndedOtherwise(id) => EndedOtherwise(id)'
              /\ Excused(id) => Excused(id)'
        BY <1>1, <1>2, WhyKept
      <3>2. mgr[m].pc \in {"retire", "fail"} =>
              /\ mgr[m].category # "none" /\ mgr[m].cur \in 1 .. issued
              /\ mgr[m].category = "service_failure"
                 => \A id : id = mgr[m].cur =>
                      EndedOtherwise(id) \/ (mgr[m].pc = "fail" /\ Excused(id))
        BY <2>1 DEF PassFits, WhyFits
      <3>3. mgr[m].pc \in {"retire", "fail"} /\ mgr[m].category = "service_failure"
            => \A id : id = mgr[m].cur =>
                 EndedOtherwise(id)' \/ (mgr[m].pc = "fail" /\ Excused(id)')
        BY <3>1, <3>2
      <3>. QED  BY <1>1, <3>2, <3>3 DEF WhyFits, EndedOtherwise, Excused, Known
    <2>5. CASE mgr[m].pc \in Scanning \cup {"listed"}
      <3>1. \A id \in ServiceIds : mgr'[m].snap[id] \in {mgr[m].snap[id], NoRecord}
        BY <1>1
      <3>2. mgr[m].pc \in Scanning \/ mgr'[m].pc \notin Scanning
        BY <1>1, <2>5 DEF Scanning, Looping
      <3>3. ListedFits(mgr[m])' /\ ExcessWarm(mgr[m])' /\ OneAtNow(mgr[m])'
        BY <1>1, <2>1, <2>5, <3>1, <3>2, ListKept
      <3>4. LoopFits(mgr[m])'
        BY <1>1, <2>1 DEF PassFits, LoopFits
      <3>. QED  BY <2>3, <2>4, <3>3, <3>4 DEF PassFits
    <2>6. CASE mgr[m].pc \notin Scanning \cup {"listed"}
      BY <1>1, <2>3, <2>6, PassOver
    <2>. QED  BY <2>3, <2>5, <2>6
  <1>. QED  BY <1>1, <1>3, <1>4 DEF OomInv

\* A manager's locals are as the pass, and the demand part of it, count on.
LocalsFit(r) == HandFits(r) /\ PassFits(r)

\* A pass that gives up counts on nothing.
LEMMA AbortLocals ==
  ASSUME ControlInv, NEW m \in Managers, Abort(m)
  PROVE  LocalsFit(mgr[m])'
  <1>1. mgr'[m].pc = "idle"
    BY AbortFields
  <1>. QED
    BY <1>1, PassOver, HandEmpty
    DEF LocalsFit, Scanning, Looping, Demanding, Answering

\* On with the record in hand.
LEMMA HandLocals ==
  ASSUME ControlInv, LeaseInv, OomInv, [RegistryNext]_regVars, issued' = issued, JobKept,
         NEW m \in Managers, mgr[m].pc \in Scanning, NEW r \in Manager, NEW p \in Looping,
         Go(m, r, p), r.snap = mgr[m].snap, r.loop = mgr[m].loop, r.now = mgr[m].now,
         p \in {"retire", "fail"} =>
           /\ r.category # "none" /\ r.cur \in 1 .. issued
           /\ r.category = "service_failure"
              => EndedOtherwise(r.cur)' \/ (p = "fail" /\ Excused(r.cur)')
  PROVE  LocalsFit(mgr[m])'
  <1>1. /\ mgr'[m].pc = p /\ mgr'[m].loop = mgr[m].loop /\ mgr'[m].now = mgr[m].now
        /\ mgr'[m].snap = mgr[m].snap /\ mgr'[m].cur = r.cur
        /\ mgr'[m].category = r.category
    BY GoPass
  <1>2. PassFits(mgr[m])
    BY DEF OomInv
  <1>3. ListedFits(mgr[m])' /\ ExcessWarm(mgr[m])' /\ OneAtNow(mgr[m])'
    BY <1>1, <1>2, ListKept
  <1>4. LoopFits(mgr[m])'
    BY <1>1 DEF LoopFits, Looping
  <1>5. WhyFits(mgr[m])'
    BY <1>1 DEF WhyFits, EndedOtherwise, Excused, Known
  <1>6. HandFits(mgr[m])'
    BY <1>1, HandEmpty DEF Looping, Demanding, Answering
  <1>. QED  BY <1>3, <1>4, <1>5, <1>6 DEF LocalsFit, PassFits

\* Back to the loop over records.
LEMMA NextLocals ==
  ASSUME ControlInv, LeaseInv, OomInv, [RegistryNext]_regVars, issued' = issued, JobKept,
         NEW m \in Managers, mgr[m].pc \in Scanning, NEW r \in Manager, r.cur \in ServiceIds,
         NextRecord(m, r), r.snap = mgr[m].snap, r.loop = mgr[m].loop, r.now = mgr[m].now
  PROVE  LocalsFit(mgr[m])'
  <1>1. /\ mgr'[m].pc = r.loop /\ mgr'[m].loop = mgr[m].loop /\ mgr'[m].now = mgr[m].now
        /\ mgr'[m].snap = [r.snap EXCEPT ![r.cur] = NoRecord]
        /\ r.snap \in [ServiceIds -> Record]
    BY NextRecordPass DEF Manager
  <1>2. r.loop \in {"records", "limits"}
    BY ManagerFacts DEF Fits, Scanning
  <1>3. PassFits(mgr[m])
    BY DEF OomInv
  <1>4. \A id \in ServiceIds : mgr'[m].snap[id] \in {mgr[m].snap[id], NoRecord}
    BY <1>1
  <1>5. ListedFits(mgr[m])' /\ ExcessWarm(mgr[m])' /\ OneAtNow(mgr[m])'
    BY <1>1, <1>3, <1>4, ListKept
  <1>6. LoopFits(mgr[m])' /\ WhyFits(mgr[m])'
    BY <1>1, <1>2 DEF LoopFits, WhyFits
  <1>7. HandFits(mgr[m])'
    BY <1>1, <1>2, HandEmpty DEF Demanding, Answering
  <1>. QED  BY <1>5, <1>6, <1>7 DEF LocalsFit, PassFits

\* Slurm's word on a job that ended, in a category.
LEMMA JobCategories ==
  ASSUME NEW s \in EndedJob
  PROVE  /\ JobCategory(s) # "none"
         /\ s = "oom" => JobCategory(s) = "oom"
         /\ JobCategory(s) = "service_failure" => s # "oom"
  BY DEF JobCategory, EndedJob

\* A record that fails an inspection fails for something, and for want of
\* service only if its job ended that way.
LEMMA InspectReasons ==
  ASSUME ControlInv, NEW m \in Managers, Inspect(m)
  PROVE  \E id \in ServiceIds :
           /\ mgr[m].snap[id].state \in {"starting", "ready"}
           /\ HealthUpdate(id, TRUE) \/ UNCHANGED regVars
           /\ \/ Abort(m)
              \/ \E c \in Categories, d \in BOOLEAN :
                   /\ c # "none"
                   /\ c = "service_failure" => EndedOtherwise(id)
                   /\ Go(m, [mgr[m] EXCEPT !.cur = id, !.category = c, !.done = d], "retire")
              \/ Go(m, [mgr[m] EXCEPT !.cur = id], "healthy")
              \/ NextRecord(m, [mgr[m] EXCEPT !.cur = id])
  <1>. DEFINE r == mgr[m]
  <1>1. PICK id \in ServiceIds : LET listed == r.snap[id] IN
          /\ listed.state \in {"starting", "ready"}
          /\ \E status \in IF listed.job THEN Observed(id) ELSE {"none"},
                healthy \in BOOLEAN :
               \/ /\ listed.job /\ ~Known(id)
                  /\ Abort(m)
                  /\ UNCHANGED regVars
               \/ /\ ~listed.job \/ Known(id)
                  /\ IF status = "error" THEN HealthUpdate(id, TRUE) ELSE UNCHANGED regVars
                  /\ LET why == Verdict(listed, healthy, r.now)
                         r1 == [r EXCEPT !.cur = id]
                     IN IF status \in EndedJob
                        THEN Go(m, [r1 EXCEPT !.category = JobCategory(status),
                                              !.done = TRUE], "retire")
                        ELSE IF why # "none"
                        THEN Go(m, [r1 EXCEPT !.category = why,
                                              !.done = ~listed.job], "retire")
                        ELSE IF listed.state = "ready" THEN Go(m, r1, "healthy")
                        ELSE NextRecord(m, r1)
    BY ZenonT(120) DEF Inspect
  <1>2. \A s \in EndedJob : JobCategory(s) \in Categories /\ JobCategory(s) # "none"
    BY JobCategoryType, JobCategories
  <1>3. \A h \in BOOLEAN :
          /\ Verdict(r.snap[id], h, r.now) \in Categories
          /\ Verdict(r.snap[id], h, r.now) # "service_failure"
    BY VerdictType DEF Verdict
  <1>4. (~r.snap[id].job) \in BOOLEAN
    OBVIOUS
  <1>5. \A status \in IF r.snap[id].job THEN Observed(id) ELSE {"none"} :
          status \in EndedJob /\ JobCategory(status) = "service_failure" => EndedOtherwise(id)
    <2>1. \A status \in IF r.snap[id].job THEN Observed(id) ELSE {"none"} :
            status \in EndedJob => status = jobs[id]
      BY DEF Observed, EndedJob
    <2>. QED  BY <2>1, JobCategories DEF EndedOtherwise
  <1>. QED  BY <1>1, <1>2, <1>3, <1>4, <1>5

\* Inspecting a record keeps what the pass counts on.
LEMMA InspectLocals ==
  ASSUME ControlInv, LeaseInv, OomInv, [RegistryNext]_regVars, NEW m \in Managers,
         Inspect(m)
  PROVE  LocalsFit(mgr[m])'
  <1>. DEFINE r == mgr[m]
  <1>1. PICK id \in ServiceIds :
           /\ mgr[m].snap[id].state \in {"starting", "ready"}
           /\ HealthUpdate(id, TRUE) \/ UNCHANGED regVars
           /\ \/ Abort(m)
              \/ \E c \in Categories, d \in BOOLEAN :
                   /\ c # "none"
                   /\ c = "service_failure" => EndedOtherwise(id)
                   /\ Go(m, [mgr[m] EXCEPT !.cur = id, !.category = c, !.done = d], "retire")
              \/ Go(m, [mgr[m] EXCEPT !.cur = id], "healthy")
              \/ NextRecord(m, [mgr[m] EXCEPT !.cur = id])
    BY InspectReasons
  <1>2. /\ r \in Manager /\ r.pc \in Scanning /\ jobs' = jobs
        /\ JobKept /\ issued' = issued
    BY <1>1, ManagerFacts, UpdatesKeepJob, IdleKeepsJob DEF Inspect, Scanning, regVars, envVars
  <1>3. id \in 1 .. issued
    BY <1>1, <1>2, NoRecordIsAbsent DEF OomInv, PassFits, ListedFits, Serves
  <1>4. ASSUME NEW c \in Categories, NEW d \in BOOLEAN, c # "none",
               c = "service_failure" => EndedOtherwise(id),
               Go(m, [r EXCEPT !.cur = id, !.category = c, !.done = d], "retire")
        PROVE  LocalsFit(mgr[m])'
    <2>. DEFINE new == [r EXCEPT !.cur = id, !.category = c, !.done = d]
    <2>1. /\ new \in Manager /\ new.cur = id /\ new.category = c
          /\ new.snap = r.snap /\ new.loop = r.loop /\ new.now = r.now
      BY <1>2 DEF Manager
    <2>2. Go(m, new, "retire") /\ "retire" \in Looping
      BY <1>4 DEF Looping
    <2>. HIDE DEF new
    <2>3. c = "service_failure" => EndedOtherwise(id)'
      BY <1>2, <1>4 DEF EndedOtherwise
    <2>. QED  BY <1>2, <1>3, <1>4, <2>1, <2>2, <2>3, HandLocals
  <1>5. ASSUME Go(m, [r EXCEPT !.cur = id], "healthy") \/ NextRecord(m, [r EXCEPT !.cur = id])
        PROVE  LocalsFit(mgr[m])'
    <2>. DEFINE new == [r EXCEPT !.cur = id]
    <2>1. /\ new \in Manager /\ new.cur = id
          /\ new.snap = r.snap /\ new.loop = r.loop /\ new.now = r.now
      BY <1>2 DEF Manager
    <2>2. Go(m, new, "healthy") \/ NextRecord(m, new)
      BY <1>5
    <2>3. "healthy" \in Looping
      BY DEF Looping
    <2>. HIDE DEF new
    <2>. QED  BY <1>2, <2>1, <2>2, <2>3, HandLocals, NextLocals
  <1>. QED  BY <1>1, <1>4, <1>5, AbortLocals

\* Merged with the launcher's word, Slurm's still says why a job ended.
LEMMA MergedReason ==
  ASSUME NEW s \in EndedJob, NEW c
  PROVE  LET merged == MergeTerminalFailure(OrServiceFailure(c), JobCategory(s)) IN
           /\ merged # "none"
           /\ merged = "service_failure" => s # "oom"
  BY JobCategories DEF MergeTerminalFailure, OrServiceFailure

\* A retired record fails its demands for want of service only if its job ended
\* that way, or if nothing better is to be learned or no demand waits for it.
LEMMA UnhealthyReasons ==
  ASSUME ControlInv, OomInv, NEW m \in Managers, InspectUnhealthy(m)
  PROVE  \E id \in ServiceIds :
           /\ mgr[m].snap[id].state = "unhealthy"
           /\ (\E c : TerminalUpdate(id, c)) \/ UNCHANGED regVars
           /\ \/ Abort(m)
              \/ \E c \in Categories, d \in BOOLEAN :
                   /\ c # "none"
                   /\ c = "service_failure"
                      => EndedOtherwise(id) \/ (UNCHANGED regVars /\ Excused(id))
                   /\ Go(m, [mgr[m] EXCEPT !.cur = id, !.sick = TRUE,
                                           !.category = c, !.done = d], "fail")
              \/ NextRecord(m, [mgr[m] EXCEPT !.cur = id, !.sick = TRUE])
  <1>. DEFINE r == mgr[m]
  <1>. r.snap \in [ServiceIds -> Record] /\ r.pc = "records"
    BY ManagerFacts DEF InspectUnhealthy
  <1>1. PICK id \in ServiceIds : LET listed == r.snap[id] IN
          /\ listed.state = "unhealthy"
          /\ \E status \in IF listed.job THEN Observed(id) ELSE {"none"} :
             LET r1 == [r EXCEPT !.cur = id, !.sick = TRUE]
                 own == OrServiceFailure(listed.category)
                 merged == MergeTerminalFailure(own, JobCategory(status))
                 waits == /\ AwaitsTerminalFailure(listed)
                          /\ \E d \in DemandIds : Bound(demands[d], id)
             IN
             CASE status \in EndedJob ->
                    \/ /\ TerminalUpdate(id, merged)
                       /\ Go(m, [r1 EXCEPT !.category = merged, !.done = TRUE], "fail")
                    \/ ~Known(id) /\ Abort(m) /\ UNCHANGED regVars
               [] status \in LiveJob \cup {"unclear"} /\ ~Known(id) -> Abort(m) /\ UNCHANGED regVars
               [] OTHER ->
                    /\ IF waits THEN NextRecord(m, r1)
                       ELSE Go(m, [r1 EXCEPT !.category = own,
                                   !.done = listed.cancelRequested \/ ~listed.job], "fail")
                    /\ UNCHANGED regVars
    BY ZenonT(120) DEF InspectUnhealthy
  <1>. DEFINE listed == r.snap[id]
              own == OrServiceFailure(listed.category)
  <1>2. listed \in Record /\ listed.category \in Categories
    BY DEF Record
  <1>3. /\ own \in Categories /\ own # "none"
        /\ \A s \in EndedJob : MergeTerminalFailure(own, JobCategory(s)) \in Categories
    BY <1>2, MergedCategories DEF OrServiceFailure
  <1>4. (listed.cancelRequested \/ ~listed.job) \in BOOLEAN
    OBVIOUS
  <1>5. \A status \in IF listed.job THEN Observed(id) ELSE {"none"} :
          status \in EndedJob =>
            /\ MergeTerminalFailure(own, JobCategory(status)) # "none"
            /\ MergeTerminalFailure(own, JobCategory(status)) = "service_failure"
               => EndedOtherwise(id)
    <2>1. \A status \in IF r.snap[id].job THEN Observed(id) ELSE {"none"} :
            status \in EndedJob => status = jobs[id]
      BY DEF Observed, EndedJob
    <2>. QED  BY <2>1, MergedReason DEF EndedOtherwise
  <1>6. own = "service_failure"
        /\ ~(AwaitsTerminalFailure(listed) /\ \E d \in DemandIds : Bound(demands[d], id))
        => Excused(id)
    <2>1. /\ Known(id) => records[id].tier = listed.tier
          /\ Known(id) => records[id].state = "unhealthy" /\ records[id].job = listed.job
      BY <1>1, NoRecordIsAbsent DEF OomInv, PassFits, ListedFits, Serves, Scanning
    <2>2. own = "service_failure" => listed.category \in {"none", "service_failure"}
      BY DEF OrServiceFailure
    <2>. QED  BY <2>1, <2>2 DEF AwaitsTerminalFailure, Excused
  <1>. HIDE DEF own
  <1>7. CASE \E status \in IF listed.job THEN Observed(id) ELSE {"none"} :
               /\ status \in EndedJob
               /\ TerminalUpdate(id, MergeTerminalFailure(own, JobCategory(status)))
               /\ Go(m, [r EXCEPT !.cur = id, !.sick = TRUE,
                           !.category = MergeTerminalFailure(own, JobCategory(status)),
                           !.done = TRUE], "fail")
    BY <1>1, <1>3, <1>5, <1>7
  <1>8. CASE /\ UNCHANGED regVars
             /\ ~(AwaitsTerminalFailure(listed) /\ \E d \in DemandIds : Bound(demands[d], id))
             /\ Go(m, [r EXCEPT !.cur = id, !.sick = TRUE, !.category = own,
                         !.done = listed.cancelRequested \/ ~listed.job], "fail")
    BY <1>1, <1>3, <1>4, <1>6, <1>8
  <1>9. CASE UNCHANGED regVars /\ Abort(m)
    BY <1>1, <1>9
  <1>10. CASE UNCHANGED regVars /\ NextRecord(m, [r EXCEPT !.cur = id, !.sick = TRUE])
    BY <1>1, <1>10
  <1>. QED  BY <1>1, <1>7, <1>8, <1>9, <1>10 DEF own

\* Looking at a retired record keeps what the pass counts on.
LEMMA UnhealthyLocals ==
  ASSUME ControlInv, LeaseInv, OomInv, [RegistryNext]_regVars, NEW m \in Managers,
         InspectUnhealthy(m)
  PROVE  LocalsFit(mgr[m])'
  <1>. DEFINE r == mgr[m]
  <1>1. PICK id \in ServiceIds :
           /\ mgr[m].snap[id].state = "unhealthy"
           /\ (\E c : TerminalUpdate(id, c)) \/ UNCHANGED regVars
           /\ \/ Abort(m)
              \/ \E c \in Categories, d \in BOOLEAN :
                   /\ c # "none"
                   /\ c = "service_failure"
                      => EndedOtherwise(id) \/ (UNCHANGED regVars /\ Excused(id))
                   /\ Go(m, [mgr[m] EXCEPT !.cur = id, !.sick = TRUE,
                                           !.category = c, !.done = d], "fail")
              \/ NextRecord(m, [mgr[m] EXCEPT !.cur = id, !.sick = TRUE])
    BY UnhealthyReasons
  <1>2. /\ r \in Manager /\ r.pc \in Scanning /\ jobs' = jobs
        /\ JobKept /\ issued' = issued
    BY <1>1, ManagerFacts, UpdatesKeepJob, IdleKeepsJob
    DEF InspectUnhealthy, Scanning, regVars, envVars
  <1>3. id \in 1 .. issued
    BY <1>1, <1>2, NoRecordIsAbsent DEF OomInv, PassFits, ListedFits, Serves
  <1>4. ASSUME NEW c \in Categories, NEW d \in BOOLEAN, c # "none",
               c = "service_failure"
               => EndedOtherwise(id) \/ (UNCHANGED regVars /\ Excused(id)),
               Go(m, [r EXCEPT !.cur = id, !.sick = TRUE, !.category = c, !.done = d], "fail")
        PROVE  LocalsFit(mgr[m])'
    <2>. DEFINE new == [r EXCEPT !.cur = id, !.sick = TRUE, !.category = c, !.done = d]
    <2>1. /\ new \in Manager /\ new.cur = id /\ new.category = c
          /\ new.snap = r.snap /\ new.loop = r.loop /\ new.now = r.now
      BY <1>2 DEF Manager
    <2>2. Go(m, new, "fail") /\ "fail" \in Looping
      BY <1>4 DEF Looping
    <2>. HIDE DEF new
    <2>3. c = "service_failure" => EndedOtherwise(id)' \/ Excused(id)'
      BY <1>2, <1>4 DEF EndedOtherwise, Excused, regVars, Known
    <2>. QED  BY <1>2, <1>3, <1>4, <2>1, <2>2, <2>3, HandLocals
  <1>5. ASSUME NextRecord(m, [r EXCEPT !.cur = id, !.sick = TRUE])
        PROVE  LocalsFit(mgr[m])'
    <2>. DEFINE new == [r EXCEPT !.cur = id, !.sick = TRUE]
    <2>1. /\ new \in Manager /\ new.cur = id
          /\ new.snap = r.snap /\ new.loop = r.loop /\ new.now = r.now
      BY <1>2 DEF Manager
    <2>2. NextRecord(m, new)
      BY <1>5
    <2>. HIDE DEF new
    <2>. QED  BY <1>2, <2>1, <2>2, NextLocals
  <1>. QED  BY <1>1, <1>4, <1>5, AbortLocals

\* The end of a pass over records, as far as records are concerned: clearing a
\* health error, retiring, failing demands, cancelling and deleting.
LEMMA RecordLocals ==
  ASSUME ControlInv, LeaseInv, OomInv, [RegistryNext]_regVars, NEW m \in Managers,
         \/ ClearHealthError(m) \/ Retire(m) \/ FailBoundDemands(m)
         \/ CancelJob(m) \/ RecordCancellation(m) \/ DeleteRecord(m)
  PROVE  LocalsFit(mgr[m])'
  <1>. DEFINE r == mgr[m]
  <1>1. /\ r \in Manager /\ r.pc \in Scanning /\ r.cur \in ServiceIds
        /\ r.pc \in Looping /\ r.done \in BOOLEAN /\ r.sick \in BOOLEAN
    BY ManagerFacts
    DEF ClearHealthError, Retire, FailBoundDemands, CancelJob, RecordCancellation,
        DeleteRecord, Fits, Holding, Looping, Scanning
  <1>2. JobKept /\ issued' = issued
    <2>1. CASE UNCHANGED <<records, issued>>
      BY <2>1, IdleKeepsJob
    <2>2. \/ UNCHANGED <<records, issued>>
          \/ \E failed \in BOOLEAN : HealthUpdate(r.cur, failed)
          \/ RetireUpdate(r.cur, r.category, r.now, r.done)
          \/ CancelUpdate(r.cur) \/ Delete(r.cur)
      BY DEF ClearHealthError, Retire, FailBoundDemands, CancelJob, RecordCancellation,
             DeleteRecord, FailDemandsForService, PutDemands, regVars
    <2>. QED  BY <1>1, <2>1, <2>2, UpdatesKeepJob
  <1>3. CASE Retire(m)
    <2>1. Abort(m) \/ Go(m, r, "fail")
      BY <1>3 DEF Retire
    <2>2. /\ r.pc = "retire" /\ jobs' = jobs
      BY <1>3 DEF Retire, envVars
    <2>3. /\ r.category # "none" /\ r.cur \in 1 .. issued
          /\ r.category = "service_failure" => EndedOtherwise(r.cur)
      BY <2>2 DEF OomInv, PassFits, WhyFits
    <2>4. r.category = "service_failure" => \A id : id = r.cur => EndedOtherwise(id)'
      BY <2>2, <2>3 DEF EndedOtherwise
    <2>5. "fail" \in Looping
      BY DEF Looping
    <2>. QED  BY <1>1, <1>2, <2>1, <2>3, <2>4, <2>5, HandLocals, AbortLocals
  <1>4. CASE ~Retire(m)
    <2>1. \/ NextRecord(m, r) \/ Abort(m)
          \/ \E p \in {"cancel", "delete", "cancelled"} : Go(m, r, p)
      BY <1>1, <1>4
      DEF ClearHealthError, FailBoundDemands, CancelJob, RecordCancellation, DeleteRecord
    <2>2. {"cancel", "delete", "cancelled"} \subseteq Looping
      BY DEF Looping
    <2>. QED  BY <1>1, <1>2, <2>1, <2>2, HandLocals, NextLocals, AbortLocals
  <1>. QED  BY <1>3, <1>4

\* A scale-from-zero tier has one live record at most.
LEMMA OneAliveNow ==
  ASSUME ControlInv, ScaleZeroReplicaLimit
  PROVE  OneAlive(clock)
  <1>. SUFFICES ASSUME NEW t \in Tiers \ WarmTiers, NEW x \in RecordsForTier(t, clock),
                       NEW y \in RecordsForTier(t, clock), x # y
                PROVE  FALSE
    BY DEF OneAlive
  <1>1. IsFiniteSet(RecordsForTier(t, clock)) /\ Cardinality(RecordsForTier(t, clock)) <= 1
    BY RecordsForTierFinite, ConfigAssumption DEF ScaleZeroReplicaLimit
  <1>2. IsFiniteSet({x}) /\ Cardinality({x}) = 1
    BY FS_Singleton
  <1>3. Cardinality({x} \cup {y}) = 2
    BY <1>2, FS_AddElement
  <1>4. Cardinality({x} \cup {y}) <= Cardinality(RecordsForTier(t, clock))
    BY <1>1, FS_Subset
  <1>5. Cardinality(RecordsForTier(t, clock)) \in Nat
    BY <1>1, FS_CardinalityType
  <1>. QED  BY <1>1, <1>3, <1>4, <1>5

\* A record that is there was reserved and serves its tier.
LEMMA RecordServes ==
  ASSUME LeaseInv, NEW id \in ServiceIds, Known(id)
  PROVE  Serves(id, records[id].tier)
  BY DEF LeaseInv, RegistryTypeOK, FreshIds, ServiceIds, Serves

\* A list of records, as they are.
LEMMA ListLocals ==
  ASSUME ControlInv, LeaseInv, OomInv, ScaleZeroReplicaLimit, [RegistryNext]_regVars,
         NEW m \in Managers, ListRecords(m) \/ ReadClock(m)
  PROVE  LocalsFit(mgr[m])'
  <1>. DEFINE r == mgr[m]
  <1>1. /\ r \in Manager /\ UNCHANGED <<records, issued, clock>>
        /\ r.snap \in [ServiceIds -> Record] /\ Fits(r, r.pc, clock)
    BY ManagerFacts DEF ListRecords, ReadClock, regVars
  <1>2. CASE ListRecords(m)
    <2>. DEFINE new == [r EXCEPT !.snap = records, !.loop = "records"]
    <2>1. Go(m, new, "listed")
      BY <1>2 DEF ListRecords
    <2>2. /\ new \in Manager /\ new.snap = records
      BY <1>1 DEF ControlInv, RegistryTypeOK, Manager, Steps
    <2>. HIDE DEF new
    <2>3. mgr'[m].pc = "listed" /\ mgr'[m].snap = records
      BY <2>1, <2>2, GoFields
    <2>4. ListedFits(mgr[m])'
      <3>1. \A id \in ServiceIds : records[id] # NoRecord => Serves(id, records[id].tier)
        BY RecordServes DEF OomInv, AbsentIsNoRecord
      <3>. QED  BY <1>1, <2>3, <3>1 DEF ListedFits, Serves, Known
    <2>5. LoopFits(mgr[m])' /\ ExcessWarm(mgr[m])' /\ OneAtNow(mgr[m])' /\ WhyFits(mgr[m])'
      BY <2>3 DEF LoopFits, ExcessWarm, OneAtNow, WhyFits, Scanning, Looping
    <2>6. HandFits(mgr[m])'
      BY <2>3, HandEmpty DEF Demanding, Answering
    <2>. QED  BY <2>4, <2>5, <2>6 DEF LocalsFit, PassFits
  <1>3. CASE ReadClock(m)
    <2>. DEFINE new == [r EXCEPT !.now = clock]
    <2>1. Go(m, new, "records") /\ r.pc = "listed"
      BY <1>3 DEF ReadClock
    <2>2. /\ new \in Manager /\ new.snap = r.snap /\ new.loop = r.loop /\ new.now = clock
      BY ManagerFacts DEF Manager
    <2>3. r.loop = "records"
      BY <1>1, <2>1 DEF Fits
    <2>. HIDE DEF new
    <2>4. /\ mgr'[m].pc = "records" /\ mgr'[m].snap = r.snap
          /\ mgr'[m].loop = "records" /\ mgr'[m].now = clock
      BY <2>1, <2>2, <2>3, GoPass
    <2>5. ListedFits(mgr[m])'
      <3>1. ListedFits(mgr[m])
        BY DEF OomInv, PassFits
      <3>. QED  BY <1>1, <2>1, <2>4, <3>1 DEF ListedFits, Serves, Known
    <2>6. OneAtNow(mgr[m])'
      <3>1. OneAlive(clock)
        BY OneAliveNow
      <3>. QED  BY <1>1, <2>4, <3>1 DEF OneAtNow, OneAlive, RecordsForTier
    <2>7. LoopFits(mgr[m])' /\ ExcessWarm(mgr[m])' /\ WhyFits(mgr[m])'
      BY <2>4 DEF LoopFits, ExcessWarm, WhyFits
    <2>8. HandFits(mgr[m])'
      BY <2>4, HandEmpty DEF Demanding, Answering
    <2>. QED  BY <2>5, <2>6, <2>7, <2>8 DEF LocalsFit, PassFits
  <1>. QED  BY <1>2, <1>3

\* Only a warm tier can have records in excess.
LEMMA ExcessIsWarm ==
  ASSUME ControlInv, NEW now \in Nat, OneAlive(now), NEW id \in Excess(now)
  PROVE  records[id].tier \in WarmTiers /\ records[id].state \in {"starting", "ready"}
  <1>1. PICK t \in Tiers :
          /\ id \in RecordsForTier(t, now)
          /\ Cardinality({o \in RecordsForTier(t, now) : o < id}) >= MaxReplicas[t]
    BY DEF Excess
  <1>2. records[id].tier = t /\ records[id].state \in {"starting", "ready"}
    BY <1>1 DEF RecordsForTier, Alive
  <1>3. ASSUME t \notin WarmTiers PROVE FALSE
    <2>1. \A o \in RecordsForTier(t, now) : o = id
      BY <1>1, <1>3 DEF OneAlive
    <2>2. id \in Nat
      BY <1>1 DEF RecordsForTier, ServiceIds
    <2>3. {o \in RecordsForTier(t, now) : o < id} = {}
      BY <2>1, <2>2
    <2>4. MaxReplicas[t] = 1
      BY <1>3, ConfigAssumption
    <2>. QED  BY <1>1, <2>3, <2>4, FS_EmptySet
  <1>. QED  BY <1>2, <1>3

\* Listing and retiring what is in excess.
LEMMA ExcessLocals ==
  ASSUME ControlInv, LeaseInv, OomInv, [RegistryNext]_regVars, NEW m \in Managers,
         ListExcess(m) \/ RetireExcess(m)
  PROVE  LocalsFit(mgr[m])'
  <1>. DEFINE r == mgr[m]
  <1>1. /\ r \in Manager /\ r.pc \in {"records", "limits"} /\ r.pc \in Scanning
        /\ r.now \in Nat /\ PassFits(r)
    BY ManagerFacts DEF ListExcess, RetireExcess, Scanning, OomInv
  <1>2. CASE ListExcess(m)
    <2>. DEFINE snap == [id \in ServiceIds |->
                           IF id \in Excess(r.now) THEN records[id] ELSE NoRecord]
                new == [r EXCEPT !.snap = snap, !.loop = "limits"]
    <2>1. snap \in [ServiceIds -> Record]
      BY NoRecordType DEF ControlInv, RegistryTypeOK
    <2>2. Go(m, new, "limits") /\ UNCHANGED <<records, issued>> /\ r.pc = "records"
      BY <1>2 DEF ListExcess, regVars
    <2>3. OneAlive(r.now)
      BY <1>1, <2>2 DEF PassFits, LoopFits, OneAtNow
    <2>4. \A id \in ServiceIds : snap[id] # NoRecord =>
            /\ snap[id] = records[id]
            /\ records[id].tier \in WarmTiers /\ records[id].state \in {"starting", "ready"}
      <3>1. \A now \in Nat : OneAlive(now) => \A id \in Excess(now) :
              records[id].tier \in WarmTiers /\ records[id].state \in {"starting", "ready"}
        BY ExcessIsWarm
      <3>. QED  BY <1>1, <2>3, <3>1
    <2>. HIDE DEF snap
    <2>5. new \in Manager /\ new.snap = snap /\ new.loop = "limits"
      BY <1>1, <2>1 DEF Manager, Steps
    <2>. HIDE DEF new
    <2>6. mgr'[m].pc = "limits" /\ mgr'[m].snap = snap /\ mgr'[m].loop = "limits"
      BY <2>2, <2>5, GoPass
    <2>7. ListedFits(mgr[m])'
      <3>1. \A id \in ServiceIds : snap[id] # NoRecord =>
              /\ Serves(id, snap[id].tier) /\ snap[id].state # "unhealthy"
        BY <2>4, RecordServes DEF Known
      <3>. QED  BY <2>2, <2>6, <3>1 DEF ListedFits, Serves, Known
    <2>8. ExcessWarm(mgr[m])'
      BY <2>4, <2>6 DEF ExcessWarm
    <2>9. LoopFits(mgr[m])' /\ OneAtNow(mgr[m])' /\ WhyFits(mgr[m])'
      BY <2>6 DEF LoopFits, OneAtNow, WhyFits
    <2>10. HandFits(mgr[m])'
      BY <2>6, HandEmpty DEF Demanding, Answering
    <2>. QED  BY <2>7, <2>8, <2>9, <2>10 DEF LocalsFit, PassFits
  <1>3. CASE RetireExcess(m)
    <2>1. PICK id \in ServiceIds :
            /\ r.snap[id] # NoRecord
            /\ \/ /\ RetireUpdate(id, "service_failure", r.now, ~r.snap[id].job)
                  /\ Go(m, [r EXCEPT !.cur = id, !.category = "service_failure",
                                     !.done = ~r.snap[id].job], "fail")
               \/ Abort(m)
      BY <1>3 DEF RetireExcess
    <2>2. ASSUME NEW d \in BOOLEAN, RetireUpdate(id, "service_failure", r.now, d),
                 Go(m, [r EXCEPT !.cur = id, !.category = "service_failure", !.done = d], "fail")
          PROVE  LocalsFit(mgr[m])'
      <3>. DEFINE new == [r EXCEPT !.cur = id, !.category = "service_failure", !.done = d]
      <3>1. JobKept /\ issued' = issued /\ RecordsAge
        BY <2>2, UpdatesKeepJob, StepRecordsAge
      <3>2. r.pc = "limits"
        BY <1>3 DEF RetireExcess
      <3>3. /\ id \in 1 .. issued
            /\ Known(id) => records[id].tier \in WarmTiers
        BY <1>1, <2>1, <3>2 DEF PassFits, LoopFits, ListedFits, ExcessWarm, Serves
      <3>4. Excused(id)'
        BY <3>1, <3>3 DEF RecordsAge, Excused
      <3>5. "service_failure" \in Categories /\ "fail" \in Looping
        BY DEF Categories, Looping
      <3>6. /\ new \in Manager /\ new.cur = id /\ new.category = "service_failure"
            /\ new.snap = r.snap /\ new.loop = r.loop /\ new.now = r.now
        BY <1>1, <3>5 DEF Manager
      <3>7. Go(m, new, "fail")
        BY <2>2
      <3>. HIDE DEF new
      <3>. QED  BY <1>1, <3>1, <3>3, <3>4, <3>5, <3>6, <3>7, HandLocals
    <2>3. (~r.snap[id].job) \in BOOLEAN
      OBVIOUS
    <2>. QED  BY <2>1, <2>2, <2>3, AbortLocals
  <1>. QED  BY <1>2, <1>3

\* Outside a pass: imports, the end of a process, pruning.
LEMMA OutsideLocals ==
  ASSUME ControlInv, NEW m \in Managers,
         \/ ImportDemand(m) \/ ImportReport(m) \/ Prune(m) \/ Crash(m) \/ StartShutdown(m)
         \/ ShutdownCancel(m) \/ ShutdownFail(m) \/ ShutdownDelete(m) \/ EndShutdown(m)
  PROVE  LocalsFit(mgr[m])'
  <1>. DEFINE r == mgr[m]
  <1>. r \in Manager /\ Fits(r, r.pc, clock) /\ records \in [ServiceIds -> Record]
    BY ManagerFacts DEF ControlInv, RegistryTypeOK
  <1>1. ASSUME mgr'[m].pc \in {"idle", "down", "downfail", "downdelete"}
        PROVE  LocalsFit(mgr[m])'
    BY <1>1, PassOver, HandEmpty DEF LocalsFit, Scanning, Looping, Demanding, Answering
  <1>2. CASE ImportDemand(m) \/ ImportReport(m)
    BY <1>1, <1>2 DEF ImportDemand, ImportReport
  <1>3. CASE Prune(m) \/ Crash(m) \/ EndShutdown(m)
    BY <1>3, AbortLocals DEF Prune, Crash, EndShutdown
  <1>4. CASE StartShutdown(m)
    <2>. DEFINE new == [r EXCEPT !.snap = records]
    <2>1. Go(m, new, "down") /\ new \in Manager
      BY <1>4 DEF StartShutdown, Manager
    <2>. HIDE DEF new
    <2>. QED  BY <1>1, <2>1, GoFields
  <1>5. CASE ShutdownCancel(m)
    <2>1. PICK id \in ServiceIds : Go(m, [r EXCEPT !.cur = id, !.loop = "down"], "downfail")
      BY <1>5 DEF ShutdownCancel
    <2>. DEFINE new == [r EXCEPT !.cur = id, !.loop = "down"]
    <2>2. Go(m, new, "downfail") /\ new \in Manager
      BY <2>1 DEF Manager, Steps
    <2>. HIDE DEF new
    <2>. QED  BY <1>1, <2>2, GoFields
  <1>6. CASE ShutdownFail(m)
    BY <1>1, <1>6, GoFields DEF ShutdownFail
  <1>7. CASE ShutdownDelete(m)
    <2>1. NextRecord(m, r) /\ r.cur \in ServiceIds /\ r.loop = "down"
      BY <1>7 DEF ShutdownDelete, Fits, Holding
    <2>. QED  BY <1>1, <2>1, NextRecordFields
  <1>. QED  BY <1>2, <1>3, <1>4, <1>5, <1>6, <1>7

\* What a move does to the locals about the listed demands.
LEMMA GoHand ==
  ASSUME ControlInv, NEW m \in Managers, NEW r \in Manager, NEW p, Go(m, r, p)
  PROVE  /\ mgr'[m].pc = p /\ mgr'[m].dem = r.dem /\ mgr'[m].todo = r.todo
         /\ mgr'[m].verdict = r.verdict /\ mgr'[m].cur = r.cur
  BY DEF Go, ControlInv, ManagersOK, Manager

\* On with the demand in hand, if it is as it was listed and the service in hand
\* of its tier.
LEMMA AnswerLocals ==
  ASSUME ControlInv, NEW m \in Managers, HandFits(mgr[m]), mgr[m].pc \in Demanding,
         demands' = demands, NEW r \in Manager, r.todo = mgr[m].todo,
         NEW p \in Answering, Go(m, r, p),
         r.dem # 0 => r.todo[r.dem] # NoDemand,
         p = "decided" /\ r.verdict \in {"launching", "ready"}
         => \A id, t : id = r.cur /\ t = demands[r.dem].tier => Serves(id, t)',
         p \in {"submit", "attach"}
         => /\ r.cur \in 1 .. issued'
            /\ r.dem # 0 => \A id, t : id = r.cur /\ t = demands[r.dem].tier => Serves(id, t)',
         p = "submit" => jobs'[r.cur] = "none"
  PROVE  LocalsFit(mgr[m])'
  <1>1. /\ mgr'[m].pc = p /\ mgr'[m].dem = r.dem /\ mgr'[m].todo = r.todo
        /\ mgr'[m].verdict = r.verdict /\ mgr'[m].cur = r.cur
    BY GoHand
  <1>2. PassFits(mgr[m])'
    BY <1>1, PassOver DEF Answering, Scanning, Looping
  <1>3. \A d \in DemandIds : mgr'[m].todo[d] # NoDemand => demands'[d] = mgr'[m].todo[d]
    BY <1>1 DEF HandFits
  <1>4. p = "decided" /\ r.verdict \in {"launching", "ready"}
        => /\ r.cur \in 1 .. issued'
           /\ records'[r.cur].state # "absent" => records'[r.cur].tier = demands'[r.dem].tier
    BY DEF Serves, Known
  <1>5. p \in {"submit", "attach"} =>
          /\ r.cur \in 1 .. issued'
          /\ r.dem # 0 /\ records'[r.cur].state # "absent"
             => records'[r.cur].tier = demands'[r.dem].tier
    BY DEF Serves, Known
  <1>6. HandFits(mgr[m])'
    BY <1>1, <1>3, <1>4, <1>5 DEF HandFits, Serves, Known
  <1>. QED  BY <1>2, <1>6 DEF LocalsFit

\* A position in the loop over demands or minima at which none is in hand.
LEMMA LoopLocals ==
  ASSUME NEW m \in Managers, mgr'[m].pc \in {"demands", "minimums"},
         \A d \in DemandIds : mgr'[m].todo[d] # NoDemand => demands'[d] = mgr'[m].todo[d]
  PROVE  LocalsFit(mgr[m])'
  <1>1. PassFits(mgr[m])'
    BY PassOver DEF Scanning, Looping
  <1>2. HandFits(mgr[m])'
    BY DEF HandFits, Answering
  <1>. QED  BY <1>1, <1>2 DEF LocalsFit

\* One demand is dealt with; the other listed ones are as they were.
LEMMA NextDemandLocals ==
  ASSUME ControlInv, NEW m \in Managers, HandFits(mgr[m]), mgr[m].pc \in Demanding,
         NEW r \in Manager, r.todo = mgr[m].todo, NextDemand(m, r), r.dem \in DemandIds,
         \A d \in DemandIds \ {r.dem} : demands'[d] = demands[d]
  PROVE  LocalsFit(mgr[m])'
  <1>1. /\ mgr'[m].pc = "demands"
        /\ mgr'[m].todo = [r.todo EXCEPT ![r.dem] = NoDemand]
    BY NextDemandFields
  <1>2. \A d \in DemandIds : r.todo[d] # NoDemand => demands[d] = r.todo[d]
    BY DEF HandFits
  <1>3. \A d \in DemandIds : mgr'[m].todo[d] # NoDemand
          => d # r.dem /\ r.todo[d] # NoDemand /\ mgr'[m].todo[d] = r.todo[d]
    BY <1>1 DEF Manager
  <1>4. \A d \in DemandIds : mgr'[m].todo[d] # NoDemand => demands'[d] = mgr'[m].todo[d]
    BY <1>2, <1>3
  <1>. QED  BY <1>1, <1>4, LoopLocals

\* A launch that failed answers the demand in hand, or ends the pass.
LEMMA LaunchFailedLocals ==
  ASSUME ControlInv, NEW m \in Managers, HandFits(mgr[m]), mgr[m].pc \in Demanding,
         demands' = demands, LaunchFailed(m, mgr[m]),
         mgr[m].dem # 0 => mgr[m].pc \in Answering
  PROVE  LocalsFit(mgr[m])'
  <1>. DEFINE new == [mgr[m] EXCEPT !.verdict = "failed", !.category = "service_failure",
                                    !.cur = NoService]
  <1>1. Abort(m) \/ (mgr[m].dem # 0 /\ Go(m, new, "decided"))
    BY DEF LaunchFailed
  <1>2. "service_failure" \in Categories /\ "failed" \in DemandStates
    BY DEF Categories, DemandStates
  <1>3. /\ new \in Manager /\ new.dem = mgr[m].dem /\ new.todo = mgr[m].todo
        /\ new.verdict = "failed"
    BY <1>2, ManagerFacts DEF Manager
  <1>. HIDE DEF new
  <1>4. CASE mgr[m].dem # 0 /\ Go(m, new, "decided")
    <2>1. new.todo[new.dem] # NoDemand
      BY <1>3, <1>4 DEF HandFits
    <2>2. "decided" \in Answering
      BY DEF Answering
    <2>. QED  BY <1>3, <1>4, <2>1, <2>2, AnswerLocals
  <1>. QED  BY <1>1, <1>4, AbortLocals

\* The demands just listed are as they are.
LEMMA ListPendingLocals ==
  ASSUME ControlInv, NEW m \in Managers, ListPendingDemands(m)
  PROVE  LocalsFit(mgr[m])'
  <1>. DEFINE open == [d \in DemandIds |->
                         IF Open(Expired(demands[d])) THEN demands[d] ELSE NoDemand]
              new == [mgr[m] EXCEPT !.todo = open]
  <1>. demands \in [DemandIds -> Demand]
    BY DEF ControlInv, RegistryTypeOK
  <1>1. Go(m, new, "demands")
    BY DEF ListPendingDemands
  <1>2. demands' = [d \in DemandIds |-> Expired(demands[d])]
    BY DEF ListPendingDemands, ExpireDemands, PutDemands
  <1>3. open \in [DemandIds -> Demand]
    <2>1. NoDemand \in Demand
      BY ConfigAssumption DEF NoDemand, Demand, Categories, ZeroTime, NoService
    <2>. QED  BY <2>1
  <1>4. \A x \in Demand : Open(Expired(x)) => Expired(x) = x
    BY DEF Expired, Open, Demand
  <1>5. \A d \in DemandIds : open[d] # NoDemand => demands'[d] = open[d]
    BY <1>2, <1>4
  <1>. HIDE DEF open
  <1>6. new \in Manager /\ new.todo = open
    BY <1>3, ManagerFacts DEF Manager
  <1>. HIDE DEF new
  <1>7. mgr'[m].pc = "demands" /\ mgr'[m].todo = open
    BY <1>1, <1>6, GoHand
  <1>. QED  BY <1>5, <1>7, LoopLocals

\* What a listed demand is bound to serves its tier.
LEMMA ListedDemand ==
  ASSUME OomInv, NEW m \in Managers, TodoOpen(mgr[m]), mgr[m].pc \in Demanding,
         NEW d \in DemandIds, mgr[m].todo[d] # NoDemand
  PROVE  /\ demands[d] = mgr[m].todo[d]
         /\ demands[d].service # NoService => Serves(demands[d].service, demands[d].tier)
  <1>1. demands[d] = mgr[m].todo[d] /\ Open(demands[d])
    BY DEF OomInv, HandFits, TodoOpen
  <1>. QED  BY <1>1 DEF OomInv, BoundFits, Open

\* Deciding about a demand with a service: only that service can be its answer.
LEMMA DecideBoundLocals ==
  ASSUME ControlInv, OomInv, NEW m \in Managers, TodoOpen(mgr[m]),
         mgr[m].pc = "demands", NEW d \in DemandIds, mgr[m].todo[d] # NoDemand,
         DecideBound(m, d), UNCHANGED <<records, demands, issued>>
  PROVE  LocalsFit(mgr[m])'
  <1>. DEFINE r0 == mgr[m]
              r == [r0 EXCEPT !.dem = d]
              id == r0.todo[d].service
              outcome == BoundOutcome(records[id], r0.now)
              who == IF outcome[1] = "ready" THEN id ELSE NoService
  <1>1. /\ r0 \in Manager /\ HandFits(r0) /\ r0.pc \in Demanding
        /\ id \in ServiceIds \cup {NoService}
    BY ManagerFacts DEF OomInv, Demanding, Demand
  <1>2. /\ outcome[1] \in {"absent", "ready", "failed"}
        /\ outcome[2] \in Categories
    <2>1. id \in ServiceIds
      BY <1>1 DEF DecideBound
    <2>2. records[id].category \in Categories
      BY <2>1 DEF ControlInv, RegistryTypeOK, Record
    <2>3. OrServiceFailure(records[id].category) \in Categories
      BY <2>2, MergedCategories
    <2>. QED  BY <2>3, BoundOutcomes DEF Categories
  <1>3. \/ NextDemand(m, r)
        \/ Go(m, [r EXCEPT !.verdict = outcome[1], !.category = outcome[2], !.cur = who],
              "decided")
    BY DEF DecideBound
  <1>4. /\ demands[d] = r0.todo[d]
        /\ id # NoService => Serves(id, demands[d].tier)
    BY <1>1, ListedDemand
  <1>5. id # NoService
    BY DEF DecideBound
  <1>6. who \in ServiceIds \cup {NoService}
    BY <1>1
  <1>7. r \in Manager /\ r.dem = d /\ r.todo = r0.todo
    BY <1>1 DEF Manager
  <1>. HIDE DEF r
  <1>8. CASE NextDemand(m, r)
    BY <1>1, <1>7, <1>8, NextDemandLocals
  <1>9. CASE Go(m, [r EXCEPT !.verdict = outcome[1], !.category = outcome[2], !.cur = who],
                "decided")
    <2>1. outcome[1] = "ready" => who = id
      OBVIOUS
    <2>. HIDE DEF outcome, who, id
    <2>. DEFINE new == [r EXCEPT !.verdict = outcome[1], !.category = outcome[2], !.cur = who]
    <2>2. outcome[1] \in DemandStates
      BY <1>2 DEF DemandStates
    <2>3. /\ new \in Manager /\ new.dem = d /\ new.todo = r0.todo
          /\ new.verdict = outcome[1] /\ new.cur = who
      BY <1>2, <1>6, <1>7, <2>2 DEF Manager
    <2>4. Go(m, new, "decided") /\ "decided" \in Answering
      BY <1>9 DEF Answering
    <2>. HIDE DEF new
    <2>5. new.verdict \in {"launching", "ready"} =>
            \A i, t : i = new.cur /\ t = demands[d].tier => Serves(i, t)'
      BY <1>2, <1>4, <1>5, <2>1, <2>3 DEF Serves, Known
    <2>. QED  BY <1>1, <2>3, <2>4, <2>5, AnswerLocals
  <1>. QED  BY <1>3, <1>8, <1>9

\* Deciding about a demand without a service: one of its tier can be its answer.
LEMMA DecideUnboundLocals ==
  ASSUME ControlInv, LeaseInv, OomInv, NEW m \in Managers, TodoOpen(mgr[m]),
         mgr[m].pc = "demands", NEW d \in DemandIds, mgr[m].todo[d] # NoDemand,
         DecideUnbound(m, d), UNCHANGED <<records, demands, issued>>
  PROVE  LocalsFit(mgr[m])'
  <1>. DEFINE r0 == mgr[m]
              r == [r0 EXCEPT !.dem = d]
              tier == r.todo[d].tier
              healthy == HealthyIn(tier, r.now)
              starting == StartingIn(tier, r.now)
  <1>1. r0 \in Manager /\ HandFits(r0) /\ r0.pc \in Demanding
    BY ManagerFacts DEF OomInv, Demanding
  <1>2. r \in Manager /\ r.dem = d /\ r.todo = r0.todo
    BY <1>1 DEF Manager
  <1>3. \/ healthy # {} /\ Go(m, [r EXCEPT !.verdict = "ready", !.cur = Oldest(healthy)], "decided")
        \/ Abort(m)
        \/ NextDemand(m, r)
        \/ starting # {} /\ Go(m, [r EXCEPT !.verdict = "launching", !.cur = Youngest(starting)], "decided")
        \/ Go(m, r, "reserve")
    BY DEF DecideUnbound
  <1>4. demands[d].tier = tier
    BY <1>1, <1>2, ListedDemand
  <1>5. healthy # {} => Oldest(healthy) \in ServiceIds /\ Serves(Oldest(healthy), tier)
    <2>1. \A id \in healthy : id \in ServiceIds /\ Serves(id, tier)
      BY RecordServes DEF HealthyIn, Healthy, Routable, Known
    <2>. QED  BY <2>1, OldestType DEF HealthyIn
  <1>6. starting # {} => Youngest(starting) \in ServiceIds /\ Serves(Youngest(starting), tier)
    <2>1. \A id \in starting : id \in ServiceIds /\ Serves(id, tier)
      BY RecordServes DEF StartingIn, RecordsForTier, Known
    <2>. QED  BY <2>1, YoungestType DEF StartingIn, RecordsForTier
  <1>. HIDE DEF r, tier, healthy, starting
  <1>7. ASSUME NEW v \in {"launching", "ready"}, NEW id \in ServiceIds, Serves(id, tier),
               Go(m, [r EXCEPT !.verdict = v, !.cur = id], "decided")
        PROVE  LocalsFit(mgr[m])'
    <2>. DEFINE new == [r EXCEPT !.verdict = v, !.cur = id]
    <2>1. v \in DemandStates /\ "decided" \in Answering
      BY DEF DemandStates, Answering
    <2>2. /\ new \in Manager /\ new.dem = d /\ new.todo = r0.todo /\ new.cur = id
      BY <1>2, <2>1 DEF Manager
    <2>3. Go(m, new, "decided")
      BY <1>7
    <2>. HIDE DEF new
    <2>4. \A i, t : i = id /\ t = demands[d].tier => Serves(i, t)'
      BY <1>4, <1>7 DEF Serves, Known
    <2>. QED  BY <1>1, <2>1, <2>2, <2>3, <2>4, AnswerLocals
  <1>8. CASE Go(m, r, "reserve")
    <2>1. "reserve" \in Answering
      BY DEF Answering
    <2>. QED  BY <1>1, <1>2, <1>8, <2>1, AnswerLocals
  <1>9. CASE NextDemand(m, r)
    BY <1>1, <1>2, <1>9, NextDemandLocals
  <1>. QED  BY <1>3, <1>5, <1>6, <1>7, <1>8, <1>9, AbortLocals

\* Deciding about the next demand keeps what the pass counts on.
LEMMA DecideLocals ==
  ASSUME ControlInv, LeaseInv, OomInv, NEW m \in Managers, TodoOpen(mgr[m]),
         DecideDemand(m)
  PROVE  LocalsFit(mgr[m])'
  <1>. DEFINE d == FirstListed(mgr[m])
  <1>1. UNCHANGED <<records, demands, issued>> /\ mgr[m].pc = "demands"
    BY DEF DecideDemand, regVars
  <1>2. DecideBound(m, d) \/ DecideUnbound(m, d)
    BY DEF DecideDemand
  <1>3. d \in DemandIds /\ mgr[m].todo[d] # NoDemand
    BY FirstListedType DEF DecideDemand
  <1>. HIDE DEF d
  <1>. QED  BY <1>1, <1>2, <1>3, DecideBoundLocals, DecideUnboundLocals

\* The answer that is written binds the demand to a service of its tier.
LEMMA WriteLocals ==
  ASSUME ControlInv, OomInv, RecordsAge, NEW m \in Managers, WriteDemand(m)
  PROVE  LocalsFit(mgr[m])' /\ BoundFits'
  <1>. DEFINE r == mgr[m]
  <1>. demands \in [DemandIds -> Demand] /\ issued \in Nat
    BY DEF ControlInv, RegistryTypeOK
  <1>1. /\ r \in Manager /\ r.dem \in DemandIds /\ r.pc = "decided" /\ HandFits(r)
        /\ r.verdict \in {"launching", "ready", "failed"}
    BY ManagerFacts DEF WriteDemand, Fits, OomInv
  <1>2. CASE UpdateDemand(r.dem, r.verdict, r.cur, r.category) /\ NextDemand(m, r)
    <2>. DEFINE old == demands[r.dem]
                service == IF r.cur = NoService THEN old.service ELSE r.cur
                category == IF r.category = "none" THEN old.category ELSE r.category
                new == [old EXCEPT !.state = r.verdict, !.service = service,
                                   !.category = category]
    <2>1. demands' = [demands EXCEPT ![r.dem] = new]
      BY <1>2 DEF UpdateDemand, PutDemands
    <2>2. new.state = r.verdict /\ new.service = service /\ new.tier = old.tier
      BY <1>1 DEF Demand
    <2>3. r.verdict \in {"launching", "ready"} => Serves(service, old.tier)
      BY <1>1 DEF HandFits, Serves, NoService
    <2>. HIDE DEF new, service, old
    <2>4. \A d \in DemandIds \ {r.dem} : demands'[d] = demands[d]
      BY <2>1
    <2>5. demands'[r.dem] = new
      BY <1>1, <2>1
    <2>6. \A id, t : Serves(id, t) => Serves(id, t)'
      BY ServesKept
    <2>7. BoundFits'
      <3>1. ASSUME NEW d \in DemandIds
            PROVE  /\ demands'[d].state = "pending" => demands'[d].service = NoService
                   /\ demands'[d].state \in {"launching", "ready"}
                      => \A id, t : id = demands'[d].service /\ t = demands'[d].tier
                                    => Serves(id, t)'
        <4>1. CASE d = r.dem
          BY <1>1, <2>2, <2>3, <2>5, <2>6, <4>1
        <4>2. CASE d # r.dem
          BY <2>4, <2>6, <4>2 DEF OomInv, BoundFits
        <4>. QED  BY <4>1, <4>2
      <3>. QED  BY <3>1 DEF BoundFits, Serves, Known
    <2>8. LocalsFit(mgr[m])'
      BY <1>1, <1>2, <2>4, NextDemandLocals DEF Demanding, Answering
    <2>. QED  BY <2>7, <2>8
  <1>3. CASE Abort(m) /\ UNCHANGED regVars
    <2>1. BoundFits'
      BY <1>3, BoundKept DEF OomInv, regVars
    <2>. QED  BY <1>3, <2>1, AbortLocals
  <1>. QED  BY <1>2, <1>3 DEF WriteDemand

\* At the end of the loop the list is empty.
LEMMA EndLocals ==
  ASSUME ControlInv, NEW m \in Managers, EndDemands(m)
  PROVE  LocalsFit(mgr[m])'
  <1>. DEFINE need == [t \in Tiers |->
                         LET count == Cardinality(RecordsForTier(t, mgr[m].now))
                         IN IF count < MinReplicas[t] THEN MinReplicas[t] - count ELSE 0]
              new == [mgr[m] EXCEPT !.need = need]
  <1>1. Go(m, new, "minimums") /\ \A d \in DemandIds : mgr[m].todo[d] = NoDemand
    BY DEF EndDemands
  <1>. HIDE DEF need
  <1>2. mgr'[m].pc = "minimums" /\ mgr'[m].todo = mgr[m].todo
    BY <1>1 DEF Go, ControlInv, ManagersOK, Manager
  <1>. QED  BY <1>1, <1>2, LoopLocals

\* A reservation is for the tier of the demand in hand, and has no job yet.
LEMMA ReserveLocals ==
  ASSUME ControlInv, OomInv, NEW m \in Managers, TodoOpen(mgr[m]),
         ReserveForDemand(m) \/ ReserveMinimum(m)
  PROVE  LocalsFit(mgr[m])'
  <1>. DEFINE r == mgr[m]
              new == [r EXCEPT !.cur = issued + 1]
  <1>1. PICK t : ReserveFor(m, r, t) /\ (r.pc = "reserve" => t = r.todo[r.dem].tier)
    BY DEF ReserveForDemand, ReserveMinimum
  <1>2. /\ r \in Manager /\ r.dem \in DemandIds \cup {0} /\ HandFits(r)
        /\ r.pc \in {"reserve", "minimums"} /\ r.pc \in Demanding
        /\ r.dem # 0 => r.pc \in Answering
        /\ issued \in Nat
    BY ManagerFacts
    DEF ReserveForDemand, ReserveMinimum, Demanding, Answering, OomInv, TodoOpen,
        ControlInv, RegistryTypeOK
  <1>3. demands' = demands /\ UNCHANGED envVars
    BY <1>1 DEF ReserveFor, Reserve, regVars, ReserveForDemand, ReserveMinimum
  <1>4. CASE issued < MaxServices /\ (\E deadline : Reserve(issued + 1, t, deadline))
             /\ Go(m, new, "submit")
    <2>1. issued + 1 \in ServiceIds
      BY <1>2, <1>4, BoundAssumption DEF ServiceIds
    <2>2. new \in Manager /\ new.cur = issued + 1 /\ new.dem = r.dem /\ new.todo = r.todo
      BY <1>2, <2>1 DEF Manager
    <2>. HIDE DEF new
    <2>3. issued' = issued + 1 /\ records'[issued + 1].tier = t
      BY <1>4, <2>1 DEF Reserve, NewRecord, Absent, ControlInv, RegistryTypeOK
    <2>4. r.dem # 0 => r.todo[r.dem] # NoDemand /\ demands[r.dem].tier = t
      BY <1>1, <1>2 DEF HandFits, Answering
    <2>5. \A id : id = issued + 1 => Serves(id, t)'
      BY <1>2, <2>3 DEF Serves
    <2>6. jobs'[issued + 1] = "none"
      BY <1>2, <1>3, <2>1 DEF OomInv, JobsOK, envVars
    <2>7. "submit" \in Answering /\ issued + 1 \in 1 .. issued'
      BY <1>2, <2>3 DEF Answering
    <2>. QED  BY <1>2, <1>3, <1>4, <2>2, <2>4, <2>5, <2>6, <2>7, AnswerLocals
  <1>5. CASE r.dem # 0 /\ NextDemand(m, r)
    BY <1>2, <1>3, <1>5, NextDemandLocals
  <1>6. CASE LaunchFailed(m, r)
    BY <1>2, <1>3, <1>6, LaunchFailedLocals
  <1>. QED  BY <1>1, <1>4, <1>5, <1>6, AbortLocals DEF ReserveFor

\* The service that is submitted and attached is the one that was reserved.
LEMMA LaunchLocals ==
  ASSUME ControlInv, OomInv, RecordsAge, NEW m \in Managers,
         SubmitService(m) \/ AttachService(m)
  PROVE  LocalsFit(mgr[m])'
  <1>. DEFINE r == mgr[m]
              need == [r.need EXCEPT ![records[r.cur].tier] = @ - 1]
              short == [r EXCEPT !.need = need, !.cur = NoService]
              new == [r EXCEPT !.verdict = "launching"]
  <1>1. /\ r \in Manager /\ r.pc \in {"submit", "attach"} /\ r.pc \in Demanding
        /\ HandFits(r) /\ r.pc \in Answering /\ issued \in Nat
    BY ManagerFacts
    DEF SubmitService, AttachService, Demanding, Answering, OomInv, ControlInv, RegistryTypeOK
  <1>2. demands' = demands /\ issued' = issued
    BY DEF SubmitService, AttachService, AttachJob, Delete, PutRecord, regVars
  <1>3. \/ Go(m, r, "attach")
        \/ LaunchFailed(m, r)
        \/ r.dem = 0 /\ Go(m, short, "minimums")
        \/ r.dem # 0 /\ Go(m, new, "decided")
    BY <1>1 DEF SubmitService, AttachService, Manager
  <1>4. /\ r.cur \in 1 .. issued
        /\ r.dem # 0 => r.todo[r.dem] # NoDemand /\ Serves(r.cur, demands[r.dem].tier)
    BY <1>1 DEF HandFits
  <1>5. r.dem # 0 => \A id, t : id = r.cur /\ t = demands[r.dem].tier => Serves(id, t)'
    BY <1>1, <1>4, ServesKept
  <1>6. CASE Go(m, r, "attach")
    <2>1. "attach" \in Answering
      BY DEF Answering
    <2>. QED  BY <1>1, <1>2, <1>4, <1>5, <1>6, <2>1, AnswerLocals
  <1>7. CASE LaunchFailed(m, r)
    BY <1>1, <1>2, <1>7, LaunchFailedLocals
  <1>8. CASE r.dem = 0 /\ Go(m, short, "minimums")
    <2>. HIDE DEF need
    <2>1. mgr'[m].pc = "minimums" /\ mgr'[m].todo = r.todo
      BY <1>1, <1>8 DEF Go, ControlInv, ManagersOK, Manager
    <2>. QED  BY <1>1, <1>2, <2>1, LoopLocals DEF HandFits
  <1>9. CASE r.dem # 0 /\ Go(m, new, "decided")
    <2>1. /\ new \in Manager /\ new.dem = r.dem /\ new.todo = r.todo /\ new.cur = r.cur
      BY <1>1 DEF Manager, DemandStates
    <2>2. "decided" \in Answering
      BY DEF Answering
    <2>. HIDE DEF new
    <2>. QED  BY <1>1, <1>2, <1>4, <1>5, <1>9, <2>1, <2>2, AnswerLocals
  <1>. QED  BY <1>3, <1>6, <1>7, <1>8, <1>9

\* The calls of a manager that change demands.
LEMMA DemandCalls ==
  ASSUME NEW m \in Managers, ManagerStep(m)
  PROVE  \/ demands' = demands \/ ImportDemand(m) \/ WriteDemand(m)
         \/ ListPendingDemands(m) \/ Prune(m) \/ FailBoundDemands(m) \/ ShutdownFail(m)
  BY DEF ManagerStep, PassStep, ImportReport, Crash, StartShutdown, ListRecords,
         ReadClock, Inspect, InspectUnhealthy, ClearHealthError, Retire, CancelJob,
         RecordCancellation, DeleteRecord, ListExcess, RetireExcess, DecideDemand,
         EndDemands, ReserveForDemand, ReserveMinimum, ReserveFor, SubmitService,
         AttachService, ShutdownCancel, ShutdownDelete, EndShutdown,
         ReportServiceFailure, HealthUpdate, RetireUpdate, TerminalUpdate, CancelUpdate,
         Delete, AttachJob, Reserve, PutRecord, regVars

\* No manager binds a demand to a service of another tier.
LEMMA ManagerBound ==
  ASSUME ControlInv, OomInv, RecordsAge, NEW m \in Managers, ManagerStep(m)
  PROVE  BoundFits'
  <1>. demands \in [DemandIds -> Demand] /\ issued \in Nat /\ BoundFits
    BY DEF ControlInv, RegistryTypeOK, OomInv
  <1>1. CASE demands' = demands
    BY <1>1, BoundKept
  <1>2. CASE ImportDemand(m)
    <2>1. PICK d, t : RequestDemand(d, t, DemandTTL)
      BY <1>2 DEF ImportDemand
    <2>2. \A o \in DemandIds :
            \/ demands'[o] = demands[o]
            \/ demands'[o].state = "pending" /\ demands'[o].service = NoService
      BY <2>1 DEF RequestDemand
    <2>. QED  BY <2>2, BoundKept
  <1>3. CASE WriteDemand(m)
    BY <1>3, WriteLocals
  <1>4. CASE ListPendingDemands(m)
    <2>1. demands' = [d \in DemandIds |-> Expired(demands[d])]
      BY <1>4 DEF ListPendingDemands, ExpireDemands, PutDemands
    <2>2. \A x \in Demand : Expired(x) = x \/ Expired(x).state = "failed"
      BY DEF Expired, Demand
    <2>3. \A d \in DemandIds : demands'[d] = demands[d] \/ demands'[d].state = "failed"
      BY <2>1, <2>2
    <2>. QED  BY <2>3, BoundKept
  <1>5. CASE Prune(m)
    <2>1. \A d \in DemandIds : demands'[d] = demands[d] \/ demands'[d] = NoDemand
      BY <1>5 DEF Prune, PruneExpiredDemands, PutDemands
    <2>2. NoDemand.state = "absent"
      BY DEF NoDemand
    <2>. QED  BY <2>1, <2>2, BoundKept
  <1>6. CASE FailBoundDemands(m) \/ ShutdownFail(m)
    <2>1. PICK id, c : FailDemandsForService(id, c)
      BY <1>6 DEF FailBoundDemands, ShutdownFail
    <2>2. \A d \in DemandIds :
            \/ demands'[d] = demands[d]
            \/ demands'[d] = [demands[d] EXCEPT !.state = "failed",
                                                !.category = OrServiceFailure(c)]
      BY <2>1 DEF FailDemandsForService, PutDemands
    <2>3. \A d \in DemandIds : demands'[d] = demands[d] \/ demands'[d].state = "failed"
      BY <2>2 DEF Demand
    <2>. QED  BY <2>3, BoundKept
  <1>. QED  BY <1>1, <1>2, <1>3, <1>4, <1>5, <1>6, DemandCalls

\* A manager keeps what its own pass counts on.
LEMMA ManagerLocals ==
  ASSUME ControlInv, LeaseInv, OomInv, ScaleZeroReplicaLimit, [RegistryNext]_regVars,
         NEW m \in Managers, TodoOpen(mgr[m]), ManagerStep(m)
  PROVE  LocalsFit(mgr[m])'
  <1>1. RecordsAge
    BY StepRecordsAge
  <1>. QED
    BY <1>1, OutsideLocals, ListLocals, InspectLocals, UnhealthyLocals, RecordLocals,
       ExcessLocals, ListPendingLocals, DecideLocals, WriteLocals, EndLocals,
       ReserveLocals, LaunchLocals
    DEF ManagerStep, PassStep

\* Every step of a control plane with one broker keeps the invariant.
LEMMA OomNext ==
  ASSUME NEW b, Managers = {b}, ControlInv, LeaseInv, ScaleZeroReplicaLimit, DemandsInv,
         OomInv, [Next]_vars
  PROVE  OomInv'
  <1>1. [RegistryNext]_regVars
    BY NextOK DEF InstantStep
  <1>2. CASE ManagerStep(b)
    <2>1. b \in Managers /\ TodoOpen(mgr[b])
      BY DEF DemandsInv
    <2>2. RecordsAge
      BY <1>1, StepRecordsAge
    <2>3. LocalsFit(mgr[b])'
      BY <1>1, <1>2, <2>1, ManagerLocals
    <2>4. BoundFits'
      BY <1>2, <2>1, <2>2, ManagerBound
    <2>5. JobsOK'
      <3>1. issued \in Nat /\ issued' \in Nat /\ issued <= issued'
        BY <2>2 DEF RecordsAge, ControlInv, RegistryTypeOK
      <3>. QED
        BY <1>2, <2>1, <3>1, ManagerEnvironment, CancellingJobs, SubmissionJobs DEF OomInv
    <2>. QED  BY <2>1, <2>2, <2>3, <2>4, <2>5 DEF OomInv, RecordsAge, LocalsFit
  <1>. QED  BY <1>1, <1>2, OthersOom DEF Next

\* It holds at the start.
LEMMA OomInit ==
  ASSUME Init
  PROVE  OomInv
  <1>1. \A m \in Managers : mgr[m] = IdleManager /\ IdleManager.pc = "idle"
    BY DEF Init, IdleManager
  <1>2. AbsentIsNoRecord /\ JobsOK /\ BoundFits
    BY DEF Init, RegistryInit, AbsentIsNoRecord, JobsOK, BoundFits, NoDemand
  <1>. QED
    BY <1>1, <1>2
    DEF OomInv, HandFits, PassFits, ListedFits, LoopFits, ExcessWarm, OneAtNow, WhyFits,
        Scanning, Looping, Demanding, Answering

\* What one step makes of a demand whose service Slurm has killed.
OomStep ==
  \A d \in DemandIds :
    /\ demands[d].state \in {"launching", "ready"}
    /\ demands[d].tier \notin WarmTiers
    /\ records[demands[d].service].job
    /\ jobs[demands[d].service] = "oom"
    /\ demands'[d].state = "failed"
    /\ \A m \in Managers : mgr[m].pc \notin {"decided", "downfail"}
    => demands'[d].category # "service_failure"

\* The failure a pass writes down is not the launcher's word if Slurm has
\* another one.
LEMMA FailBoundOom ==
  ASSUME ControlInv, OomInv, NEW m \in Managers, FailBoundDemands(m)
  PROVE  OomStep
  <1>. DEFINE r == mgr[m]
  <1>. demands \in [DemandIds -> Demand]
    BY DEF ControlInv, RegistryTypeOK
  <1>1. /\ r.cur \in ServiceIds /\ r.category # "none"
        /\ r.category = "service_failure" => EndedOtherwise(r.cur) \/ Excused(r.cur)
    BY ManagerFacts DEF FailBoundDemands, Fits, Holding, Looping, OomInv, PassFits, WhyFits
  <1>2. \A d \in DemandIds :
          demands'[d] = IF Bound(demands[d], r.cur)
                        THEN [demands[d] EXCEPT !.state = "failed",
                                                !.category = OrServiceFailure(r.category)]
                        ELSE demands[d]
    BY DEF FailBoundDemands, FailDemandsForService, PutDemands
  <1>3. \A d \in DemandIds : Bound(demands[d], r.cur) => demands'[d].category = r.category
    BY <1>1, <1>2 DEF OrServiceFailure, Demand
  <1>. SUFFICES ASSUME NEW d \in DemandIds,
                       demands[d].state \in {"launching", "ready"},
                       demands[d].tier \notin WarmTiers,
                       records[demands[d].service].job,
                       jobs[demands[d].service] = "oom",
                       demands'[d].state = "failed",
                       demands'[d].category = "service_failure"
                PROVE  FALSE
    BY DEF OomStep
  <1>4. Bound(demands[d], r.cur)
    BY <1>2
  <1>5. r.category = "service_failure" /\ demands[d].service = r.cur
    BY <1>3, <1>4 DEF Bound
  <1>6. ~EndedOtherwise(r.cur)
    BY <1>5 DEF EndedOtherwise
  <1>7. ~Excused(r.cur)
    <2>1. Known(r.cur)
      BY <1>1, <1>5, NoRecordIsAbsent DEF OomInv, AbsentIsNoRecord
    <2>2. records[r.cur].tier = demands[d].tier
      BY <1>5, <2>1 DEF OomInv, BoundFits, Serves
    <2>. QED  BY <1>4, <1>5, <2>1, <2>2 DEF Excused
  <1>. QED  BY <1>1, <1>5, <1>6, <1>7

\* No other step fails such a demand, but for the two the property excepts.
LEMMA OomKept ==
  ASSUME NEW b, Managers = {b}, ControlInv, DemandsInv, OomInv, [Next]_vars
  PROVE  OomStep
  <1>. demands \in [DemandIds -> Demand] /\ requested \in Nat /\ b \in Managers
    BY DEF ControlInv, RegistryTypeOK
  <1>1. CASE demands' = demands
    BY <1>1 DEF OomStep
  <1>2. CASE ImportDemand(b)
    BY <1>2 DEF ImportDemand, RequestDemand, OomStep
  <1>3. CASE WriteDemand(b) \/ ShutdownFail(b)
    BY <1>3 DEF WriteDemand, ShutdownFail, OomStep
  <1>4. CASE ListPendingDemands(b)
    <2>1. demands' = [d \in DemandIds |-> Expired(demands[d])]
      BY <1>4 DEF ListPendingDemands, ExpireDemands, PutDemands
    <2>2. \A x \in Demand : Expired(x) = x \/ Expired(x).category = "queue_delay"
      BY DEF Expired, Demand
    <2>. QED  BY <2>1, <2>2 DEF OomStep
  <1>5. CASE Prune(b)
    BY <1>5 DEF Prune, PruneExpiredDemands, PutDemands, NoDemand, OomStep
  <1>6. CASE FailBoundDemands(b)
    BY <1>6, FailBoundOom
  <1>. QED
    BY <1>1, <1>2, <1>3, <1>4, <1>5, <1>6, DemandCalls, OthersIdle DEF Next

\* One broker, which may die and be restarted, whatever the timeouts and the faults
\* are: a demand whose scale-from-zero service Slurm has killed for want of memory is
\* not failed by a pass as a mere service failure.
THEOREM OomsAreClassified ==
  ASSUME NEW b, Managers = {b}
  PROVE  Spec => OomIsClassified
  <1>1. Init => OomInv /\ DemandsInv
    BY OomInit
    DEF Init, RegistryInit, NoDemand, IdleManager, DemandsInv, FreshDemands, TodoOpen,
        Demanding, Answering
  <1>2. Spec => []LeaseInv
    BY ControlPlaneImplementsRegistry, LeaseInvariant, PTL
  <1>3. ControlInv /\ DemandsInv /\ [Next]_vars => DemandsInv'
    BY DemandsNext
  <1>4. ControlInv /\ LeaseInv /\ ScaleZeroReplicaLimit /\ DemandsInv /\ OomInv /\ [Next]_vars
        => OomInv'
    BY OomNext
  <1>5. ControlInv /\ DemandsInv /\ OomInv /\ [Next]_vars
        => [\A d \in DemandIds :
              /\ demands[d].state \in {"launching", "ready"}
              /\ demands[d].tier \notin WarmTiers
              /\ records[demands[d].service].job
              /\ jobs[demands[d].service] = "oom"
              /\ demands'[d].state = "failed"
              /\ \A m \in Managers : mgr[m].pc \notin {"decided", "downfail"}
              => demands'[d].category # "service_failure"]_demands
    BY OomKept DEF OomStep
  <1>. QED
    BY <1>1, <1>2, <1>3, <1>4, <1>5, ControlInvariant, ControlPlaneScaleZeroLimit, PTL
    DEF Spec, OomIsClassified
=============================================================================
