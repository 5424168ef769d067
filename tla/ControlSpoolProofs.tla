------------------------- MODULE ControlSpoolProofs -------------------------
(***************************************************************************)
(* Proofs about the control spool, for any number of requests, services    *)
(* and demands, and workers and brokers that die anywhere.  What holds of  *)
(* one broker says so.                                                     *)
(*                                                                         *)
(* A request is in one of two files, or in neither while the broker holds  *)
(* it.  What is true of the files alone is therefore not inductive: KeptInv*)
(* also says what the file in hand is (a request whose answer is written,  *)
(* or a response whose time is over), AnswerInv that the answer about to be*)
(* written belongs to the request in hand, and that nothing but this pass  *)
(* moves demands while Sync works on its list of them.                     *)
(***************************************************************************)
EXTENDS ControlSpool, GpuRegistryProofs, WellFoundedInduction

Worker ==
  [at : {"new", "waiting", "leaving", "removing", "gone"}, tier : Tiers,
   deadline : Nat, got : ServiceIds \cup {NoService}]

Locals ==
  [pc : Steps, paths : SUBSET Requests, reply : Response, cur : SUBSET Requests,
   passNow : Nat, now : Nat, listed : [DemandIds -> Demand], snap : [ServiceIds -> Record]]

\* Where a pass has read its first clock, and the clock of Sync.
InPass == {"records", "demands", "list", "files", "sweep", "rewrite"}
Syncing == {"list", "files", "sweep", "rewrite"}

\* The instants a pass works with have passed.
PassOK(l, p, t) ==
  /\ p \in InPass => l.passNow \in 1 .. t
  /\ p \in Syncing => l.now \in 1 .. t

FilesOK ==
  /\ requestFiles \subseteq Requests
  /\ responses \in [Requests -> Response]
  /\ requester \in [Requests -> Worker]
  /\ \A r \in Requests : requester[r].deadline <= clock + DemandTTL
  /\ asked \in [Requests -> SUBSET DemandIds]
  /\ crashes \in 0 .. MaxCrashes

BrokersOK ==
  /\ broker \in [Brokers -> Locals]
  /\ \A b \in Brokers : PassOK(broker[b], broker[b].pc, clock)

SpoolInv == RegistryTypeOK /\ FreshDemands /\ FilesOK /\ BrokersOK

-----------------------------------------------------------------------------
(* Values *)

\* A demand can be absent.
LEMMA NoDemandType == NoDemand \in Demand
  BY ConfigAssumption DEF NoDemand, Demand, Categories, ZeroTime, NoService

\* What is answered without a service is a response.
LEMMA AnswerType ==
  ASSUME clock \in Nat, NEW d \in DemandIds \cup {NoDemandId},
         NEW state \in {"absent", "pending", "launching", "ready", "failed"}
  PROVE  /\ Answer(state, d) \in Response
         /\ Answer(state, d).state = state /\ Answer(state, d).demand = d
         /\ Answer(state, d).updated = clock /\ ~Credentials(Answer(state, d))
  BY DEF Answer, Response, Credentials, ZeroTime

\* The file that is not there.
LEMMA NoResponseType ==
  ASSUME clock \in Nat
  PROVE  /\ NoResponse \in Response /\ NoResponse.state = "absent"
         /\ NoResponse.demand = NoDemandId /\ ~Credentials(NoResponse)
  BY DEF NoResponse, Answer, Response, Credentials, ZeroTime

\* A broker between two passes.
LEMMA IdleBrokerType ==
  ASSUME clock \in Nat
  PROVE  /\ IdleBroker \in Locals /\ IdleBroker.pc = "idle"
         /\ IdleBroker.paths = {} /\ IdleBroker.cur = {}
  BY NoResponseType, NoDemandType, NoRecordType
  DEF IdleBroker, Locals, Steps, ZeroTime

\* The demand of a response in a list is a demand.
LEMMA DemandOfType ==
  ASSUME NEW l \in Locals, NEW a \in Response
  PROVE  DemandOf(a, l) \in Demand
  BY NoDemandType DEF DemandOf, Locals, Response

\* So is a refreshed response, which keeps the demand; the credentials in it are
\* those of the service the demand is ready on.
LEMMA RefreshedType ==
  ASSUME clock \in Nat, NEW l \in Locals, NEW a \in Response
  PROVE  /\ Refreshed(a, l) \in Response /\ Refreshed(a, l).demand = a.demand
         /\ Credentials(Refreshed(a, l)) =>
              /\ DemandOf(a, l).state = "ready"
              /\ Refreshed(a, l).service = DemandOf(a, l).service
  <1>. DEFINE d    == DemandOf(a, l)
              r    == l.snap[d.service]
              base == [Answer(d.state, a.demand) EXCEPT !.updated = l.now]
  <1>1. /\ d \in Demand /\ l.now \in Nat /\ a.demand \in DemandIds \cup {NoDemandId}
        /\ l.snap \in [ServiceIds -> Record]
    BY DemandOfType DEF Locals, Response
  <1>2. d.state \in {"absent", "pending", "launching", "ready", "failed"}
        /\ d.service \in ServiceIds \cup {NoService}
    BY <1>1 DEF Demand
  <1>. HIDE DEF d
  <1>3. base \in Response /\ base.demand = a.demand /\ base.service = NoService
    BY <1>1, <1>2, AnswerType DEF Response, Credentials
  <1>. HIDE DEF base
  <1>4. CASE d.state = "ready" /\ LeaseStands(l, d.service)
    <2>1. r \in Record /\ d.service \in ServiceIds
      BY <1>1, <1>2, <1>4 DEF LeaseStands
    <2>2. EffectiveLease(r) \in Nat /\ r.heartbeat \in Nat
      <3>1. r.lease \in Nat /\ r.heartbeat \in Nat
        BY <2>1 DEF Record
      <3>. QED  BY <2>1, <3>1, BoundedType DEF EffectiveLease
    <2>. HIDE DEF r
    <2>3. Refreshed(a, l) = [base EXCEPT !.service = d.service, !.lease = EffectiveLease(r),
                                         !.heartbeat = r.heartbeat]
      BY <1>4 DEF Refreshed, base, d, r
    <2>. QED  BY <1>3, <1>4, <2>1, <2>2, <2>3 DEF Response, Credentials, d
  <1>5. CASE ~(d.state = "ready" /\ LeaseStands(l, d.service))
    <2>1. Refreshed(a, l) \in
            {base, [base EXCEPT !.state = "failed", !.diagnostic = HasDiagnostic(d)]}
      BY <1>5 DEF Refreshed, base, d
    <2>2. HasDiagnostic(d) \in BOOLEAN
      BY DEF HasDiagnostic
    <2>. QED  BY <1>3, <2>1, <2>2 DEF Response, Credentials
  <1>. QED  BY <1>4, <1>5

\* A nonempty set of numbers has a least one.
LEMMA LeastDemand ==
  ASSUME NEW S \in SUBSET DemandIds, S # {}
  PROVE  \E x \in S : \A y \in S : x <= y
  <1>0. S \in SUBSET Nat
    BY DEF DemandIds
  <1>1. PICK x \in S : \A y \in S : ~(<<y, x>> \in OpToRel(<, Nat))
    BY <1>0, NatLessThanWellFounded, WFMin, Zenon
  <1>2. \A y \in S : ~(y < x)
    BY <1>0, <1>1 DEF OpToRel
  <1>. QED  BY <1>0, <1>2

\* The demand that absorbs a request is an open one of its tier.
LEMMA CoalescedType ==
  ASSUME NEW t \in Tiers, Coalesces(t)
  PROVE  /\ Coalesced(t) \in DemandIds /\ Open(demands[Coalesced(t)])
         /\ demands[Coalesced(t)].deadline > clock
  <1>. DEFINE S == {d \in DemandIds : /\ demands[d].tier = t /\ Open(demands[d])
                                      /\ demands[d].deadline > clock}
  <1>1. S # {}
    BY DEF Coalesces
  <1>2. PICK d \in S : \A e \in S : d <= e
    BY <1>1, LeastDemand
  <1>. QED  BY <1>2 DEF Coalesced

-----------------------------------------------------------------------------
(* Every step keeps the types, and is a step of the registry. *)

\* A broker's move keeps what holds of all, if its locals fit the new position.
LEMMA GoOK ==
  ASSUME BrokersOK, NEW b \in Brokers, NEW l \in Locals, NEW p \in Steps, Go(b, l, p),
         clock' = clock, PassOK(l, p, clock)
  PROVE  BrokersOK'
  <1>. DEFINE new == [l EXCEPT !.pc = p]
  <1>1. /\ new \in Locals /\ new.pc = p /\ new.passNow = l.passNow /\ new.now = l.now
    BY DEF Locals
  <1>2. broker' = [broker EXCEPT ![b] = new]
    BY DEF Go
  <1>. HIDE DEF new
  <1>3. /\ broker' \in [Brokers -> Locals] /\ broker'[b] = new
        /\ \A c \in Brokers \ {b} : broker'[c] = broker[c]
    BY <1>1, <1>2 DEF BrokersOK
  <1>4. PassOK(new, new.pc, clock)
    BY <1>1 DEF PassOK
  <1>. QED  BY <1>3, <1>4 DEF BrokersOK

\* So does a pass that ends or dies.
LEMMA StopOK ==
  ASSUME SpoolInv, NEW b \in Brokers, Stop(b), clock' = clock
  PROVE  BrokersOK'
  <1>1. IdleBroker \in Locals /\ IdleBroker.pc = "idle"
    BY IdleBrokerType DEF SpoolInv, RegistryTypeOK
  <1>2. /\ broker' \in [Brokers -> Locals] /\ broker'[b] = IdleBroker
        /\ \A c \in Brokers \ {b} : broker'[c] = broker[c]
    BY <1>1 DEF Stop, SpoolInv, BrokersOK
  <1>3. PassOK(IdleBroker, IdleBroker.pc, clock)
    BY <1>1 DEF PassOK, InPass, Syncing
  <1>. QED  BY <1>2, <1>3 DEF SpoolInv, BrokersOK

\* What the invariant says of a broker.
LEMMA BrokerFacts ==
  ASSUME SpoolInv, NEW b \in Brokers
  PROVE  /\ broker[b] \in Locals /\ PassOK(broker[b], broker[b].pc, clock)
         /\ broker[b].pc \in Steps /\ broker[b].paths \in SUBSET Requests
         /\ broker[b].cur \in SUBSET Requests /\ broker[b].reply \in Response
         /\ clock \in Nat \ {0}
  BY DEF SpoolInv, BrokersOK, Locals, RegistryTypeOK

\* A step of a request worker.
LEMMA RequesterOK ==
  ASSUME SpoolInv, NEW r \in Requests, RequesterStep(r)
  PROVE  FilesOK' /\ BrokersOK' /\ UNCHANGED regVars
  <1>1. UNCHANGED <<regVars, asked, broker, crashes>>
    BY DEF RequesterStep, RequesterLeaves, Ask, Poll, TimeOut, RemoveRequest, RemoveResponse, Killed
  <1>2. clock' = clock
    BY <1>1 DEF regVars
  <1>3. /\ clock \in Nat /\ DemandTTL \in Nat /\ requester[r] \in Worker
        /\ requester[r].deadline <= clock + DemandTTL
    BY ConfigAssumption DEF SpoolInv, RegistryTypeOK, FilesOK
  <1>4. /\ requestFiles' \subseteq Requests /\ responses' \in [Requests -> Response]
    <2>1. NoResponse \in Response
      BY <1>3, NoResponseType
    <2>. QED  BY <2>1 DEF RequesterStep, RequesterLeaves, Ask, Poll, TimeOut, RemoveRequest,
           RemoveResponse, Killed, WriteResponse, spoolVars, SpoolInv, FilesOK
  <1>5. \E q \in Worker : /\ requester' = [requester EXCEPT ![r] = q]
                          /\ q.deadline \in {requester[r].deadline, clock + DemandTTL}
    <2>1. CASE Ask(r)
      <3>1. PICK t \in Tiers : requester' = [requester EXCEPT ![r] =
              [requester[r] EXCEPT !.at = "waiting", !.tier = t, !.deadline = clock + DemandTTL]]
        BY <2>1 DEF Ask, PutRequester
      <3>. DEFINE q == [requester[r] EXCEPT !.at = "waiting", !.tier = t, !.deadline = clock + DemandTTL]
      <3>2. q \in Worker /\ q.deadline = clock + DemandTTL
        <4>1. clock + DemandTTL \in Nat
          BY <1>3
        <4>. QED  BY <1>3, <4>1 DEF Worker
      <3>. QED  BY <3>1, <3>2
    <2>2. CASE Poll(r)
      <3>. DEFINE a   == responses[r]
                  got == IF a.state = "ready" /\ Acceptable(a) THEN a.service ELSE NoService
                  q   == [requester[r] EXCEPT !.at = "leaving", !.got = got]
      <3>1. requester' = [requester EXCEPT ![r] = q]
        BY <2>2 DEF Poll, PutRequester
      <3>2. got \in ServiceIds \cup {NoService}
        BY DEF SpoolInv, FilesOK, Response
      <3>. HIDE DEF got
      <3>3. q \in Worker /\ q.deadline = requester[r].deadline
        BY <1>3, <3>2 DEF Worker
      <3>. QED  BY <3>1, <3>3
    <2>3. CASE TimeOut(r) \/ RemoveRequest(r) \/ RemoveResponse(r) \/ Killed(r)
      <3>1. PICK at \in {"leaving", "removing", "gone"} :
              requester' = [requester EXCEPT ![r] = [requester[r] EXCEPT !.at = at]]
        BY <2>3 DEF TimeOut, RemoveRequest, RemoveResponse, Killed, PutRequester
      <3>. DEFINE q == [requester[r] EXCEPT !.at = at]
      <3>2. q \in Worker /\ q.deadline = requester[r].deadline
        BY <1>3 DEF Worker
      <3>. QED  BY <3>1, <3>2
    <2>. QED  BY <2>1, <2>2, <2>3 DEF RequesterStep, RequesterLeaves
  <1>6. FilesOK'
    <2>1. requester' \in [Requests -> Worker]
      BY <1>5 DEF SpoolInv, FilesOK
    <2>2. \A s \in Requests : requester'[s].deadline <= clock + DemandTTL
      BY <1>3, <1>5 DEF SpoolInv, FilesOK
    <2>. QED  BY <1>1, <1>2, <1>4, <2>1, <2>2 DEF SpoolInv, FilesOK
  <1>7. BrokersOK'
    BY <1>1, <1>2 DEF SpoolInv, BrokersOK
  <1>. QED  BY <1>1, <1>6, <1>7

\* A request is read: the registry is asked, or the request fails.
LEMMA ImportOK ==
  ASSUME SpoolInv, NEW b \in Brokers, ImportRequest(b)
  PROVE  [RegistryNext]_regVars /\ FilesOK' /\ BrokersOK'
  <1>. DEFINE l == broker[b]
  <1>1. /\ l.pc = "import" /\ l \in Locals /\ l.paths \in SUBSET Requests /\ clock \in Nat
        /\ UNCHANGED <<spoolVars, requester, crashes>>
    BY BrokerFacts DEF ImportRequest
  <1>2. PICK r \in l.paths : LET q == requester[r] IN
     \/ /\ Go(b, [l EXCEPT !.paths = @ \ {r}], "import")
        /\ UNCHANGED <<regVars, asked>>
     \/ /\ Reply(b, l, r, Answer("failed", NoDemandId))
        /\ UNCHANGED <<regVars, asked>>
     \/ /\ Coalesces(q.tier)
        /\ LET d == Coalesced(q.tier) IN
             /\ Reply(b, l, r, Answer(demands[d].state, d))
             /\ asked' = [asked EXCEPT ![r] = @ \cup {d}]
        /\ UNCHANGED regVars
     \/ LET d == requested + 1 IN
        /\ q.deadline > clock /\ d \in DemandIds
        /\ RequestDemand(d, q.tier, q.deadline - clock)
        /\ Reply(b, l, r, Answer("pending", d))
        /\ asked' = [asked EXCEPT ![r] = @ \cup {d}]
    BY DEF ImportRequest
  <1>3. /\ r \in Requests /\ requester[r] \in Worker /\ requester[r].tier \in Tiers
        /\ requester[r].deadline \in Nat /\ requester[r].deadline <= clock + DemandTTL
    BY <1>1, <1>2 DEF SpoolInv, FilesOK, Worker
  <1>4. ASSUME NEW a \in Response, Reply(b, l, r, a), clock' = clock PROVE BrokersOK'
    <2>. DEFINE new == [l EXCEPT !.cur = {r}, !.reply = a]
    <2>1. new \in Locals
      BY <1>1, <1>3, <1>4 DEF Locals
    <2>2. Go(b, new, "reply")
      BY <1>4 DEF Reply
    <2>3. PassOK(new, "reply", clock) /\ "reply" \in Steps
      BY DEF PassOK, InPass, Syncing, Steps
    <2>. HIDE DEF new
    <2>. QED  BY <1>4, <2>1, <2>2, <2>3, GoOK DEF SpoolInv
  <1>5. ASSUME UNCHANGED <<clock, asked>> PROVE FilesOK'
    BY <1>1, <1>5 DEF SpoolInv, FilesOK, spoolVars
  <1>6. ASSUME NEW d \in DemandIds, clock' = clock, asked' = [asked EXCEPT ![r] = @ \cup {d}]
        PROVE  FilesOK'
    <2>1. asked' \in [Requests -> SUBSET DemandIds]
      BY <1>3, <1>6 DEF SpoolInv, FilesOK
    <2>. QED  BY <1>1, <1>6, <2>1 DEF SpoolInv, FilesOK, spoolVars
  <1>7. CASE /\ Go(b, [l EXCEPT !.paths = @ \ {r}], "import")
             /\ UNCHANGED <<regVars, asked>>
    <2>. DEFINE new == [l EXCEPT !.paths = @ \ {r}]
    <2>1. new \in Locals
      BY <1>1 DEF Locals
    <2>2. PassOK(new, "import", clock) /\ "import" \in Steps /\ clock' = clock
      BY <1>7 DEF PassOK, InPass, Syncing, Steps, regVars
    <2>. HIDE DEF new
    <2>3. Go(b, new, "import")
      BY <1>7 DEF new
    <2>. QED  BY <1>5, <1>7, <2>1, <2>2, <2>3, GoOK DEF SpoolInv
  <1>8. CASE /\ Reply(b, l, r, Answer("failed", NoDemandId))
             /\ UNCHANGED <<regVars, asked>>
    <2>1. Answer("failed", NoDemandId) \in Response /\ clock' = clock
      BY <1>1, <1>8, AnswerType DEF regVars
    <2>. QED  BY <1>4, <1>5, <1>8, <2>1
  <1>9. CASE /\ Coalesces(requester[r].tier)
             /\ LET d == Coalesced(requester[r].tier) IN
                  /\ Reply(b, l, r, Answer(demands[d].state, d))
                  /\ asked' = [asked EXCEPT ![r] = @ \cup {d}]
             /\ UNCHANGED regVars
    <2>. DEFINE d == Coalesced(requester[r].tier)
    <2>1. d \in DemandIds /\ Open(demands[d])
      BY <1>3, <1>9, CoalescedType
    <2>. HIDE DEF d
    <2>2. Answer(demands[d].state, d) \in Response /\ clock' = clock
      BY <1>1, <1>9, <2>1, AnswerType DEF Open, regVars
    <2>. QED  BY <1>4, <1>6, <1>9, <2>1, <2>2 DEF d
  <1>10. CASE LET d == requested + 1 IN
              /\ requester[r].deadline > clock /\ d \in DemandIds
              /\ RequestDemand(d, requester[r].tier, requester[r].deadline - clock)
              /\ Reply(b, l, r, Answer("pending", d))
              /\ asked' = [asked EXCEPT ![r] = @ \cup {d}]
    <2>. DEFINE d == requested + 1
    <2>1. /\ d \in DemandIds /\ requester[r].deadline - clock \in 1 .. DemandTTL
      BY <1>1, <1>3, <1>10, ConfigAssumption
    <2>2. RegistryNext
      BY <1>3, <1>10, <2>1 DEF RegistryNext, DemandStep
    <2>3. Answer("pending", d) \in Response /\ clock' = clock
      BY <1>1, <1>10, <2>1, AnswerType DEF RequestDemand
    <2>. QED  BY <1>4, <1>6, <1>10, <2>1, <2>2, <2>3
  <1>. QED  BY <1>2, <1>7, <1>8, <1>9, <1>10

\* The calls that ask or change the registry between Import and Sync.
LEMMA PassCallsOK ==
  ASSUME SpoolInv, NEW b \in Brokers,
         \/ HandleRecord(b) \/ EndRecords(b) \/ HandleDemand(b) \/ EndPass(b)
  PROVE  [RegistryNext]_regVars /\ FilesOK' /\ BrokersOK'
  <1>1. UNCHANGED <<spoolVars, requester, asked, crashes>>
    BY DEF HandleRecord, EndRecords, HandleDemand, EndPass
  <1>2. ASSUME clock' = clock PROVE FilesOK'
    BY <1>1, <1>2 DEF SpoolInv, FilesOK, spoolVars
  <1>3. ASSUME clock' = clock, broker' = broker PROVE BrokersOK'
    BY <1>3 DEF SpoolInv, BrokersOK
  <1>4. "none" \in Categories /\ "service_failure" \in Categories
    BY DEF Categories
  <1>5. broker[b].pc \in InPass => broker[b].passNow \in 1 .. clock
    BY BrokerFacts DEF PassOK
  <1>6. CASE HandleRecord(b)
    <2>1. PICK id \in ServiceIds : FailDemandsForService(id, "service_failure") \/ Delete(id)
      BY <1>6 DEF HandleRecord
    <2>2. RegistryNext
      BY <1>4, <2>1 DEF RegistryNext, RecordStep
    <2>3. clock' = clock /\ broker' = broker
      BY <1>6, <2>1 DEF HandleRecord, FailDemandsForService, Delete, PutRecord, PutDemands
    <2>. QED  BY <1>2, <1>3, <2>2, <2>3
  <1>7. CASE EndRecords(b)
    <2>1. RegistryNext /\ clock' = clock
      BY <1>7 DEF EndRecords, RegistryNext, ExpireDemands, PutDemands
    <2>2. broker[b].pc = "records" /\ Go(b, broker[b], "demands")
      BY <1>7 DEF EndRecords
    <2>3. broker[b] \in Locals /\ PassOK(broker[b], "demands", clock) /\ "demands" \in Steps
      BY <1>5, <2>2, BrokerFacts DEF PassOK, InPass, Syncing, Steps
    <2>. QED  BY <1>2, <2>1, <2>2, <2>3, GoOK DEF SpoolInv
  <1>8. CASE HandleDemand(b)
    <2>1. broker[b].pc = "demands" /\ broker' = broker
      BY <1>8 DEF HandleDemand
    <2>2. broker[b].passNow \in 1 .. clock
      BY <1>5, <2>1 DEF InPass
    <2>3. \/ \E d \in DemandIds, id \in ServiceIds \cup {NoService},
                state \in {"launching", "ready", "failed"}, c \in Categories :
               UpdateDemand(d, state, id, c)
          \/ \E t \in Tiers : /\ issued < MaxServices
                              /\ Reserve(issued + 1, t, broker[b].passNow + StartupTimeout)
      BY <1>4, <1>8 DEF HandleDemand
    <2>4. RegistryNext
      <3>1. ASSUME NEW t \in Tiers, issued < MaxServices,
                   Reserve(issued + 1, t, broker[b].passNow + StartupTimeout)
            PROVE  RegistryNext
        <4>1. issued + 1 \in ServiceIds
          BY <3>1, BoundAssumption DEF SpoolInv, RegistryTypeOK, ServiceIds
        <4>2. RecordStep(issued + 1)
          BY <2>2, <3>1 DEF RecordStep
        <4>. QED  BY <4>1, <4>2 DEF RegistryNext
      <3>. QED  BY <2>3, <3>1 DEF RegistryNext, DemandStep
    <2>5. clock' = clock
      BY <2>3 DEF UpdateDemand, PutDemands, Reserve
    <2>. QED  BY <1>2, <1>3, <2>1, <2>4, <2>5
  <1>9. CASE EndPass(b)
    <2>1. broker[b].passNow \in 1 .. clock /\ PruneExpiredDemands(broker[b].passNow) /\ Stop(b)
      BY <1>5, <1>9 DEF EndPass, InPass
    <2>2. RegistryNext /\ clock' = clock
      BY <2>1 DEF RegistryNext, PruneExpiredDemands, PutDemands
    <2>. QED  BY <1>2, <2>1, <2>2, StopOK
  <1>. QED  BY <1>6, <1>7, <1>8, <1>9

\* The steps of a pass that leave the registry alone.
LEMMA QuietPassOK ==
  ASSUME SpoolInv, NEW b \in Brokers,
         \/ StartImport(b) \/ Respond(b) \/ Unspool(b) \/ EndImport(b) \/ StartSync(b)
         \/ ListFiles(b) \/ InspectResponse(b) \/ Sweep(b) \/ Rewrite(b) \/ Crash(b)
  PROVE  UNCHANGED regVars /\ FilesOK' /\ BrokersOK'
  <1>. DEFINE l == broker[b]
  <1>1. UNCHANGED <<regVars, requester, asked>>
    BY DEF StartImport, Respond, Unspool, EndImport, StartSync, ListFiles, InspectResponse,
           Sweep, Rewrite, Crash
  <1>2. clock' = clock /\ clock \in Nat \ {0} /\ l \in Locals /\ PassOK(l, l.pc, clock)
    BY <1>1, BrokerFacts DEF regVars
  <1>3. FilesOK'
    <2>1. NoResponse \in Response /\ l.reply \in Response
      BY <1>2, NoResponseType, BrokerFacts
    <2>2. responses' \in [Requests -> Response]
      BY <2>1 DEF StartImport, Respond, Unspool, EndImport, StartSync, ListFiles, InspectResponse,
           Sweep, Rewrite, Crash, WriteResponse, spoolVars, SpoolInv, FilesOK
    <2>3. requestFiles' \subseteq Requests
      BY DEF StartImport, Respond, Unspool, EndImport, StartSync, ListFiles, InspectResponse,
           Sweep, Rewrite, Crash, spoolVars, SpoolInv, FilesOK
    <2>4. crashes' = crashes \/ (crashes < MaxCrashes /\ crashes' = crashes + 1)
      BY DEF StartImport, Respond, Unspool, EndImport, StartSync, ListFiles,
           InspectResponse, Sweep, Rewrite, Crash
    <2>5. crashes \in 0 .. MaxCrashes
      BY DEF SpoolInv, FilesOK
    <2>6. crashes' \in 0 .. MaxCrashes
      BY <2>4, <2>5, SpoolAssumption
    <2>. QED  BY <1>1, <1>2, <2>2, <2>3, <2>6 DEF SpoolInv, FilesOK
  <1>4. \/ Stop(b)
        \/ \E new \in Locals, p \in Steps : Go(b, new, p) /\ PassOK(new, p, clock)
    <2>1. CASE StartImport(b)
      <3>. DEFINE new == [l EXCEPT !.paths = requestFiles]
      <3>1. new \in Locals
        BY <1>2 DEF Locals, SpoolInv, FilesOK
      <3>2. Go(b, new, "import")
        BY <2>1 DEF StartImport
      <3>. HIDE DEF new
      <3>. QED  BY <3>1, <3>2 DEF PassOK, InPass, Syncing, Steps
    <2>2. CASE Respond(b)
      <3>1. Go(b, l, "unspool")
        BY <2>2 DEF Respond
      <3>. QED  BY <1>2, <3>1 DEF PassOK, InPass, Syncing, Steps
    <2>3. CASE Unspool(b) \/ Sweep(b) \/ Rewrite(b)
      <3>. DEFINE new == [l EXCEPT !.paths = @ \ l.cur, !.cur = {}, !.reply = NoResponse]
      <3>1. NoResponse \in Response
        BY <1>2, NoResponseType
      <3>2. new \in Locals /\ new.passNow = l.passNow /\ new.now = l.now
        BY <1>2, <3>1 DEF Locals
      <3>3. \/ Go(b, new, "import")
            \/ l.pc \in Syncing /\ Go(b, new, "files")
        BY <2>3 DEF Unspool, Sweep, Rewrite, NextFile, Syncing
      <3>. HIDE DEF new
      <3>. QED  BY <1>2, <3>2, <3>3 DEF PassOK, InPass, Syncing, Steps
    <2>4. CASE EndImport(b)
      <3>. DEFINE new == [l EXCEPT !.passNow = clock]
      <3>1. new \in Locals /\ new.passNow = clock
        BY <1>2 DEF Locals
      <3>2. Go(b, new, "records")
        BY <2>4 DEF EndImport
      <3>. HIDE DEF new
      <3>. QED  BY <1>2, <3>1, <3>2 DEF PassOK, InPass, Syncing, Steps
    <2>5. CASE StartSync(b)
      <3>. DEFINE new == [l EXCEPT !.now = clock, !.listed = demands]
      <3>1. new \in Locals /\ new.now = clock /\ new.passNow = l.passNow
        BY <1>2 DEF Locals, SpoolInv, RegistryTypeOK
      <3>2. Go(b, new, "list") /\ l.pc = "demands"
        BY <2>5 DEF StartSync
      <3>. HIDE DEF new
      <3>. QED  BY <1>2, <3>1, <3>2 DEF PassOK, InPass, Syncing, Steps
    <2>6. CASE ListFiles(b)
      <3>. DEFINE paths == {r \in Requests : responses[r] # NoResponse}
                  new == [l EXCEPT !.snap = records, !.paths = paths]
      <3>0. paths \in SUBSET Requests
        OBVIOUS
      <3>1. Go(b, new, "files") /\ l.pc = "list"
        BY <2>6 DEF ListFiles
      <3>. HIDE DEF paths
      <3>2. new \in Locals /\ new.now = l.now /\ new.passNow = l.passNow
        BY <1>2, <3>0 DEF Locals, SpoolInv, RegistryTypeOK
      <3>. HIDE DEF new
      <3>. QED  BY <1>2, <3>1, <3>2 DEF PassOK, InPass, Syncing, Steps
    <2>7. CASE InspectResponse(b)
      <3>1. PICK r \in l.paths : LET a == responses[r] IN
              \/ Go(b, [l EXCEPT !.paths = @ \ {r}], "files")
              \/ Go(b, [l EXCEPT !.cur = {r}], "sweep")
              \/ Go(b, [l EXCEPT !.cur = {r}, !.reply = Refreshed(a, l)], "rewrite")
        BY <2>7 DEF InspectResponse
      <3>. DEFINE a     == responses[r]
                  reply == Refreshed(a, l)
                  pass  == [l EXCEPT !.paths = @ \ {r}]
                  sweep == [l EXCEPT !.cur = {r}]
                  write == [l EXCEPT !.cur = {r}, !.reply = reply]
      <3>2. r \in Requests /\ a \in Response /\ l.pc = "files"
        BY <1>2, <2>7, <3>1 DEF Locals, SpoolInv, FilesOK, InspectResponse
      <3>3. reply \in Response
        BY <1>2, <3>2, RefreshedType
      <3>4. Go(b, pass, "files") \/ Go(b, sweep, "sweep") \/ Go(b, write, "rewrite")
        BY <3>1
      <3>. HIDE DEF reply
      <3>5. /\ pass \in Locals /\ pass.now = l.now /\ pass.passNow = l.passNow
            /\ sweep \in Locals /\ sweep.now = l.now /\ sweep.passNow = l.passNow
            /\ write \in Locals /\ write.now = l.now /\ write.passNow = l.passNow
        BY <1>2, <3>2, <3>3 DEF Locals
      <3>. HIDE DEF pass, sweep, write
      <3>6. /\ PassOK(pass, "files", clock) /\ PassOK(sweep, "sweep", clock)
            /\ PassOK(write, "rewrite", clock) /\ {"files", "sweep", "rewrite"} \subseteq Steps
        BY <1>2, <3>2, <3>5 DEF PassOK, InPass, Syncing, Steps
      <3>. QED  BY <3>4, <3>5, <3>6
    <2>8. CASE Crash(b)
      BY <2>8 DEF Crash
    <2>. QED  BY <2>1, <2>2, <2>3, <2>4, <2>5, <2>6, <2>7, <2>8
  <1>5. BrokersOK'
    <2>1. CASE Stop(b)
      BY <1>2, <2>1, StopOK
    <2>2. CASE \E new \in Locals, p \in Steps : Go(b, new, p) /\ PassOK(new, p, clock)
      BY <1>2, <2>2, GoOK DEF SpoolInv
    <2>. QED  BY <1>4, <2>1, <2>2
  <1>. QED  BY <1>1, <1>3, <1>5

\* The launchers, and time.
LEMMA SurroundingsOK ==
  ASSUME SpoolInv, LauncherActs \/ TimePasses
  PROVE  RegistryNext /\ FilesOK' /\ BrokersOK'
  <1>1. UNCHANGED <<requestFiles, responses, requester, asked, broker, crashes>>
    BY DEF LauncherActs, TimePasses, spoolVars
  <1>2. RegistryNext
    BY DEF LauncherActs, TimePasses, RegistryNext, RecordStep
  <1>3. clock \in Nat \ {0} /\ DemandTTL \in Nat /\ clock' \in {clock, clock + 1}
    BY ConfigAssumption DEF LauncherActs, TimePasses, Tick, LauncherPublish, Renew, MarkUnhealthy,
       PutRecord, SpoolInv, RegistryTypeOK
  <1>4. FilesOK'
    <2>1. \A r \in Requests : requester[r].deadline \in Nat
      BY DEF SpoolInv, FilesOK, Worker
    <2>2. \A r \in Requests : requester[r].deadline <= clock' + DemandTTL
      BY <1>3, <2>1 DEF SpoolInv, FilesOK
    <2>. QED  BY <1>1, <2>2 DEF SpoolInv, FilesOK
  <1>5. BrokersOK'
    <2>1. \A b \in Brokers : PassOK(broker[b], broker[b].pc, clock')
      BY <1>3, BrokerFacts DEF PassOK
    <2>. QED  BY <1>1, <2>1 DEF SpoolInv, BrokersOK
  <1>. QED  BY <1>2, <1>4, <1>5

\* Every step keeps the types, and uses the registry as its contract allows.
LEMMA NextOK ==
  ASSUME SpoolInv, [Next]_vars
  PROVE  [RegistryNext]_regVars /\ SpoolInv'
  <1>1. [RegistryNext]_regVars /\ FilesOK' /\ BrokersOK'
    <2>1. CASE UNCHANGED vars
      BY <2>1 DEF vars, regVars, SpoolInv, FilesOK, BrokersOK
    <2>2. CASE Next
      BY <2>2, RequesterOK, ImportOK, PassCallsOK, QuietPassOK, SurroundingsOK
      DEF Next, BrokerStep, PassStep
    <2>. QED  BY <2>1, <2>2
  <1>2. RegistryTypeOK' /\ FreshDemands'
    BY <1>1, NextRegistryType, FreshDemandsKept DEF SpoolInv
  <1>. QED  BY <1>1, <1>2 DEF SpoolInv

\* The spool starts empty, with idle brokers.
LEMMA InitOK == Init => RegistryInit /\ SpoolInv
  <1>. SUFFICES ASSUME Init PROVE RegistryInit /\ SpoolInv
    OBVIOUS
  <1>1. RegistryInit /\ RegistryTypeOK
    BY InitLeaseInv DEF Init, LeaseInv
  <1>2. clock \in Nat \ {0} /\ DemandTTL \in Nat
    BY <1>1, ConfigAssumption DEF RegistryTypeOK
  <1>3. NewRequester \in Worker /\ NewRequester.deadline = 0
    BY ConfigAssumption DEF NewRequester, Worker, ZeroTime, NoService
  <1>4. FilesOK
    BY <1>2, <1>3, NoResponseType, SpoolAssumption DEF Init, FilesOK
  <1>5. IdleBroker \in Locals /\ IdleBroker.pc = "idle"
    BY <1>2, IdleBrokerType
  <1>6. BrokersOK
    BY <1>5 DEF Init, BrokersOK, PassOK, InPass, Syncing
  <1>7. FreshDemands
    BY DEF Init, RegistryInit, NoDemand, FreshDemands
  <1>. QED  BY <1>1, <1>4, <1>6, <1>7 DEF SpoolInv

\* What every request, response and pass holds, for any number of each.
THEOREM SpoolInvariant == Spec => []SpoolInv
  BY InitOK, NextOK, PTL DEF Spec

\* SpoolTypeOK: registry, files, workers and passes hold what they can hold.
THEOREM SpoolTypeCorrect == Spec => []SpoolTypeOK
  <1>1. SpoolInv => SpoolTypeOK
    BY DEF SpoolInv, FilesOK, BrokersOK, SpoolTypeOK, Worker, Locals
  <1>. QED  BY <1>1, SpoolInvariant, PTL

\* The refinement: import, pass, launchers and time use the registry only as its
\* contract allows, with any number of brokers that die anywhere.
THEOREM SpoolImplementsRegistry == Spec => RegistrySpec
  <1>1. Init => RegistryInit
    BY InitOK
  <1>2. SpoolInv /\ [Next]_vars => [RegistryNext]_regVars
    BY NextOK
  <1>. QED  BY <1>1, <1>2, SpoolInvariant, PTL DEF Spec, RegistrySpec

-----------------------------------------------------------------------------
(* One broker: whose answer is in a file, and in the hand of the pass. *)

\* An answer that belongs to a request of this deadline that was given these
\* demands.  A request that is late, or that the registry failed, is answered
\* without a demand.
Belongs(a, deadline, given) ==
  IF a.demand = NoDemandId
  THEN ~Credentials(a) /\ deadline <= a.updated + DemandTTL
  ELSE a.demand \in given

\* A request that has not been made has no file and is not looked for.
UnaskedInv(b) ==
  \A r \in Requests :
    requester[r].at = "new" =>
      /\ r \notin requestFiles /\ responses[r] = NoResponse
      /\ r \notin broker[b].paths /\ r \notin broker[b].cur

\* The pass has one file in hand, and what it is about to write there is true.
InHandInv(b) ==
  LET l == broker[b] IN
  /\ \A r, q \in l.cur : r = q
  /\ l.pc \in {"reply", "rewrite"} =>
       \A r \in l.cur : /\ l.reply # NoResponse
                        /\ Belongs(l.reply, requester[r].deadline, asked[r])
  /\ l.pc = "reply" => ~Credentials(l.reply)
  /\ l.pc = "rewrite" /\ Credentials(l.reply) =>
       /\ l.reply.demand # NoDemandId
       /\ demands[l.reply.demand].state = "ready"
       /\ demands[l.reply.demand].service = l.reply.service

\* What is in the files, and which demands were given.
AnswersInv ==
  \A r \in Requests :
    /\ responses[r] = NoResponse \/ Belongs(responses[r], requester[r].deadline, asked[r])
    /\ asked[r] \subseteq 1 .. requested

ListedInv(b) == broker[b].pc \in Syncing => broker[b].listed = demands

AnswerInv(b) == SpoolInv /\ UnaskedInv(b) /\ InHandInv(b) /\ AnswersInv /\ ListedInv(b)

\* The worker's own deadline, or that of a demand it was given, has passed.
Over(r) ==
  \/ requester[r].deadline <= clock
  \/ \E d \in asked[r] : demands[d].deadline <= clock

\* A request that is waited for.
Kept(b, r) ==
  /\ broker[b].pc = "unspool" /\ r \in broker[b].cur => responses[r] # NoResponse
  /\ broker[b].pc = "sweep" /\ r \in broker[b].cur => Over(r)
  /\ Over(r) \/ r \in requestFiles \/ responses[r] # NoResponse

KeptInv(b) ==
  AnswerInv(b) /\ \A r \in Requests : requester[r].at = "waiting" => Kept(b, r)

\* A file is absent in the same way at every instant.
LEMMA NoResponseStays == NoResponse' = NoResponse
  <1>. DEFINE F(t) == [state |-> "absent", demand |-> NoDemandId, service |-> NoService,
                       lease |-> ZeroTime, heartbeat |-> ZeroTime, diagnostic |-> FALSE,
                       updated |-> t]
  <1>1. ASSUME NEW t, NEW u
        PROVE  [F(t) EXCEPT !.updated = ZeroTime] = [F(u) EXCEPT !.updated = ZeroTime]
    BY DEF NoDemandId, NoService, ZeroTime
  <1>2. /\ NoResponse = [F(clock) EXCEPT !.updated = ZeroTime]
        /\ NoResponse' = [F(clock') EXCEPT !.updated = ZeroTime]
    BY DEF NoResponse, Answer
  <1>. HIDE DEF F
  <1>. QED  BY <1>1, <1>2

\* An answer goes on belonging to a request that is given more demands.
LEMMA BelongsGrows ==
  ASSUME NEW a, NEW deadline, NEW S, NEW T, S \subseteq T, Belongs(a, deadline, S)
  PROVE  Belongs(a, deadline, T)
  BY DEF Belongs

\* Where a broker goes.
LEMMA GoFacts ==
  ASSUME SpoolInv, NEW b \in Brokers, NEW l \in Locals, NEW p \in Steps, Go(b, l, p)
  PROVE  /\ broker'[b].pc = p /\ broker'[b].paths = l.paths /\ broker'[b].cur = l.cur
         /\ broker'[b].reply = l.reply /\ broker'[b].listed = l.listed
  <1>. DEFINE new == [l EXCEPT !.pc = p]
  <1>1. /\ new.pc = p /\ new.paths = l.paths /\ new.cur = l.cur
        /\ new.reply = l.reply /\ new.listed = l.listed
    BY DEF Locals
  <1>2. broker' = [broker EXCEPT ![b] = new]
    BY DEF Go
  <1>. HIDE DEF new
  <1>. QED  BY <1>1, <1>2 DEF SpoolInv, BrokersOK

\* Where it goes when it has dealt with a file.
LEMMA NextFileFacts ==
  ASSUME SpoolInv, NEW b \in Brokers, NEW p \in Steps, NextFile(b, broker[b], p)
  PROVE  /\ broker'[b].pc = p /\ broker'[b].paths \subseteq broker[b].paths
         /\ broker'[b].cur = {} /\ broker'[b].listed = broker[b].listed
  <1>. DEFINE l   == broker[b]
              new == [l EXCEPT !.paths = @ \ l.cur, !.cur = {}, !.reply = NoResponse]
  <1>1. l \in Locals /\ NoResponse \in Response
    BY BrokerFacts, NoResponseType
  <1>2. new \in Locals /\ new.paths \subseteq l.paths /\ new.cur = {} /\ new.listed = l.listed
    BY <1>1 DEF Locals
  <1>3. Go(b, new, p)
    BY DEF NextFile
  <1>. HIDE DEF new
  <1>. QED  BY <1>2, <1>3, GoFacts

\* Where it is after the end of a pass.
LEMMA StopFacts ==
  ASSUME SpoolInv, NEW b \in Brokers, Stop(b)
  PROVE  broker'[b].pc = "idle" /\ broker'[b].paths = {} /\ broker'[b].cur = {}
  <1>1. /\ IdleBroker \in Locals /\ IdleBroker.pc = "idle"
        /\ IdleBroker.paths = {} /\ IdleBroker.cur = {}
    BY IdleBrokerType DEF SpoolInv, RegistryTypeOK
  <1>2. broker'[b] = IdleBroker
    BY DEF Stop, SpoolInv, BrokersOK
  <1>. QED  BY <1>1, <1>2

\* A worker moves alone.  It starts to wait with its request in the spool.
LEMMA RequesterMoves ==
  ASSUME SpoolInv, NEW r \in Requests, RequesterStep(r)
  PROVE  /\ UNCHANGED <<regVars, asked, broker, crashes>>
         /\ \A q \in Requests \ {r} :
              /\ requester'[q] = requester[q] /\ responses'[q] = responses[q]
              /\ q \in requestFiles' <=> q \in requestFiles
         /\ responses'[r] \in {responses[r], NoResponse}
         /\ \/ requester'[r].at = "waiting" /\ requester[r].at = "new" /\ r \in requestFiles'
            \/ /\ requester'[r].at \notin {"new", "waiting"}
               /\ requester'[r].deadline = requester[r].deadline
  <1>1. UNCHANGED <<regVars, asked, broker, crashes>>
    BY DEF RequesterStep, RequesterLeaves, Ask, Poll, TimeOut, RemoveRequest, RemoveResponse, Killed
  <1>2. /\ requester[r] \in Worker /\ requester \in [Requests -> Worker]
        /\ responses \in [Requests -> Response]
    BY DEF SpoolInv, FilesOK
  <1>3. /\ \A q \in Requests \ {r} :
             responses'[q] = responses[q] /\ (q \in requestFiles' <=> q \in requestFiles)
        /\ responses'[r] \in {responses[r], NoResponse}
    BY <1>2 DEF RequesterStep, RequesterLeaves, Ask, Poll, TimeOut, RemoveRequest, RemoveResponse,
       Killed, WriteResponse, spoolVars
  <1>4. CASE Ask(r)
    <2>1. PICK t \in Tiers : requester' = [requester EXCEPT ![r] =
            [requester[r] EXCEPT !.at = "waiting", !.tier = t, !.deadline = clock + DemandTTL]]
      BY <1>4 DEF Ask, PutRequester
    <2>. DEFINE q == [requester[r] EXCEPT !.at = "waiting", !.tier = t, !.deadline = clock + DemandTTL]
    <2>2. q.at = "waiting"
      BY <1>2 DEF Worker
    <2>3. requester' = [requester EXCEPT ![r] = q]
      BY <2>1
    <2>. HIDE DEF q
    <2>4. requester'[r].at = "waiting" /\ \A s \in Requests \ {r} : requester'[s] = requester[s]
      BY <1>2, <2>2, <2>3
    <2>5. requester[r].at = "new" /\ r \in requestFiles'
      BY <1>4 DEF Ask
    <2>. QED  BY <1>1, <1>3, <2>4, <2>5
  <1>5. CASE RequesterLeaves(r) \/ Killed(r)
    <2>1. PICK q : /\ requester' = [requester EXCEPT ![r] = q]
                   /\ q.at \in {"leaving", "removing", "gone"}
                   /\ q.deadline = requester[r].deadline
      <3>1. CASE Poll(r)
        <4>. DEFINE a   == responses[r]
                    got == IF a.state = "ready" /\ Acceptable(a) THEN a.service ELSE NoService
                    q   == [requester[r] EXCEPT !.at = "leaving", !.got = got]
        <4>1. requester' = [requester EXCEPT ![r] = q]
          BY <3>1 DEF Poll, PutRequester
        <4>. HIDE DEF got
        <4>2. q.at = "leaving" /\ q.deadline = requester[r].deadline
          BY <1>2 DEF Worker
        <4>. QED  BY <4>1, <4>2
      <3>2. CASE TimeOut(r) \/ RemoveRequest(r) \/ RemoveResponse(r) \/ Killed(r)
        <4>1. PICK at \in {"leaving", "removing", "gone"} :
                requester' = [requester EXCEPT ![r] = [requester[r] EXCEPT !.at = at]]
          BY <3>2 DEF TimeOut, RemoveRequest, RemoveResponse, Killed, PutRequester
        <4>. DEFINE q == [requester[r] EXCEPT !.at = at]
        <4>2. q.at = at /\ q.deadline = requester[r].deadline
          BY <1>2 DEF Worker
        <4>. QED  BY <4>1, <4>2
      <3>. QED  BY <1>5, <3>1, <3>2 DEF RequesterLeaves
    <2>2. requester'[r] = q /\ \A s \in Requests \ {r} : requester'[s] = requester[s]
      BY <1>2, <2>1
    <2>. QED  BY <1>1, <1>3, <2>1, <2>2
  <1>. QED  BY <1>4, <1>5 DEF RequesterStep

-----------------------------------------------------------------------------
(* One broker: every step keeps the answers with the requests they belong to. *)

\* What a step of the broker or of its surroundings may do to files and workers: it
\* writes or removes the file in hand, and looks for files that are there.
FilesMove(b) ==
  /\ requester' = requester /\ requestFiles' \subseteq requestFiles
  /\ \A r \in Requests :
       \/ responses'[r] = responses[r]
       \/ /\ r \in broker[b].cur
          /\ \/ responses'[r] = NoResponse
             \/ broker[b].pc \in {"reply", "rewrite"} /\ responses'[r] = broker[b].reply
  /\ \A r \in Requests :
       r \in broker'[b].paths \/ r \in broker'[b].cur =>
         \/ r \in broker[b].paths \/ r \in broker[b].cur
         \/ r \in requestFiles \/ responses[r] # NoResponse
  /\ \A r \in Requests : asked[r] \subseteq asked'[r] /\ asked'[r] \subseteq 1 .. requested'

\* Such a step leaves every file with an answer that belongs there.
LEMMA FilesMoveOK ==
  ASSUME NEW b \in Brokers, AnswerInv(b), FilesMove(b)
  PROVE  UnaskedInv(b)' /\ AnswersInv'
  <1>1. UnaskedInv(b)'
    <2>1. ASSUME NEW r \in Requests, requester'[r].at = "new"
          PROVE  /\ r \notin requestFiles' /\ responses'[r] = NoResponse'
                 /\ r \notin broker'[b].paths /\ r \notin broker'[b].cur
      <3>1. /\ r \notin requestFiles /\ responses[r] = NoResponse
            /\ r \notin broker[b].paths /\ r \notin broker[b].cur
        BY <2>1 DEF AnswerInv, UnaskedInv, FilesMove
      <3>. QED  BY <3>1, NoResponseStays DEF FilesMove
    <2>. QED  BY <2>1 DEF UnaskedInv
  <1>2. ASSUME NEW r \in Requests
        PROVE  \/ responses'[r] = NoResponse
               \/ Belongs(responses'[r], requester[r].deadline, asked[r])
    BY DEF FilesMove, AnswerInv, AnswersInv, InHandInv
  <1>3. ASSUME NEW r \in Requests
        PROVE  \/ responses'[r] = NoResponse'
               \/ Belongs(responses'[r], requester'[r].deadline, asked'[r])
    <2>1. requester'[r].deadline = requester[r].deadline /\ asked[r] \subseteq asked'[r]
      BY DEF FilesMove
    <2>. QED  BY <1>2, <2>1, NoResponseStays, BelongsGrows
  <1>4. AnswersInv'
    BY <1>3 DEF AnswersInv, FilesMove
  <1>. QED  BY <1>1, <1>4

\* The worker's step.
LEMMA RequesterAnswerOK ==
  ASSUME NEW b \in Brokers, AnswerInv(b), NEW r \in Requests, RequesterStep(r), SpoolInv'
  PROVE  AnswerInv(b)'
  <1>1. SpoolInv /\ UNCHANGED <<broker, asked, demands, requested>>
    BY RequesterMoves DEF AnswerInv, regVars
  <1>2. UnaskedInv(b)'
    <2>1. ASSUME NEW q \in Requests, requester'[q].at = "new"
          PROVE  /\ q \notin requestFiles' /\ responses'[q] = NoResponse'
                 /\ q \notin broker'[b].paths /\ q \notin broker'[b].cur
      <3>1. q # r /\ requester'[q] = requester[q] /\ responses'[q] = responses[q]
            /\ (q \in requestFiles' <=> q \in requestFiles)
        BY <1>1, <2>1, RequesterMoves
      <3>. QED  BY <1>1, <2>1, <3>1, NoResponseStays DEF AnswerInv, UnaskedInv
    <2>. QED  BY <2>1 DEF UnaskedInv
  <1>3. ASSUME NEW q \in Requests, responses[q] # NoResponse \/ q \in broker[b].cur
        PROVE  requester'[q].deadline = requester[q].deadline
    <2>1. requester[q].at # "new"
      BY <1>3 DEF AnswerInv, UnaskedInv
    <2>. QED  BY <1>1, <2>1, RequesterMoves
  <1>4. AnswersInv'
    <2>1. ASSUME NEW q \in Requests
          PROVE  \/ responses'[q] = NoResponse'
                 \/ Belongs(responses'[q], requester'[q].deadline, asked'[q])
      <3>1. CASE responses'[q] = NoResponse
        BY <3>1, NoResponseStays
      <3>2. CASE responses'[q] # NoResponse
        <4>1. responses'[q] = responses[q]
          BY <1>1, <3>2, RequesterMoves
        <4>. QED  BY <1>1, <1>3, <3>2, <4>1 DEF AnswerInv, AnswersInv
      <3>. QED  BY <3>1, <3>2
    <2>. QED  BY <1>1, <2>1 DEF AnswersInv, AnswerInv
  <1>5. InHandInv(b)'
    <2>1. broker'[b] = broker[b] /\ demands' = demands /\ asked' = asked
      BY <1>1
    <2>2. ASSUME NEW q \in broker[b].cur, broker[b].pc \in {"reply", "rewrite"}
          PROVE  /\ broker[b].reply # NoResponse'
                 /\ Belongs(broker[b].reply, requester'[q].deadline, asked[q])
      <3>1. requester'[q].deadline = requester[q].deadline
        BY <1>1, <1>3, BrokerFacts
      <3>. QED  BY <2>2, <3>1, NoResponseStays DEF AnswerInv, InHandInv
    <2>. QED  BY <2>1, <2>2 DEF AnswerInv, InHandInv
  <1>6. ListedInv(b)'
    BY <1>1 DEF AnswerInv, ListedInv
  <1>. QED  BY <1>2, <1>4, <1>5, <1>6 DEF AnswerInv

\* Launchers and time touch neither demands nor files, and the pass stands still.
\* So it does while it handles records and demands, with no file in hand to write.
LEMMA StandingAnswerOK ==
  ASSUME NEW b \in Brokers, AnswerInv(b), SpoolInv', [RegistryNext]_regVars,
         UNCHANGED <<requestFiles, responses, requester, asked, broker>>,
         demands' = demands \/ broker[b].pc \in {"records", "demands"}
  PROVE  AnswerInv(b)'
  <1>1. requested \in Nat /\ requested' \in Nat /\ requested <= requested'
    BY GivenStays DEF AnswerInv, SpoolInv, RegistryTypeOK
  <1>2. FilesMove(b)
    <2>1. ASSUME NEW r \in Requests
          PROVE  asked[r] \subseteq asked'[r] /\ asked'[r] \subseteq 1 .. requested'
      BY <1>1 DEF AnswerInv, AnswersInv
    <2>. QED  BY <2>1 DEF FilesMove
  <1>3. InHandInv(b)' /\ ListedInv(b)'
    BY NoResponseStays DEF AnswerInv, InHandInv, ListedInv, Syncing
  <1>. QED  BY <1>2, <1>3, FilesMoveOK DEF AnswerInv

\* A pass that is not about to write has nothing false in hand.
LEMMA NothingToWrite ==
  ASSUME NEW b \in Brokers, AnswerInv(b), broker'[b].pc \notin {"reply", "rewrite"},
         broker'[b].cur \subseteq broker[b].cur \/ \E r \in Requests : broker'[b].cur = {r}
  PROVE  InHandInv(b)'
  <1>1. \A r, q \in broker'[b].cur : r = q
    BY DEF AnswerInv, InHandInv
  <1>. QED  BY <1>1 DEF InHandInv

\* The part of FilesMove that steps without a new request share.
LEMMA SameWorkersMove ==
  ASSUME NEW b \in Brokers, AnswerInv(b), requested' \in Nat, requested <= requested',
         UNCHANGED <<requester, asked>>
  PROVE  /\ requester' = requester
         /\ \A r \in Requests : asked[r] \subseteq asked'[r] /\ asked'[r] \subseteq 1 .. requested'
  <1>1. requested \in Nat
    BY DEF AnswerInv, SpoolInv, RegistryTypeOK
  <1>. QED  BY <1>1 DEF AnswerInv, AnswersInv

\* A response is read: what is written later is about the same demand, and true.
LEMMA InspectAnswerOK ==
  ASSUME NEW b \in Brokers, AnswerInv(b), InspectResponse(b)
  PROVE  /\ InHandInv(b)'
         /\ broker'[b].pc \in {"files", "sweep", "rewrite"}
         /\ broker'[b].paths \subseteq broker[b].paths
         /\ broker'[b].cur \subseteq broker[b].cur \cup broker[b].paths
         /\ broker'[b].listed = broker[b].listed
         /\ broker'[b].pc = "sweep" => \A r \in broker'[b].cur :
              r \in Requests /\ responses[r] # NoResponse /\ Obsolete(responses[r], broker[b])
  <1>. DEFINE l == broker[b]
  <1>1. SpoolInv /\ l \in Locals /\ l.pc = "files" /\ l.paths \in SUBSET Requests
        /\ UNCHANGED <<regVars, spoolVars, requester, asked>>
    BY BrokerFacts DEF AnswerInv, InspectResponse
  <1>2. PICK r \in l.paths : LET a == responses[r] IN
          \/ Go(b, [l EXCEPT !.paths = @ \ {r}], "files")
          \/ a # NoResponse /\ Obsolete(a, l) /\ Go(b, [l EXCEPT !.cur = {r}], "sweep")
          \/ /\ a # NoResponse /\ ~Obsolete(a, l) /\ ~Settled(a, l)
             /\ Go(b, [l EXCEPT !.cur = {r}, !.reply = Refreshed(a, l)], "rewrite")
    BY DEF InspectResponse
  <1>. DEFINE a == responses[r]
  <1>3. r \in Requests /\ a \in Response /\ clock \in Nat
        /\ {"files", "sweep", "rewrite"} \subseteq Steps
    BY <1>1, <1>2 DEF SpoolInv, FilesOK, RegistryTypeOK, Steps
  <1>4. CASE Go(b, [l EXCEPT !.paths = @ \ {r}], "files")
    <2>. DEFINE new == [l EXCEPT !.paths = @ \ {r}]
    <2>1. new \in Locals /\ new.paths \subseteq l.paths /\ new.cur = l.cur
          /\ new.listed = l.listed
      BY <1>1 DEF Locals
    <2>2. Go(b, new, "files")
      BY <1>4
    <2>. HIDE DEF new
    <2>. QED  BY <1>1, <1>3, <2>1, <2>2, GoFacts, NothingToWrite
  <1>5. CASE a # NoResponse /\ Obsolete(a, l) /\ Go(b, [l EXCEPT !.cur = {r}], "sweep")
    <2>. DEFINE new == [l EXCEPT !.cur = {r}]
    <2>1. new \in Locals /\ new.paths = l.paths /\ new.cur = {r} /\ new.listed = l.listed
      BY <1>1, <1>3 DEF Locals
    <2>2. Go(b, new, "sweep")
      BY <1>5
    <2>. HIDE DEF new
    <2>. QED  BY <1>1, <1>2, <1>3, <1>5, <2>1, <2>2, GoFacts, NothingToWrite
  <1>6. CASE /\ a # NoResponse /\ ~Obsolete(a, l) /\ ~Settled(a, l)
             /\ Go(b, [l EXCEPT !.cur = {r}, !.reply = Refreshed(a, l)], "rewrite")
    <2>. DEFINE reply == Refreshed(a, l)
                new   == [l EXCEPT !.cur = {r}, !.reply = reply]
    <2>1. /\ reply \in Response /\ reply.demand = a.demand
          /\ Credentials(reply) => /\ DemandOf(a, l).state = "ready"
                                   /\ reply.service = DemandOf(a, l).service
      BY <1>1, <1>3, RefreshedType
    <2>2. a.demand # NoDemandId
      BY <1>6 DEF Settled, DemandOf
    <2>3. Belongs(reply, requester[r].deadline, asked[r])
      BY <1>3, <1>6, <2>1, <2>2 DEF AnswerInv, AnswersInv, Belongs
    <2>4. reply # NoResponse
      BY <1>3, <2>1, <2>2, NoResponseType
    <2>5. DemandOf(a, l) = demands[a.demand]
      BY <1>1, <2>2 DEF DemandOf, AnswerInv, ListedInv, Syncing
    <2>6. Go(b, new, "rewrite")
      BY <1>6
    <2>. HIDE DEF reply
    <2>7. /\ new \in Locals /\ new.paths = l.paths /\ new.cur = {r} /\ new.listed = l.listed
          /\ new.reply = reply
      BY <1>1, <1>3, <2>1 DEF Locals
    <2>. HIDE DEF new
    <2>8. /\ broker'[b].pc = "rewrite" /\ broker'[b].cur = {r} /\ broker'[b].reply = reply
          /\ broker'[b].paths = l.paths /\ broker'[b].listed = l.listed
      BY <1>1, <1>3, <2>6, <2>7, GoFacts
    <2>9. demands' = demands /\ requester' = requester /\ asked' = asked
      BY <1>1 DEF regVars
    <2>10. Credentials(reply) => /\ reply.demand # NoDemandId
                                 /\ demands[reply.demand].state = "ready"
                                 /\ demands[reply.demand].service = reply.service
      BY <2>1, <2>2, <2>5
    <2>11. InHandInv(b)'
      BY <2>3, <2>4, <2>8, <2>9, <2>10, NoResponseStays DEF InHandInv
    <2>. QED  BY <1>2, <2>8, <2>11
  <1>. QED  BY <1>2, <1>4, <1>5, <1>6

\* The steps of a pass that leave the registry alone.
LEMMA QuietAnswerOK ==
  ASSUME NEW b \in Brokers, AnswerInv(b), SpoolInv',
         \/ StartImport(b) \/ Respond(b) \/ Unspool(b) \/ EndImport(b) \/ StartSync(b)
         \/ ListFiles(b) \/ InspectResponse(b) \/ Sweep(b) \/ Rewrite(b) \/ Crash(b)
  PROVE  AnswerInv(b)'
  <1>. DEFINE l == broker[b]
  <1>1. UNCHANGED <<regVars, requester, asked>>
    BY DEF StartImport, Respond, Unspool, EndImport, StartSync, ListFiles, InspectResponse,
           Sweep, Rewrite, Crash
  <1>2. demands' = demands /\ requested' = requested /\ SpoolInv /\ l \in Locals
        /\ clock \in Nat /\ requested \in Nat
    BY <1>1, BrokerFacts DEF regVars, AnswerInv, SpoolInv, RegistryTypeOK
  <1>3. /\ requester' = requester
        /\ \A r \in Requests : asked[r] \subseteq asked'[r] /\ asked'[r] \subseteq 1 .. requested'
    BY <1>1, <1>2, SameWorkersMove
  <1>4. responses \in [Requests -> Response] /\ l.cur \in SUBSET Requests
        /\ l.paths \in SUBSET Requests /\ requestFiles \in SUBSET Requests
    BY <1>2, BrokerFacts DEF SpoolInv, FilesOK
  <1>5. CASE StartImport(b)
    <2>. DEFINE new == [l EXCEPT !.paths = requestFiles]
    <2>1. new \in Locals /\ new.paths = requestFiles /\ new.cur = l.cur
      BY <1>2, <1>4 DEF Locals
    <2>2. Go(b, new, "import") /\ "import" \in Steps
      BY <1>5 DEF StartImport, Steps
    <2>. HIDE DEF new
    <2>3. broker'[b].pc = "import" /\ broker'[b].paths = requestFiles /\ broker'[b].cur = l.cur
      BY <1>2, <2>1, <2>2, GoFacts
    <2>4. FilesMove(b)
      BY <1>3, <1>5, <2>3 DEF FilesMove, StartImport, spoolVars
    <2>5. InHandInv(b)' /\ ListedInv(b)'
      BY <2>3, NothingToWrite DEF ListedInv, Syncing
    <2>. QED  BY <2>4, <2>5, FilesMoveOK DEF AnswerInv
  <1>6. CASE Respond(b)
    <2>1. Go(b, l, "unspool") /\ "unspool" \in Steps
      BY <1>6 DEF Respond, Steps
    <2>2. broker'[b].pc = "unspool" /\ broker'[b].paths = l.paths /\ broker'[b].cur = l.cur
      BY <1>2, <2>1, GoFacts
    <2>3. FilesMove(b)
      BY <1>3, <1>4, <1>6, <2>2 DEF FilesMove, Respond, WriteResponse
    <2>4. InHandInv(b)' /\ ListedInv(b)'
      BY <2>2, NothingToWrite DEF ListedInv, Syncing
    <2>. QED  BY <2>3, <2>4, FilesMoveOK DEF AnswerInv
  <1>7. CASE Unspool(b)
    <2>1. NextFile(b, l, "import") /\ "import" \in Steps
      BY <1>7 DEF Unspool, Steps
    <2>2. broker'[b].pc = "import" /\ broker'[b].paths \subseteq l.paths /\ broker'[b].cur = {}
      BY <1>2, <2>1, NextFileFacts
    <2>3. FilesMove(b)
      BY <1>3, <1>4, <1>7, <2>2 DEF FilesMove, Unspool
    <2>4. InHandInv(b)' /\ ListedInv(b)'
      BY <2>2, NothingToWrite DEF ListedInv, Syncing
    <2>. QED  BY <2>3, <2>4, FilesMoveOK DEF AnswerInv
  <1>8. CASE EndImport(b)
    <2>. DEFINE new == [l EXCEPT !.passNow = clock]
    <2>1. new \in Locals /\ new.paths = l.paths /\ new.cur = l.cur
      BY <1>2 DEF Locals
    <2>2. Go(b, new, "records") /\ "records" \in Steps
      BY <1>8 DEF EndImport, Steps
    <2>. HIDE DEF new
    <2>3. broker'[b].pc = "records" /\ broker'[b].paths = l.paths /\ broker'[b].cur = l.cur
      BY <1>2, <2>1, <2>2, GoFacts
    <2>4. FilesMove(b)
      BY <1>3, <1>8, <2>3 DEF FilesMove, EndImport, spoolVars
    <2>5. InHandInv(b)' /\ ListedInv(b)'
      BY <2>3, NothingToWrite DEF ListedInv, Syncing
    <2>. QED  BY <2>4, <2>5, FilesMoveOK DEF AnswerInv
  <1>9. CASE StartSync(b)
    <2>. DEFINE new == [l EXCEPT !.now = clock, !.listed = demands]
    <2>1. new \in Locals /\ new.paths = l.paths /\ new.cur = l.cur /\ new.listed = demands
      BY <1>2 DEF Locals, SpoolInv, RegistryTypeOK
    <2>2. Go(b, new, "list") /\ "list" \in Steps
      BY <1>9 DEF StartSync, Steps
    <2>. HIDE DEF new
    <2>3. broker'[b].pc = "list" /\ broker'[b].paths = l.paths /\ broker'[b].cur = l.cur
          /\ broker'[b].listed = demands
      BY <1>2, <2>1, <2>2, GoFacts
    <2>4. FilesMove(b)
      BY <1>3, <1>9, <2>3 DEF FilesMove, StartSync, spoolVars
    <2>5. InHandInv(b)' /\ ListedInv(b)'
      BY <1>2, <2>3, NothingToWrite DEF ListedInv
    <2>. QED  BY <2>4, <2>5, FilesMoveOK DEF AnswerInv
  <1>10. CASE ListFiles(b)
    <2>. DEFINE paths == {r \in Requests : responses[r] # NoResponse}
                new   == [l EXCEPT !.snap = records, !.paths = paths]
    <2>1. Go(b, new, "files") /\ "files" \in Steps /\ l.pc = "list"
      BY <1>10 DEF ListFiles, Steps
    <2>2. paths \in SUBSET Requests /\ \A r \in paths : responses[r] # NoResponse
      OBVIOUS
    <2>. HIDE DEF paths
    <2>3. new \in Locals /\ new.paths = paths /\ new.cur = l.cur /\ new.listed = l.listed
      BY <1>2, <2>2 DEF Locals, SpoolInv, RegistryTypeOK
    <2>. HIDE DEF new
    <2>4. broker'[b].pc = "files" /\ broker'[b].paths = paths /\ broker'[b].cur = l.cur
          /\ broker'[b].listed = l.listed
      BY <1>2, <2>1, <2>3, GoFacts
    <2>5. FilesMove(b)
      BY <1>3, <1>10, <2>2, <2>4 DEF FilesMove, ListFiles, spoolVars
    <2>6. InHandInv(b)' /\ ListedInv(b)'
      BY <1>2, <2>1, <2>4, NothingToWrite DEF ListedInv, AnswerInv, Syncing
    <2>. QED  BY <2>5, <2>6, FilesMoveOK DEF AnswerInv
  <1>11. CASE InspectResponse(b)
    <2>1. FilesMove(b)
      BY <1>3, <1>11, InspectAnswerOK DEF FilesMove, InspectResponse, spoolVars
    <2>2. ListedInv(b)'
      BY <1>2, <1>11, InspectAnswerOK DEF ListedInv, AnswerInv, InspectResponse, Syncing
    <2>. QED  BY <1>11, <2>1, <2>2, FilesMoveOK, InspectAnswerOK DEF AnswerInv
  <1>12. CASE Sweep(b) \/ Rewrite(b)
    <2>1. NextFile(b, l, "files") /\ "files" \in Steps /\ l.pc \in Syncing
      BY <1>12 DEF Sweep, Rewrite, Steps, Syncing
    <2>2. broker'[b].pc = "files" /\ broker'[b].paths \subseteq l.paths /\ broker'[b].cur = {}
          /\ broker'[b].listed = l.listed
      BY <1>2, <2>1, NextFileFacts
    <2>3. FilesMove(b)
      BY <1>3, <1>4, <1>12, <2>2 DEF FilesMove, Sweep, Rewrite, WriteResponse
    <2>4. InHandInv(b)' /\ ListedInv(b)'
      BY <1>2, <2>1, <2>2, NothingToWrite DEF ListedInv, AnswerInv
    <2>. QED  BY <2>3, <2>4, FilesMoveOK DEF AnswerInv
  <1>13. CASE Crash(b)
    <2>1. broker'[b].pc = "idle" /\ broker'[b].paths = {} /\ broker'[b].cur = {}
      BY <1>2, <1>13, StopFacts DEF Crash
    <2>2. FilesMove(b)
      BY <1>3, <1>13, <2>1 DEF FilesMove, Crash, spoolVars
    <2>3. InHandInv(b)' /\ ListedInv(b)'
      BY <2>1, NothingToWrite DEF ListedInv, Syncing
    <2>. QED  BY <2>2, <2>3, FilesMoveOK DEF AnswerInv
  <1>. QED  BY <1>5, <1>6, <1>7, <1>8, <1>9, <1>10, <1>11, <1>12, <1>13

\* A request is read: its answer is about a demand that it has been given, or comes
\* when the worker's patience is not longer than the time a demand has.
LEMMA ImportAnswerOK ==
  ASSUME NEW b \in Brokers, AnswerInv(b), SpoolInv', ImportRequest(b)
  PROVE  AnswerInv(b)' /\ FilesMove(b) /\ broker'[b].pc \in {"import", "reply"}
         /\ UNCHANGED spoolVars
  <1>. DEFINE l == broker[b]
  <1>1. /\ SpoolInv /\ l.pc = "import" /\ l \in Locals /\ l.paths \in SUBSET Requests
        /\ clock \in Nat /\ requested \in 0 .. MaxDemands /\ MaxDemands \in Nat
        /\ UNCHANGED <<spoolVars, requester, crashes>>
    BY BrokerFacts, BoundAssumption DEF AnswerInv, SpoolInv, RegistryTypeOK, ImportRequest
  <1>2. PICK r \in l.paths : LET q == requester[r] IN
     \/ /\ Go(b, [l EXCEPT !.paths = @ \ {r}], "import")
        /\ UNCHANGED <<regVars, asked>>
     \/ /\ Reply(b, l, r, Answer("failed", NoDemandId))
        /\ UNCHANGED <<regVars, asked>>
     \/ /\ Coalesces(q.tier)
        /\ LET d == Coalesced(q.tier) IN
             /\ Reply(b, l, r, Answer(demands[d].state, d))
             /\ asked' = [asked EXCEPT ![r] = @ \cup {d}]
        /\ UNCHANGED regVars
     \/ LET d == requested + 1 IN
        /\ d \in DemandIds
        /\ RequestDemand(d, q.tier, q.deadline - clock)
        /\ Reply(b, l, r, Answer("pending", d))
        /\ asked' = [asked EXCEPT ![r] = @ \cup {d}]
    BY DEF ImportRequest
  <1>3. /\ r \in Requests /\ requester[r] \in Worker /\ requester[r].tier \in Tiers
        /\ requester[r].deadline <= clock + DemandTTL /\ asked \in [Requests -> SUBSET DemandIds]
    BY <1>1, <1>2 DEF SpoolInv, FilesOK, Worker
  <1>4. ASSUME NEW a \in Response, Reply(b, l, r, a)
        PROVE  /\ broker'[b].pc = "reply" /\ broker'[b].paths = l.paths
               /\ broker'[b].cur = {r} /\ broker'[b].reply = a
    <2>. DEFINE new == [l EXCEPT !.cur = {r}, !.reply = a]
    <2>1. new \in Locals /\ new.paths = l.paths /\ new.cur = {r} /\ new.reply = a
      BY <1>1, <1>3, <1>4 DEF Locals
    <2>2. Go(b, new, "reply") /\ "reply" \in Steps
      BY <1>4 DEF Reply, Steps
    <2>. HIDE DEF new
    <2>. QED  BY <1>1, <2>1, <2>2, GoFacts
  <1>5. ASSUME broker'[b].pc \in {"import", "reply"},
               \A q \in Requests : q \in broker'[b].paths \/ q \in broker'[b].cur =>
                                     q \in l.paths \/ q \in l.cur,
               \A q \in Requests : asked[q] \subseteq asked'[q] /\ asked'[q] \subseteq 1 .. requested'
        PROVE  FilesMove(b) /\ UnaskedInv(b)' /\ AnswersInv' /\ ListedInv(b)'
    <2>1. FilesMove(b)
      BY <1>1, <1>5 DEF FilesMove, spoolVars
    <2>2. ListedInv(b)'
      BY <1>5 DEF ListedInv, Syncing
    <2>. QED  BY <2>1, <2>2, FilesMoveOK
  <1>6. ASSUME UNCHANGED <<regVars, asked>>
        PROVE  \A q \in Requests : asked[q] \subseteq asked'[q] /\ asked'[q] \subseteq 1 .. requested'
    BY <1>6 DEF regVars, AnswerInv, AnswersInv
  <1>7. ASSUME NEW a \in Response, Reply(b, l, r, a), ~Credentials(a), a # NoResponse,
               Belongs(a, requester[r].deadline, asked'[r]),
               \A q \in Requests : asked[q] \subseteq asked'[q] /\ asked'[q] \subseteq 1 .. requested'
        PROVE  AnswerInv(b)' /\ FilesMove(b) /\ broker'[b].pc \in {"import", "reply"}
    <2>1. /\ broker'[b].pc = "reply" /\ broker'[b].paths = l.paths
          /\ broker'[b].cur = {r} /\ broker'[b].reply = a
      BY <1>4, <1>7
    <2>2. InHandInv(b)'
      BY <1>1, <1>7, <2>1, NoResponseStays DEF InHandInv
    <2>3. FilesMove(b) /\ UnaskedInv(b)' /\ AnswersInv' /\ ListedInv(b)'
      BY <1>2, <1>5, <1>7, <2>1
    <2>. QED  BY <2>1, <2>2, <2>3 DEF AnswerInv
  <1>8. CASE /\ Go(b, [l EXCEPT !.paths = @ \ {r}], "import")
             /\ UNCHANGED <<regVars, asked>>
    <2>. DEFINE new == [l EXCEPT !.paths = @ \ {r}]
    <2>1. new \in Locals /\ new.paths \subseteq l.paths /\ new.cur = l.cur
      BY <1>1 DEF Locals
    <2>2. Go(b, new, "import") /\ "import" \in Steps
      BY <1>8 DEF Steps
    <2>. HIDE DEF new
    <2>3. broker'[b].pc = "import" /\ broker'[b].paths \subseteq l.paths /\ broker'[b].cur = l.cur
      BY <1>1, <2>1, <2>2, GoFacts
    <2>4. InHandInv(b)'
      BY <2>3, NothingToWrite
    <2>5. FilesMove(b) /\ UnaskedInv(b)' /\ AnswersInv' /\ ListedInv(b)'
      BY <1>5, <1>6, <1>8, <2>3
    <2>. QED  BY <1>1, <2>3, <2>4, <2>5 DEF AnswerInv
  <1>9. CASE /\ Reply(b, l, r, Answer("failed", NoDemandId))
             /\ UNCHANGED <<regVars, asked>>
    <2>. DEFINE a == Answer("failed", NoDemandId)
    <2>1. /\ a \in Response /\ a.demand = NoDemandId /\ a.updated = clock
          /\ a.state = "failed" /\ ~Credentials(a)
      BY <1>1, AnswerType
    <2>2. Reply(b, l, r, a)
      BY <1>9
    <2>. HIDE DEF a
    <2>3. a # NoResponse /\ Belongs(a, requester[r].deadline, asked'[r])
      BY <1>1, <1>3, <2>1, NoResponseType DEF Belongs
    <2>. QED  BY <1>1, <1>6, <1>7, <1>9, <2>1, <2>2, <2>3
  <1>10. ASSUME NEW d \in DemandIds, NEW s \in {"pending", "launching"},
                Reply(b, l, r, Answer(s, d)), asked' = [asked EXCEPT ![r] = @ \cup {d}],
                requested' \in Nat, requested <= requested', d <= requested'
         PROVE  AnswerInv(b)' /\ FilesMove(b) /\ broker'[b].pc \in {"import", "reply"}
    <2>. DEFINE a == Answer(s, d)
    <2>1. /\ a \in Response /\ a.demand = d /\ a.state = s /\ ~Credentials(a)
      BY <1>1, <1>10, AnswerType
    <2>2. Reply(b, l, r, a)
      BY <1>10
    <2>. HIDE DEF a
    <2>3. asked'[r] = asked[r] \cup {d} /\ \A q \in Requests \ {r} : asked'[q] = asked[q]
      BY <1>3, <1>10
    <2>4. d # NoDemandId /\ d \in 1 .. requested' /\ 1 .. requested \subseteq 1 .. requested'
      BY <1>1, <1>10 DEF DemandIds, NoDemandId
    <2>5. \A q \in Requests : asked[q] \subseteq asked'[q] /\ asked'[q] \subseteq 1 .. requested'
      BY <2>3, <2>4 DEF AnswerInv, AnswersInv
    <2>6. a # NoResponse /\ Belongs(a, requester[r].deadline, asked'[r])
      BY <1>1, <2>1, <2>3, <2>4, NoResponseType DEF Belongs
    <2>. QED  BY <1>7, <2>1, <2>2, <2>5, <2>6
  <1>11. CASE /\ Coalesces(requester[r].tier)
              /\ LET d == Coalesced(requester[r].tier) IN
                   /\ Reply(b, l, r, Answer(demands[d].state, d))
                   /\ asked' = [asked EXCEPT ![r] = @ \cup {d}]
              /\ UNCHANGED regVars
    <2>. DEFINE d == Coalesced(requester[r].tier)
    <2>1. d \in DemandIds /\ Open(demands[d])
      BY <1>3, <1>11, CoalescedType
    <2>. HIDE DEF d
    <2>2. demands[d].state \in {"pending", "launching"}
      BY <2>1 DEF Open
    <2>3. d <= requested
      BY <1>1, <2>1, <2>2 DEF SpoolInv, FreshDemands, DemandIds
    <2>4. requested' \in Nat /\ requested <= requested' /\ d <= requested'
      BY <1>1, <1>11, <2>1, <2>3 DEF regVars, DemandIds
    <2>5. /\ Reply(b, l, r, Answer(demands[d].state, d))
          /\ asked' = [asked EXCEPT ![r] = @ \cup {d}]
      BY <1>11 DEF d
    <2>. QED  BY <1>1, <1>10, <2>1, <2>2, <2>4, <2>5
  <1>12. CASE LET d == requested + 1 IN
              /\ d \in DemandIds
              /\ RequestDemand(d, requester[r].tier, requester[r].deadline - clock)
              /\ Reply(b, l, r, Answer("pending", d))
              /\ asked' = [asked EXCEPT ![r] = @ \cup {d}]
    <2>. DEFINE d == requested + 1
    <2>1. requested' = d
      BY <1>12 DEF RequestDemand
    <2>2. requested' \in Nat /\ requested <= requested' /\ d <= requested'
      BY <1>1, <2>1
    <2>3. /\ d \in DemandIds /\ Reply(b, l, r, Answer("pending", d))
          /\ asked' = [asked EXCEPT ![r] = @ \cup {d}]
      BY <1>12
    <2>. HIDE DEF d
    <2>. QED  BY <1>1, <1>10, <2>2, <2>3
  <1>. QED  BY <1>1, <1>2, <1>8, <1>9, <1>11, <1>12

\* The calls between Import and Sync, which have no file in hand to write, and the
\* surroundings of the broker.
LEMMA CallsAnswerOK ==
  ASSUME NEW b \in Brokers, AnswerInv(b), SpoolInv', [RegistryNext]_regVars,
         \/ HandleRecord(b) \/ EndRecords(b) \/ HandleDemand(b) \/ EndPass(b)
         \/ LauncherActs \/ TimePasses
  PROVE  /\ AnswerInv(b)'
         /\ UNCHANGED <<requestFiles, responses, requester, asked>>
         /\ broker' = broker \/ broker'[b].pc \in {"idle", "demands"}
  <1>1. SpoolInv /\ RegistryTypeOK /\ UNCHANGED <<requestFiles, responses, requester, asked>>
    BY DEF AnswerInv, SpoolInv, HandleRecord, EndRecords, HandleDemand, EndPass, LauncherActs,
           TimePasses, spoolVars
  <1>2. /\ requested \in Nat /\ requested' \in Nat /\ requested <= requested'
    BY <1>1, GivenStays DEF AnswerInv, SpoolInv, RegistryTypeOK
  <1>3. CASE HandleRecord(b) \/ HandleDemand(b) \/ LauncherActs \/ TimePasses
    <2>1. broker' = broker
      BY <1>3 DEF HandleRecord, HandleDemand, LauncherActs, TimePasses
    <2>2. demands' = demands \/ broker[b].pc \in {"records", "demands"}
      BY <1>3 DEF HandleRecord, HandleDemand, LauncherActs, TimePasses, Tick, LauncherPublish,
         Renew, MarkUnhealthy, PutRecord
    <2>. QED  BY <1>1, <2>1, <2>2, StandingAnswerOK
  <1>4. ASSUME broker'[b].pc \in {"idle", "demands"},
               broker'[b].paths \subseteq broker[b].paths, broker'[b].cur \subseteq broker[b].cur
        PROVE  AnswerInv(b)'
    <2>1. FilesMove(b)
      <3>1. \A r \in Requests : asked[r] \subseteq asked'[r] /\ asked'[r] \subseteq 1 .. requested'
        BY <1>1, <1>2, SameWorkersMove
      <3>. QED  BY <1>1, <1>4, <3>1 DEF FilesMove
    <2>2. InHandInv(b)' /\ ListedInv(b)'
      BY <1>4, NothingToWrite DEF ListedInv, Syncing
    <2>. QED  BY <2>1, <2>2, FilesMoveOK DEF AnswerInv
  <1>5. CASE EndRecords(b)
    <2>1. /\ Go(b, broker[b], "demands") /\ "demands" \in Steps
      BY <1>5 DEF EndRecords, Steps
    <2>2. /\ broker'[b].pc = "demands" /\ broker'[b].paths = broker[b].paths
          /\ broker'[b].cur = broker[b].cur
      BY <1>1, <2>1, BrokerFacts, GoFacts
    <2>. QED  BY <1>1, <1>4, <2>2
  <1>6. CASE EndPass(b)
    <2>1. broker'[b].pc = "idle" /\ broker'[b].paths = {} /\ broker'[b].cur = {}
      BY <1>1, <1>6, StopFacts DEF EndPass
    <2>. QED  BY <1>1, <1>4, <2>1
  <1>. QED  BY <1>3, <1>5, <1>6

\* Every step of the system with one broker keeps the answers where they belong.
LEMMA AnswerNext ==
  ASSUME NEW b, Brokers = {b}, AnswerInv(b), [Next]_vars
  PROVE  AnswerInv(b)'
  <1>1. b \in Brokers /\ SpoolInv
    BY DEF AnswerInv
  <1>2. SpoolInv' /\ [RegistryNext]_regVars
    BY <1>1, NextOK
  <1>3. CASE UNCHANGED vars
    <2>1. /\ UNCHANGED <<requestFiles, responses, requester, asked, broker>>
          /\ demands' = demands
      BY <1>3 DEF vars
    <2>. QED  BY <1>1, <1>2, <2>1, StandingAnswerOK
  <1>4. CASE Next
    <2>1. \/ ImportRequest(b)
          \/ HandleRecord(b) \/ EndRecords(b) \/ HandleDemand(b) \/ EndPass(b)
          \/ LauncherActs \/ TimePasses
          \/ \E r \in Requests : RequesterStep(r)
          \/ StartImport(b) \/ Respond(b) \/ Unspool(b) \/ EndImport(b) \/ StartSync(b)
          \/ ListFiles(b) \/ InspectResponse(b) \/ Sweep(b) \/ Rewrite(b) \/ Crash(b)
      BY <1>4 DEF Next, BrokerStep, PassStep
    <2>2. CASE ImportRequest(b)
      BY <1>1, <1>2, <2>2, ImportAnswerOK
    <2>3. CASE \/ HandleRecord(b) \/ EndRecords(b) \/ HandleDemand(b) \/ EndPass(b)
               \/ LauncherActs \/ TimePasses
      BY <1>1, <1>2, <2>3, CallsAnswerOK
    <2>4. CASE \E r \in Requests : RequesterStep(r)
      BY <1>1, <1>2, <2>4, RequesterAnswerOK
    <2>5. CASE \/ StartImport(b) \/ Respond(b) \/ Unspool(b) \/ EndImport(b) \/ StartSync(b)
               \/ ListFiles(b) \/ InspectResponse(b) \/ Sweep(b) \/ Rewrite(b) \/ Crash(b)
      BY <1>1, <1>2, <2>5, QuietAnswerOK
    <2>. QED  BY <2>1, <2>2, <2>3, <2>4, <2>5
  <1>. QED  BY <1>3, <1>4

\* Nothing has been asked or answered at the start.
LEMMA AnswerInit ==
  ASSUME NEW b, Brokers = {b}, Init
  PROVE  AnswerInv(b)
  <1>1. SpoolInv /\ clock \in Nat
    BY InitOK DEF SpoolInv, RegistryTypeOK
  <1>2. /\ IdleBroker.pc = "idle" /\ IdleBroker.paths = {} /\ IdleBroker.cur = {}
        /\ broker[b] = IdleBroker
    BY <1>1, IdleBrokerType DEF Init
  <1>3. UnaskedInv(b) /\ InHandInv(b) /\ AnswersInv /\ ListedInv(b)
    BY <1>2 DEF Init, UnaskedInv, InHandInv, AnswersInv, ListedInv, Syncing
  <1>. QED  BY <1>1, <1>3 DEF AnswerInv

\* What a step may write: credentials of the service the request's demand is ready on.
TrueStep ==
  \A r \in Requests : LET a == responses'[r] IN
    Credentials(a) /\ a # responses[r]
    => /\ a.demand \in asked[r]
       /\ demands[a.demand].state = "ready"
       /\ demands[a.demand].service = a.service

\* Only Rewrite writes credentials: Respond has none, and no one else writes.
LEMMA WrittenIsTrue ==
  ASSUME NEW b, Brokers = {b}, AnswerInv(b), [Next]_vars
  PROVE  TrueStep
  <1>1. b \in Brokers /\ SpoolInv /\ ~Credentials(NoResponse)
        /\ responses \in [Requests -> Response] /\ broker[b].cur \in SUBSET Requests
    BY NoResponseType, BrokerFacts DEF AnswerInv, SpoolInv, FilesOK, RegistryTypeOK
  <1>2. CASE responses' = responses
    BY <1>2 DEF TrueStep
  <1>3. CASE \E r \in Requests : WriteResponse(r, NoResponse)
    BY <1>1, <1>3 DEF TrueStep, WriteResponse
  <1>4. CASE Respond(b)
    <2>1. PICK r \in broker[b].cur : WriteResponse(r, broker[b].reply)
      BY <1>4 DEF Respond
    <2>2. ~Credentials(broker[b].reply)
      BY <1>4 DEF Respond, AnswerInv, InHandInv
    <2>. QED  BY <1>1, <2>1, <2>2 DEF TrueStep, WriteResponse
  <1>5. CASE Rewrite(b)
    <2>. DEFINE a == broker[b].reply
    <2>1. PICK r \in broker[b].cur : WriteResponse(r, a)
      BY <1>5 DEF Rewrite
    <2>2. Belongs(a, requester[r].deadline, asked[r])
      BY <1>5, <2>1 DEF Rewrite, AnswerInv, InHandInv
    <2>3. Credentials(a) => /\ a.demand # NoDemandId
                            /\ demands[a.demand].state = "ready"
                            /\ demands[a.demand].service = a.service
      BY <1>5 DEF Rewrite, AnswerInv, InHandInv
    <2>4. Credentials(a) => a.demand \in asked[r]
      BY <2>2, <2>3 DEF Belongs
    <2>5. /\ \A q \in Requests \ {r} : responses'[q] = responses[q]
          /\ responses'[r] = a
      BY <1>1, <2>1 DEF WriteResponse
    <2>. HIDE DEF a
    <2>. QED  BY <2>3, <2>4, <2>5 DEF TrueStep
  <1>6. \/ responses' = responses
        \/ \E r \in Requests : WriteResponse(r, NoResponse)
        \/ Respond(b) \/ Rewrite(b)
    <2>1. CASE UNCHANGED vars
      BY <2>1 DEF vars
    <2>2. CASE BrokerStep(b)
      BY <1>1, <2>2 DEF BrokerStep, PassStep, StartImport, ImportRequest, Unspool, EndImport,
         EndRecords, StartSync, ListFiles, InspectResponse, Sweep, EndPass, HandleRecord,
         HandleDemand, Crash, spoolVars
    <2>3. CASE \E r \in Requests : RequesterStep(r)
      BY <2>3 DEF RequesterStep, RequesterLeaves, Ask, Poll, TimeOut, RemoveRequest,
         RemoveResponse, Killed, spoolVars
    <2>4. CASE LauncherActs \/ TimePasses
      BY <2>4 DEF LauncherActs, TimePasses, spoolVars
    <2>. QED  BY <2>1, <2>2, <2>3, <2>4 DEF Next
  <1>. QED  BY <1>2, <1>3, <1>4, <1>5, <1>6

\* AnswerIsTrue, with one broker: credentials are only ever written into the response
\* of a request whose own demand is ready on that service then, however many requests
\* and demands there are, and whoever dies when.
THEOREM AnswersAreTrue ==
  ASSUME NEW b, Brokers = {b}
  PROVE  Spec => AnswerIsTrue
  <1>1. Init => AnswerInv(b)
    BY AnswerInit
  <1>2. AnswerInv(b) /\ [Next]_vars => AnswerInv(b)'
    BY AnswerNext
  <1>3. AnswerInv(b) /\ [Next]_vars
        => [\A r \in Requests : LET a == responses'[r] IN
              Credentials(a) /\ a # responses[r]
              => /\ a.demand \in asked[r]
                 /\ demands[a.demand].state = "ready"
                 /\ demands[a.demand].service = a.service]_responses
    BY WrittenIsTrue DEF TrueStep
  <1>. QED  BY <1>1, <1>2, <1>3, PTL DEF Spec, AnswerIsTrue

-----------------------------------------------------------------------------
(* One broker: a request that is waited for stays in the spool. *)

\* A deadline that has passed stays passed.
LEMMA OverStays ==
  ASSUME SpoolInv, AnswersInv, [RegistryNext]_regVars, NEW r \in Requests,
         requester'[r].deadline = requester[r].deadline, asked[r] \subseteq asked'[r],
         SpoolInv', Over(r)
  PROVE  Over(r)'
  <1>1. /\ clock <= clock' /\ clock \in Nat /\ clock' \in Nat
        /\ \A d \in 1 .. requested : demands'[d].deadline <= demands[d].deadline
    BY GivenStays DEF SpoolInv, RegistryTypeOK
  <1>2. CASE requester[r].deadline <= clock
    <2>1. requester[r].deadline \in Nat
      BY DEF SpoolInv, FilesOK, Worker
    <2>2. requester'[r].deadline <= clock'
      BY <1>1, <1>2, <2>1
    <2>. QED  BY <2>2 DEF Over
  <1>3. ASSUME NEW d \in asked[r], demands[d].deadline <= clock PROVE Over(r)'
    <2>1. d \in 1 .. requested /\ d \in DemandIds /\ d \in asked'[r]
      BY DEF AnswersInv, SpoolInv, FilesOK
    <2>2. demands[d].deadline \in Nat /\ demands'[d].deadline \in Nat
      BY <2>1 DEF SpoolInv, RegistryTypeOK, Demand
    <2>3. demands'[d].deadline <= clock'
      BY <1>1, <1>3, <2>1, <2>2
    <2>. QED  BY <2>1, <2>3 DEF Over
  <1>. QED  BY <1>2, <1>3 DEF Over

\* What Sync removes is about a request whose time is over: the retention is no
\* shorter than the time a worker waits.
LEMMA ObsoleteIsOver ==
  ASSUME NEW b \in Brokers, AnswerInv(b), Retention >= DemandTTL, broker[b].pc \in Syncing,
         NEW r \in Requests, responses[r] # NoResponse, Obsolete(responses[r], broker[b])
  PROVE  Over(r)
  <1>. DEFINE a == responses[r]
              l == broker[b]
  <1>1. /\ SpoolInv /\ l.now \in 1 .. clock /\ clock \in Nat /\ l.listed = demands
        /\ a \in Response /\ demands \in [DemandIds -> Demand] /\ asked[r] \subseteq DemandIds
    BY BrokerFacts DEF AnswerInv, ListedInv, PassOK, SpoolInv, FilesOK, RegistryTypeOK
  <1>2. Belongs(a, requester[r].deadline, asked[r])
    BY DEF AnswerInv, AnswersInv
  <1>3. CASE a.demand = NoDemandId
    <2>1. l.now - a.updated >= Retention /\ requester[r].deadline <= a.updated + DemandTTL
      BY <1>2, <1>3 DEF Belongs, Obsolete, DemandOf
    <2>2. /\ a.updated \in Nat /\ requester[r].deadline \in Nat /\ DemandTTL \in Nat
          /\ Retention \in Nat
      BY <1>1, ConfigAssumption, SpoolAssumption DEF SpoolInv, FilesOK, Worker, Response
    <2>3. requester[r].deadline <= clock
      BY <1>1, <2>1, <2>2
    <2>. QED  BY <2>3 DEF Over
  <1>4. CASE a.demand # NoDemandId
    <2>. DEFINE d == demands[a.demand]
    <2>1. a.demand \in asked[r] /\ DemandOf(a, l) = d
      BY <1>1, <1>2, <1>4 DEF Belongs, DemandOf
    <2>2. d = NoDemand \/ d.deadline <= l.now
      BY <2>1 DEF Obsolete
    <2>3. NoDemand.deadline = 0 /\ d.deadline \in Nat
      BY <1>1, <2>1 DEF NoDemand, ZeroTime, Demand
    <2>4. d.deadline <= clock
      BY <1>1, <2>2, <2>3
    <2>. QED  BY <2>1, <2>4 DEF Over
  <1>. QED  BY <1>3, <1>4

\* What a step that leaves the workers alone may do to a request that is waited for.
KeptStep(b, r) ==
  /\ broker'[b].pc = "unspool" /\ r \in broker'[b].cur => responses'[r] # NoResponse
  /\ broker'[b].pc = "sweep" /\ r \in broker'[b].cur => Over(r)
  /\ r \in requestFiles => \/ r \in requestFiles'
                           \/ responses'[r] # NoResponse \/ Over(r)
  /\ responses[r] # NoResponse => responses'[r] # NoResponse \/ Over(r)

\* If it does no more, the request stays in the spool.
LEMMA KeptStepOK ==
  ASSUME NEW b \in Brokers, KeptInv(b), [RegistryNext]_regVars, SpoolInv',
         requester' = requester, \A r \in Requests : asked[r] \subseteq asked'[r],
         \A r \in Requests : requester[r].at = "waiting" => KeptStep(b, r)
  PROVE  \A r \in Requests : requester'[r].at = "waiting" => Kept(b, r)'
  <1>. SUFFICES ASSUME NEW r \in Requests, requester'[r].at = "waiting" PROVE Kept(b, r)'
    OBVIOUS
  <1>1. Kept(b, r) /\ KeptStep(b, r)
    BY DEF KeptInv
  <1>2. Over(r) => Over(r)'
    BY OverStays DEF KeptInv, AnswerInv
  <1>3. \/ Over(r)' \/ r \in requestFiles' \/ responses'[r] # NoResponse'
    BY <1>1, <1>2, NoResponseStays DEF Kept, KeptStep
  <1>4. broker'[b].pc = "unspool" /\ r \in broker'[b].cur => responses'[r] # NoResponse'
    BY <1>1, NoResponseStays DEF KeptStep
  <1>5. broker'[b].pc = "sweep" /\ r \in broker'[b].cur => Over(r)'
    BY <1>1, <1>2 DEF KeptStep
  <1>. QED  BY <1>3, <1>4, <1>5 DEF Kept

\* A worker's step.  One that starts to wait has just written its request.
LEMMA RequesterKept ==
  ASSUME NEW b \in Brokers, KeptInv(b), [RegistryNext]_regVars, SpoolInv',
         NEW r \in Requests, RequesterStep(r)
  PROVE  \A q \in Requests : requester'[q].at = "waiting" => Kept(b, q)'
  <1>. SUFFICES ASSUME NEW q \in Requests, requester'[q].at = "waiting" PROVE Kept(b, q)'
    OBVIOUS
  <1>1. /\ SpoolInv /\ AnswersInv /\ UnaskedInv(b) /\ UNCHANGED <<broker, asked>>
    BY RequesterMoves DEF KeptInv, AnswerInv
  <1>2. CASE q = r
    <2>1. requester[q].at = "new" /\ q \in requestFiles'
      BY <1>1, <1>2, RequesterMoves
    <2>2. q \notin broker'[b].cur
      BY <1>1, <2>1 DEF UnaskedInv
    <2>. QED  BY <2>1, <2>2 DEF Kept
  <1>3. CASE q # r
    <2>1. /\ requester'[q] = requester[q] /\ responses'[q] = responses[q]
          /\ q \in requestFiles' <=> q \in requestFiles
      BY <1>1, <1>3, RequesterMoves
    <2>2. Kept(b, q)
      BY <2>1 DEF KeptInv
    <2>3. Over(q) => Over(q)'
      BY <1>1, <2>1, OverStays
    <2>. QED  BY <1>1, <2>1, <2>2, <2>3, NoResponseStays DEF Kept
  <1>. QED  BY <1>2, <1>3

\* A step of the broker or of its surroundings.
LEMMA OthersKept ==
  ASSUME NEW b \in Brokers, KeptInv(b), Retention >= DemandTTL, AnswerInv(b)', [RegistryNext]_regVars,
         BrokerStep(b) \/ LauncherActs \/ TimePasses
  PROVE  /\ requester' = requester /\ \A r \in Requests : asked[r] \subseteq asked'[r]
         /\ \A r \in Requests : requester[r].at = "waiting" => KeptStep(b, r)
  <1>. DEFINE l == broker[b]
  <1>1. /\ SpoolInv /\ SpoolInv' /\ AnswerInv(b) /\ l \in Locals
        /\ responses \in [Requests -> Response] /\ l.cur \in SUBSET Requests
    BY BrokerFacts DEF KeptInv, AnswerInv, SpoolInv, FilesOK
  <1>2. requester' = requester
    BY DEF BrokerStep, PassStep, StartImport, ImportRequest, Respond, Unspool, EndImport,
       EndRecords, StartSync, ListFiles, InspectResponse, Sweep, Rewrite, EndPass, HandleRecord,
       HandleDemand, Crash, LauncherActs, TimePasses, spoolVars
  <1>3. \A r \in Requests : asked[r] \subseteq asked'[r]
    <2>1. CASE ImportRequest(b)
      BY <1>1, <2>1, ImportAnswerOK DEF FilesMove
    <2>2. CASE ~ImportRequest(b)
      <3>1. asked' = asked
        BY <2>2 DEF BrokerStep, PassStep, StartImport, Respond, Unspool, EndImport, EndRecords,
           StartSync, ListFiles, InspectResponse, Sweep, Rewrite, EndPass, HandleRecord,
           HandleDemand, Crash, LauncherActs, TimePasses, spoolVars
      <3>. QED  BY <3>1
    <2>. QED  BY <2>1, <2>2
  <1>4. ASSUME NEW r \in Requests, requester[r].at = "waiting" PROVE KeptStep(b, r)
    <2>1. Kept(b, r)
      BY <1>4 DEF KeptInv
    <2>2. ASSUME UNCHANGED <<requestFiles, responses>>,
                 broker' = broker \/ broker'[b].pc \notin {"unspool", "sweep"}
          PROVE  KeptStep(b, r)
      BY <2>1, <2>2 DEF KeptStep, Kept
    <2>3. CASE ImportRequest(b)
      BY <1>1, <2>2, <2>3, ImportAnswerOK DEF spoolVars
    <2>4. CASE \/ HandleRecord(b) \/ EndRecords(b) \/ HandleDemand(b) \/ EndPass(b)
               \/ LauncherActs \/ TimePasses
      BY <1>1, <2>2, <2>4, CallsAnswerOK
    <2>5. CASE StartImport(b)
      <3>1. broker'[b].pc = "import"
        <4>. DEFINE new == [l EXCEPT !.paths = requestFiles]
        <4>1. new \in Locals
          BY <1>1 DEF Locals, SpoolInv, FilesOK
        <4>2. Go(b, new, "import") /\ "import" \in Steps
          BY <2>5 DEF StartImport, Steps
        <4>. HIDE DEF new
        <4>. QED  BY <1>1, <4>1, <4>2, GoFacts
      <3>. QED  BY <2>2, <2>5, <3>1 DEF StartImport, spoolVars
    <2>6. CASE EndImport(b) \/ StartSync(b) \/ ListFiles(b)
      <3>1. broker'[b].pc \in {"records", "list", "files"}
        <4>1. PICK new \in Locals, p \in {"records", "list", "files"} : Go(b, new, p)
          <5>. DEFINE i == [l EXCEPT !.passNow = clock]
                      s == [l EXCEPT !.now = clock, !.listed = demands]
                      f == [l EXCEPT !.snap = records,
                                     !.paths = {q \in Requests : responses[q] # NoResponse}]
          <5>1. i \in Locals /\ s \in Locals /\ f \in Locals
            BY <1>1 DEF Locals, SpoolInv, RegistryTypeOK
          <5>2. Go(b, i, "records") \/ Go(b, s, "list") \/ Go(b, f, "files")
            BY <2>6 DEF EndImport, StartSync, ListFiles
          <5>. HIDE DEF i, s, f
          <5>. QED  BY <5>1, <5>2
        <4>. QED  BY <1>1, <4>1, GoFacts DEF Steps
      <3>. QED  BY <2>2, <2>6, <3>1 DEF EndImport, StartSync, ListFiles, spoolVars
    <2>7. CASE Crash(b)
      BY <1>1, <2>2, <2>7, StopFacts DEF Crash, spoolVars
    <2>8. CASE Respond(b)
      <3>1. broker'[b].pc = "unspool" /\ broker'[b].cur = l.cur /\ l.pc = "reply"
        BY <1>1, <2>8, GoFacts DEF Respond, Steps
      <3>2. PICK q \in l.cur : responses' = [responses EXCEPT ![q] = l.reply]
        BY <2>8 DEF Respond, WriteResponse
      <3>3. l.reply # NoResponse /\ (r \in l.cur => r = q)
        BY <1>1, <3>1, <3>2 DEF AnswerInv, InHandInv
      <3>4. requestFiles' = requestFiles
        BY <2>8 DEF Respond
      <3>. QED  BY <1>1, <3>1, <3>2, <3>3, <3>4 DEF KeptStep
    <2>9. CASE Unspool(b)
      <3>1. broker'[b].pc = "import" /\ l.pc = "unspool"
        BY <1>1, <2>9, NextFileFacts DEF Unspool, Steps
      <3>2. requestFiles' = requestFiles \ l.cur /\ responses' = responses
        BY <2>9 DEF Unspool
      <3>. QED  BY <2>1, <3>1, <3>2 DEF KeptStep, Kept
    <2>10. CASE InspectResponse(b)
      <3>1. broker'[b].pc \in {"files", "sweep", "rewrite"} /\ l.pc = "files"
            /\ UNCHANGED <<requestFiles, responses>>
        BY <1>1, <2>10, InspectAnswerOK DEF InspectResponse, spoolVars
      <3>2. broker'[b].pc = "sweep" /\ r \in broker'[b].cur => Over(r)
        BY <1>1, <2>10, <3>1, InspectAnswerOK, ObsoleteIsOver DEF Syncing
      <3>. QED  BY <3>1, <3>2 DEF KeptStep
    <2>11. CASE Sweep(b)
      <3>1. broker'[b].pc = "files" /\ l.pc = "sweep"
        BY <1>1, <2>11, NextFileFacts DEF Sweep, Steps
      <3>2. PICK q \in l.cur : responses' = [responses EXCEPT ![q] = NoResponse]
        BY <2>11 DEF Sweep, WriteResponse
      <3>3. requestFiles' = requestFiles
        BY <2>11 DEF Sweep
      <3>. QED  BY <1>1, <2>1, <3>1, <3>2, <3>3 DEF KeptStep, Kept
    <2>12. CASE Rewrite(b)
      <3>1. broker'[b].pc = "files" /\ l.pc = "rewrite"
        BY <1>1, <2>12, NextFileFacts DEF Rewrite, Steps
      <3>2. PICK q \in l.cur : responses' = [responses EXCEPT ![q] = l.reply]
        BY <2>12 DEF Rewrite, WriteResponse
      <3>3. l.reply # NoResponse
        BY <1>1, <3>1, <3>2 DEF AnswerInv, InHandInv
      <3>4. requestFiles' = requestFiles
        BY <2>12 DEF Rewrite
      <3>. QED  BY <1>1, <3>1, <3>2, <3>3, <3>4 DEF KeptStep
    <2>. QED  BY <2>3, <2>4, <2>5, <2>6, <2>7, <2>8, <2>9, <2>10, <2>11, <2>12
              DEF BrokerStep, PassStep
  <1>. QED  BY <1>2, <1>3, <1>4

\* Every step of the system with one broker keeps the requests that are waited for.
LEMMA KeptNext ==
  ASSUME NEW b, Brokers = {b}, Retention >= DemandTTL, KeptInv(b), [Next]_vars
  PROVE  KeptInv(b)'
  <1>1. /\ b \in Brokers /\ AnswerInv(b) /\ AnswerInv(b)'
        /\ SpoolInv' /\ [RegistryNext]_regVars
    BY AnswerNext, NextOK DEF KeptInv, AnswerInv
  <1>2. \A r \in Requests : requester'[r].at = "waiting" => Kept(b, r)'
    <2>1. CASE UNCHANGED vars
      <3>1. requester' = requester /\ UNCHANGED <<asked, requestFiles, responses, broker>>
        BY <2>1 DEF vars
      <3>2. \A r \in Requests : requester[r].at = "waiting" => KeptStep(b, r)
        BY <3>1 DEF KeptInv, Kept, KeptStep
      <3>. QED  BY <1>1, <3>1, <3>2, KeptStepOK
    <2>2. CASE BrokerStep(b) \/ LauncherActs \/ TimePasses
      <3>1. /\ requester' = requester /\ \A r \in Requests : asked[r] \subseteq asked'[r]
            /\ \A r \in Requests : requester[r].at = "waiting" => KeptStep(b, r)
        BY <1>1, <2>2, OthersKept
      <3>. QED  BY <1>1, <3>1, KeptStepOK
    <2>3. CASE \E r \in Requests : RequesterStep(r)
      BY <1>1, <2>3, RequesterKept
    <2>. QED  BY <2>1, <2>2, <2>3 DEF Next
  <1>. QED  BY <1>1, <1>2 DEF KeptInv

\* RequestIsNotLost, with one broker that keeps responses without a demand at least as
\* long as a worker waits: whatever dies when, a request that is waited for is in the
\* spool, as a request or as a response, until the demand it was given has expired.
THEOREM RequestsAreNotLost ==
  ASSUME NEW b, Brokers = {b}, Retention >= DemandTTL
  PROVE  Spec => []RequestIsNotLost
  <1>1. Init => KeptInv(b)
    BY AnswerInit DEF KeptInv, Init, NewRequester
  <1>2. KeptInv(b) /\ [Next]_vars => KeptInv(b)'
    BY KeptNext
  <1>3. KeptInv(b) => RequestIsNotLost
    <2>. SUFFICES ASSUME KeptInv(b), NEW r \in Requests, requester[r].at = "waiting",
                         requester[r].deadline > clock
                  PROVE  \/ r \in requestFiles
                         \/ responses[r] # NoResponse
                         \/ \E d \in asked[r] : demands[d].deadline <= clock
      BY DEF RequestIsNotLost
    <2>1. Kept(b, r) /\ requester[r].deadline \in Nat /\ clock \in Nat
      BY DEF KeptInv, AnswerInv, SpoolInv, FilesOK, RegistryTypeOK, Worker
    <2>. QED  BY <2>1 DEF Kept, Over
  <1>. QED  BY <1>1, <1>2, <1>3, PTL DEF Spec
=============================================================================
