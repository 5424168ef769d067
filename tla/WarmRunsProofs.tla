--------------------------- MODULE WarmRunsProofs ---------------------------
(***************************************************************************)
(* Proofs about warm inspection runs, for any number of runs, calls and    *)
(* daemons, cancellations and crashes.                                     *)
(***************************************************************************)
EXTENDS WarmRuns, FiniteSetTheorems, TLAPS

\* Where a daemon is while it has a request of its own.
Serving == {"begin", "work", "result", "complete", "cleanup", "unclaim"}
Free == {"new", "boot", "recover", "scan", "claim", "dead"}

\* Where a submission is before and after its request is in the spool.
Unqueued == {"ensure", "pidfile", "enqueue"}
Queued == {"pid", "marker", "create"}
Looking == {"refresh", "ingest", "cancel", "cancelled"}

Daemon == [pc : Serving \cup Free, todo : SUBSET Runs, cur : SUBSET Runs, raise : BOOLEAN]
Dir == [pid : Daemons \cup {NoPid}, marker : BOOLEAN, cancel : BOOLEAN, expired : BOOLEAN,
        result : Nat, heartbeat : Heartbeats]
JobRecord == [state : JobStates, result : BOOLEAN]
CallRecord == [pc : {"idle"} \cup Unqueued \cup Queued \cup Looking,
               op : {"submit", "lookup", "cancel"}, run : SUBSET Runs, rec : JobRecord,
               pid : Daemons \cup {NoPid}]

DaemonOK(d) ==
  /\ daemon[d].pc \in Free => daemon[d].cur = {}
  /\ daemon[d].pc \in Serving => \E r \in Runs : daemon[d].cur = {r}
  /\ daemon[d].pc = "complete" => \A r \in daemon[d].cur : dir[r].result > 0

\* Only a submission knows of a run that has no job yet.
CallOK(c) ==
  /\ me[c].pc = "idle" => me[c].run = {}
  /\ me[c].pc # "idle" => \E r \in Runs : me[c].run = {r}
  /\ me[c].pc \in Unqueued \cup Queued =>
       /\ "submit" \in Ops[c]
       /\ \A r \in me[c].run : /\ job[r].state = "none"
                               /\ \A b \in Callers \ {c} : r \notin me[b].run
  /\ me[c].pc \in Unqueued => me[c].run \cap (requests \cup claims) = {}
  /\ me[c].pc \in Looking =>
       /\ \A r \in me[c].run : job[r].state # "none"
       /\ me[c].rec.state # "none"
       /\ me[c].rec.state = "succeeded" => \A r \in me[c].run : dir[r].result > 0

RunOK(r) ==
  /\ dir[r].heartbeat = "completed" => dir[r].result > 0
  /\ job[r].state = "succeeded" => dir[r].result > 0

\* Holds with any number of callers and daemons, and whoever dies.
WarmInv ==
  /\ requests \subseteq Runs /\ claims \subseteq Runs \ requests
  /\ pidFile \in Daemons \cup {NoPid}
  /\ daemon \in [Daemons -> Daemon] /\ dir \in [Runs -> Dir]
  /\ job \in [Runs -> JobRecord] /\ me \in [Callers -> CallRecord]
  /\ \A d \in Daemons : DaemonOK(d)
  /\ \A c \in Callers : CallOK(c)
  /\ \A r \in Runs : RunOK(r)

\* With one caller that submits, no daemon is started while another is alive,
\* and what a daemon works on is claimed until it has an outcome.
Kept(r) == r \in requests \cup claims \/ Outcome(r)

OneDaemonInv(c) ==
  /\ \A d \in Daemons :
       Alive(d) => d = IF me[c].pc = "pidfile" THEN me[c].pid ELSE pidFile
  /\ me[c].pc = "pidfile" => me[c].pid \in Daemons
  /\ \A d \in Daemons : daemon[d].cur \subseteq claims
  /\ \A d \in Daemons :
       daemon[d].pc \in {"cleanup", "unclaim"} => \A r \in daemon[d].cur : Outcome(r)
  /\ me[c].pc \in Queued => \A r \in me[c].run : Kept(r)
  /\ \A r \in Runs : Submitted(r) => Kept(r)

-----------------------------------------------------------------------------
(* WarmInv is kept *)

\* The value for a run without a job is a job record.
LEMMA NoJobRecord == [state |-> "none", result |-> FALSE] \in JobRecord
  BY DEF JobRecord, JobStates

\* What a session without a call has in its locals.
LEMMA IdleFields ==
  /\ Idle \in CallRecord /\ Idle.pc = "idle" /\ Idle.run = {} /\ Idle.pid = NoPid
  /\ Idle.rec = [state |-> "none", result |-> FALSE]
  BY NoJobRecord DEF Idle, CallRecord

\* A daemon that has not started, or is dead, has no run.
LEMMA FreeFields ==
  /\ NotStarted \in Daemon /\ NotStarted.pc = "new" /\ NotStarted.cur = {}
  /\ Dead \in Daemon /\ Dead.pc = "dead" /\ Dead.cur = {}
  BY DEF NotStarted, Dead, Daemon, Free, Serving

\* What the invariant says of one daemon.
LEMMA DaemonFacts ==
  ASSUME WarmInv, NEW d \in Daemons
  PROVE  daemon[d] \in Daemon /\ DaemonOK(d)
  BY DEF WarmInv

\* What the invariant says of one call.
LEMMA CallFacts ==
  ASSUME WarmInv, NEW c \in Callers
  PROVE  me[c] \in CallRecord /\ CallOK(c)
  BY DEF WarmInv

\* The run a daemon serves, and the one a call is about.
LEMMA Served ==
  ASSUME WarmInv, NEW d \in Daemons, daemon[d].pc \in Serving
  PROVE  \E r \in Runs : daemon[d].cur = {r}
  BY DEF WarmInv, DaemonOK

\* A call under way is about one run.
LEMMA Called ==
  ASSUME WarmInv, NEW c \in Callers, me[c].pc # "idle"
  PROVE  \E r \in Runs : me[c].run = {r}
  BY DEF WarmInv, CallOK

\* A daemon that moves on with what it has.
LEMMA DaemonGoto ==
  ASSUME NEW d \in Daemons, daemon[d] \in Daemon, NEW pc \in Serving \cup Free
  PROVE  /\ Goto(d, pc) \in Daemon /\ Goto(d, pc).pc = pc /\ Goto(d, pc).cur = daemon[d].cur
         /\ Goto(d, pc).todo = daemon[d].todo /\ Goto(d, pc).raise = daemon[d].raise
  BY DEF Goto, Daemon

\* A step of a daemon writes results, or moves requests, and leaves the broker
\* alone.
LEMMA DaemonKeeps ==
  ASSUME WarmInv, NEW d \in Daemons, NEW new \in Daemon, Step(d, new),
         requests' \subseteq Runs, claims' \subseteq Runs \ requests',
         requests' \cup claims' \subseteq requests \cup claims,
         dir' \in [Runs -> Dir],
         \A r \in Runs : dir[r].result > 0 => dir'[r].result > 0,
         \A r \in Runs : dir'[r].heartbeat = "completed" => dir'[r].result > 0,
         new.pc \in Free => new.cur = {},
         new.pc \in Serving => \E r \in Runs : new.cur = {r},
         new.pc = "complete" => \A r \in new.cur : dir'[r].result > 0,
         UNCHANGED <<pidFile, job, me>>
  PROVE  WarmInv'
  <1>1. daemon' \in [Daemons -> Daemon] /\ daemon'[d] = new
        /\ \A e \in Daemons \ {d} : daemon'[e] = daemon[e]
    BY DEF Step, WarmInv
  <1>2. ASSUME NEW e \in Daemons PROVE DaemonOK(e)'
    <2>1. CASE e = d
      BY <1>1, <2>1 DEF DaemonOK
    <2>2. CASE e # d
      BY <1>1, <2>2, DaemonFacts DEF DaemonOK, Daemon
    <2>. QED  BY <2>1, <2>2
  <1>3. ASSUME NEW c \in Callers PROVE CallOK(c)'
    BY DEF WarmInv, CallOK, CallRecord
  <1>4. ASSUME NEW r \in Runs PROVE RunOK(r)'
    BY DEF WarmInv, RunOK
  <1>. QED  BY <1>1, <1>2, <1>3, <1>4 DEF WarmInv

\* A daemon that neither moves a request nor writes a file.
LEMMA DaemonMoves ==
  ASSUME WarmInv, NEW d \in Daemons, NEW new \in Daemon, Step(d, new),
         requests' = requests, claims' = claims, dir' = dir,
         new.pc \in Free => new.cur = {},
         new.pc \in Serving => \E r \in Runs : new.cur = {r},
         new.pc # "complete", UNCHANGED <<pidFile, job, me>>
  PROVE  WarmInv'
  <1>1. \A r \in Runs : dir[r].heartbeat = "completed" => dir[r].result > 0
    BY DEF WarmInv, RunOK
  <1>2. requests \subseteq Runs /\ claims \subseteq Runs \ requests /\ dir \in [Runs -> Dir]
    BY DEF WarmInv
  <1>. QED  BY <1>1, <1>2, DaemonKeeps

\* A daemon that changes the directory of the run it serves.
LEMMA DaemonWrites ==
  ASSUME WarmInv, NEW d \in Daemons, NEW r \in Runs, NEW new \in Daemon, Step(d, new),
         new.cur = {r}, new.pc \in Serving, NEW f \in Dir, dir' = [dir EXCEPT ![r] = f],
         f.result >= dir[r].result, f.heartbeat = "completed" => f.result > 0,
         new.pc = "complete" => f.result > 0,
         requests' = requests, claims' = claims, UNCHANGED <<pidFile, job, me>>
  PROVE  WarmInv'
  <1>1. /\ dir \in [Runs -> Dir] /\ dir' \in [Runs -> Dir] /\ dir'[r] = f
        /\ \A q \in Runs \ {r} : dir'[q] = dir[q]
    BY DEF WarmInv
  <1>2. \A q \in Runs : (dir[q].result > 0 => dir'[q].result > 0)
                     /\ (dir'[q].heartbeat = "completed" => dir'[q].result > 0)
    BY <1>1 DEF WarmInv, RunOK, Dir
  <1>3. requests \subseteq Runs /\ claims \subseteq Runs \ requests
    BY DEF WarmInv
  <1>4. new.pc \notin Free
    BY DEF Serving, Free
  <1>. QED  BY <1>1, <1>2, <1>3, <1>4, DaemonKeeps

\* Starting up, with the leftover claims, keeps the invariant.
LEMMA BootOK ==
  ASSUME WarmInv, NEW d \in Daemons, ListClaims(d) \/ Recover(d) \/ ListRequests(d)
  PROVE  WarmInv'
  <1>1. daemon[d] \in Daemon /\ DaemonOK(d)
    BY DaemonFacts
  <1>2. claims \subseteq Runs /\ requests \subseteq Runs /\ claims \subseteq Runs \ requests
    BY DEF WarmInv
  <1>3. CASE ListClaims(d)
    <2>. DEFINE new == [Goto(d, "recover") EXCEPT !.todo = claims]
    <2>1. daemon[d].cur = {} /\ "recover" \in Free /\ "recover" \notin Serving
      BY <1>1, <1>3 DEF ListClaims, On, DaemonOK, Free, Serving
    <2>2. new \in Daemon /\ new.pc = "recover" /\ new.cur = {}
      BY <1>1, <1>2, <2>1, DaemonGoto DEF Daemon
    <2>3. Step(d, new) /\ UNCHANGED <<requests, claims, dir, pidFile, job, me>>
      BY <1>3 DEF ListClaims, Files, DaemonOnly
    <2>. HIDE DEF new
    <2>. QED  BY <2>1, <2>2, <2>3, DaemonMoves
  <1>4. CASE ListRequests(d)
    <2>. DEFINE new == [Goto(d, "claim") EXCEPT !.todo = requests]
    <2>1. daemon[d].cur = {} /\ "claim" \in Free /\ "claim" \notin Serving
      BY <1>1, <1>4 DEF ListRequests, On, DaemonOK, Free, Serving
    <2>2. new \in Daemon /\ new.pc = "claim" /\ new.cur = {}
      BY <1>1, <1>2, <2>1, DaemonGoto DEF Daemon
    <2>3. Step(d, new) /\ UNCHANGED <<requests, claims, dir, pidFile, job, me>>
      BY <1>4 DEF ListRequests, Files, DaemonOnly
    <2>. HIDE DEF new
    <2>. QED  BY <2>1, <2>2, <2>3, DaemonMoves
  <1>5. CASE Recover(d)
    <2>1. /\ daemon[d].cur = {} /\ daemon[d].pc = "recover" /\ "recover" \in Free
          /\ "recover" \notin Serving /\ "scan" \in Free /\ "scan" \notin Serving
      BY <1>1, <1>5 DEF Recover, On, DaemonOK, Free, Serving
    <2>2. dir' = dir /\ UNCHANGED <<pidFile, job, me>>
      BY <1>5 DEF Recover, DaemonOnly
    <2>3. ASSUME NEW r \in daemon[d].todo, Step(d, [daemon[d] EXCEPT !.todo = @ \ {r}]),
                 claims' = claims \ {r},
                 requests' = IF r \in claims THEN requests \cup {r} ELSE requests
          PROVE  WarmInv'
      <3>. DEFINE new == [daemon[d] EXCEPT !.todo = @ \ {r}]
      <3>1. new \in Daemon /\ new.pc = "recover" /\ new.cur = {}
        BY <1>1, <2>1 DEF Daemon
      <3>2. /\ requests' \subseteq Runs /\ claims' \subseteq Runs \ requests'
            /\ requests' \cup claims' \subseteq requests \cup claims
        BY <1>2, <2>3
      <3>3. dir \in [Runs -> Dir] /\ \A q \in Runs : dir[q].heartbeat = "completed" => dir[q].result > 0
        BY DEF WarmInv, RunOK
      <3>4. Step(d, new)
        BY <2>3
      <3>. HIDE DEF new
      <3>. QED  BY <2>1, <2>2, <3>1, <3>2, <3>3, <3>4, DaemonKeeps
    <2>4. ASSUME Step(d, Goto(d, "scan")), Files PROVE WarmInv'
      <3>. DEFINE new == Goto(d, "scan")
      <3>1. new \in Daemon /\ new.pc = "scan" /\ new.cur = {}
        BY <1>1, <2>1, DaemonGoto
      <3>2. Step(d, new) /\ requests' = requests /\ claims' = claims
        BY <2>4 DEF Files
      <3>. HIDE DEF new
      <3>. QED  BY <2>1, <2>2, <3>1, <3>2, DaemonMoves
    <2>. QED  BY <1>5, <2>3, <2>4 DEF Recover
  <1>. QED  BY <1>3, <1>4, <1>5

\* Claiming a request keeps the invariant: of two names a request has one.
LEMMA ClaimOK ==
  ASSUME WarmInv, NEW d \in Daemons, Claim(d)
  PROVE  WarmInv'
  <1>1. /\ daemon[d] \in Daemon /\ daemon[d].pc = "claim" /\ daemon[d].cur = {}
        /\ "begin" \in Serving /\ "begin" \notin Free /\ "claim" \in Free /\ "claim" \notin Serving
        /\ "scan" \in Free /\ "scan" \notin Serving
    BY DaemonFacts DEF Claim, On, DaemonOK, Free, Serving
  <1>2. requests \subseteq Runs /\ claims \subseteq Runs \ requests
    BY DEF WarmInv
  <1>3. dir' = dir /\ UNCHANGED <<pidFile, job, me>>
    BY DEF Claim, DaemonOnly
  <1>4. ASSUME NEW r \in daemon[d].todo, r \in requests, requests' = requests \ {r},
               claims' = claims \cup {r},
               Step(d, [[daemon[d] EXCEPT !.todo = @ \ {r}] EXCEPT !.pc = "begin", !.cur = {r}])
        PROVE  WarmInv'
    <2>. DEFINE new == [[daemon[d] EXCEPT !.todo = @ \ {r}] EXCEPT !.pc = "begin", !.cur = {r}]
    <2>1. new \in Daemon /\ new.pc = "begin" /\ new.cur = {r} /\ r \in Runs
      BY <1>1, <1>2, <1>4 DEF Daemon
    <2>2. /\ requests' \subseteq Runs /\ claims' \subseteq Runs \ requests'
          /\ requests' \cup claims' \subseteq requests \cup claims
      BY <1>2, <1>4
    <2>3. dir \in [Runs -> Dir] /\ \A q \in Runs : dir[q].heartbeat = "completed" => dir[q].result > 0
      BY DEF WarmInv, RunOK
    <2>4. Step(d, new)
      BY <1>4
    <2>. HIDE DEF new
    <2>. QED  BY <1>1, <1>3, <2>1, <2>2, <2>3, <2>4, DaemonKeeps
  <1>5. ASSUME NEW r \in daemon[d].todo, Step(d, [daemon[d] EXCEPT !.todo = @ \ {r}]), Files
        PROVE  WarmInv'
    <2>. DEFINE new == [daemon[d] EXCEPT !.todo = @ \ {r}]
    <2>1. new \in Daemon /\ new.pc = "claim" /\ new.cur = {}
      BY <1>1 DEF Daemon
    <2>2. Step(d, new) /\ requests' = requests /\ claims' = claims
      BY <1>5 DEF Files
    <2>. HIDE DEF new
    <2>. QED  BY <1>1, <1>3, <2>1, <2>2, DaemonMoves
  <1>6. ASSUME Step(d, Goto(d, "scan")), Files PROVE WarmInv'
    <2>. DEFINE new == Goto(d, "scan")
    <2>1. new \in Daemon /\ new.pc = "scan" /\ new.cur = {}
      BY <1>1, DaemonGoto
    <2>2. Step(d, new) /\ requests' = requests /\ claims' = claims
      BY <1>6 DEF Files
    <2>. HIDE DEF new
    <2>. QED  BY <1>1, <1>3, <2>1, <2>2, DaemonMoves
  <1>. QED  BY <1>4, <1>5, <1>6 DEF Claim

\* Taking up a claimed run keeps the invariant.
LEMMA BeginOK ==
  ASSUME WarmInv, NEW d \in Daemons, Begin(d)
  PROVE  WarmInv'
  <1>1. daemon[d] \in Daemon /\ daemon[d].pc = "begin" /\ {"work", "unclaim"} \subseteq Serving
    BY DaemonFacts DEF Begin, On, Serving
  <1>2. PICK r \in Runs : daemon[d].cur = {r}
    BY <1>1, Served DEF Serving
  <1>3. UNCHANGED <<requests, claims, pidFile, job, me>>
    BY DEF Begin, Files, DaemonOnly
  <1>4. \/ Step(d, [Goto(d, "unclaim") EXCEPT !.raise = TRUE]) /\ dir' = dir
        \/ Step(d, Goto(d, "unclaim")) /\ dir' = [dir EXCEPT ![r].heartbeat = "cancelled",
                                                   ![r].cancel = FALSE, ![r].marker = FALSE]
        \/ Step(d, Goto(d, "work")) /\ dir' = dir
    BY <1>2 DEF Begin
  <1>5. CASE Step(d, [Goto(d, "unclaim") EXCEPT !.raise = TRUE]) /\ dir' = dir
    <2>. DEFINE new == [Goto(d, "unclaim") EXCEPT !.raise = TRUE]
    <2>1. Goto(d, "unclaim") \in Daemon /\ Goto(d, "unclaim").pc = "unclaim"
          /\ Goto(d, "unclaim").cur = {r}
      BY <1>1, <1>2, DaemonGoto
    <2>2. new \in Daemon /\ new.pc = "unclaim" /\ new.cur = {r}
      BY <2>1 DEF Daemon
    <2>3. Step(d, new) /\ new.pc \notin Free
      BY <1>5, <2>2 DEF Free
    <2>. HIDE DEF new
    <2>. QED  BY <1>3, <1>5, <2>2, <2>3, DaemonMoves
  <1>6. CASE Step(d, Goto(d, "unclaim")) /\ dir' = [dir EXCEPT ![r].heartbeat = "cancelled",
                                                     ![r].cancel = FALSE, ![r].marker = FALSE]
    <2>. DEFINE new == Goto(d, "unclaim")
                f == [dir[r] EXCEPT !.heartbeat = "cancelled", !.cancel = FALSE, !.marker = FALSE]
    <2>1. new \in Daemon /\ new.pc = "unclaim" /\ new.cur = {r}
      BY <1>1, <1>2, DaemonGoto
    <2>2. dir[r] \in Dir /\ dir \in [Runs -> Dir]
      BY DEF WarmInv
    <2>3. f \in Dir /\ f.result = dir[r].result /\ f.heartbeat = "cancelled"
      BY <2>2 DEF Dir, Heartbeats
    <2>4. dir' = [dir EXCEPT ![r] = f] /\ Step(d, new)
      BY <1>6, <2>2
    <2>5. dir[r].result \in Nat
      BY <2>2 DEF Dir
    <2>. HIDE DEF new, f
    <2>6. f.result >= dir[r].result /\ f.heartbeat # "completed" /\ new.pc # "complete"
      BY <2>1, <2>3, <2>5
    <2>7. new.pc \in Serving
      BY <1>1, <2>1
    <2>8. requests' = requests /\ claims' = claims /\ UNCHANGED <<pidFile, job, me>>
      BY <1>3
    <2>. QED  BY <2>1, <2>3, <2>4, <2>6, <2>7, <2>8, DaemonWrites
  <1>7. CASE Step(d, Goto(d, "work")) /\ dir' = dir
    <2>. DEFINE new == Goto(d, "work")
    <2>1. new \in Daemon /\ new.pc = "work" /\ new.cur = {r} /\ new.pc \notin Free
      BY <1>1, <1>2, DaemonGoto DEF Free
    <2>2. Step(d, new)
      BY <1>7
    <2>. HIDE DEF new
    <2>. QED  BY <1>3, <1>7, <2>1, <2>2, DaemonMoves
  <1>. QED  BY <1>4, <1>5, <1>6, <1>7

\* A step of an inspection: what it leaves in the directory of its run.
Inspects(d, r, f, new) ==
  /\ daemon[d].cur = {r} /\ new.cur = {r} /\ new.pc \in Serving /\ Step(d, new)
  /\ dir' = [dir EXCEPT ![r] = f] /\ f.result >= dir[r].result
  /\ f.heartbeat = "completed" => f.result > 0
  /\ new.pc = "complete" => f.result > 0
  /\ new.pc = "unclaim" => daemon[d].pc = "cleanup" /\ f.heartbeat = dir[r].heartbeat
  /\ new.pc = "cleanup" => f.result > 0 \/ f.heartbeat \in {"failed", "timed_out"}

\* Steps of an inspection that write into the directory of its run.
LEMMA InspectionWrites ==
  ASSUME WarmInv, NEW d \in Daemons,
         \/ Announce(d) \/ RuntimeLimit(d) \/ Raise(d) \/ ReleaseSlot(d) \/ WriteResult(d)
         \/ Complete(d) \/ Cleanup(d)
  PROVE  \E r \in Runs, f \in Dir, new \in Daemon : Inspects(d, r, f, new)
  <1>1. /\ daemon[d] \in Daemon /\ DaemonOK(d)
        /\ daemon[d].pc \in {"work", "result", "complete", "cleanup"}
        /\ {"work", "result", "complete", "cleanup", "unclaim"} \subseteq Serving
    BY DaemonFacts
    DEF Announce, RuntimeLimit, Raise, ReleaseSlot, WriteResult, Complete, Cleanup, On, Serving
  <1>2. PICK r \in Runs : daemon[d].cur = {r}
    BY <1>1, Served
  <1>3. /\ dir[r] \in Dir /\ dir \in [Runs -> Dir] /\ dir[r].result \in Nat
        /\ (dir[r].heartbeat = "completed" => dir[r].result > 0)
    BY DEF WarmInv, Dir, RunOK
  <1>4. daemon \in [Daemons -> Daemon]
    BY DEF WarmInv
  <1>5. CASE Announce(d)
    <2>. DEFINE f == [dir[r] EXCEPT !.heartbeat = "running"]
                new == daemon[d]
    <2>1. f \in Dir /\ f.result = dir[r].result /\ f.heartbeat = "running"
      BY <1>3 DEF Dir, Heartbeats
    <2>2. new \in Daemon /\ new.pc = "work" /\ new.cur = {r} /\ daemon[d].pc = "work"
      BY <1>1, <1>2, <1>5 DEF Announce, On
    <2>3. dir' = [dir EXCEPT ![r] = f] /\ Step(d, new)
      BY <1>2, <1>3, <1>4, <1>5 DEF Announce, Step
    <2>. HIDE DEF f, new
    <2>4. Inspects(d, r, f, new)
      BY <1>1, <1>2, <1>3, <2>1, <2>2, <2>3 DEF Inspects
    <2>. QED  BY <2>1, <2>2, <2>4
  <1>6. CASE RuntimeLimit(d)
    <2>. DEFINE f == [dir[r] EXCEPT !.heartbeat = "timed_out"]
                new == Goto(d, "cleanup")
    <2>1. f \in Dir /\ f.result = dir[r].result /\ f.heartbeat = "timed_out"
      BY <1>3 DEF Dir, Heartbeats
    <2>2. new \in Daemon /\ new.pc = "cleanup" /\ new.cur = {r} /\ daemon[d].pc = "work"
      BY <1>1, <1>2, <1>6, DaemonGoto DEF RuntimeLimit, On
    <2>3. dir' = [dir EXCEPT ![r] = f] /\ Step(d, new)
      BY <1>2, <1>3, <1>6 DEF RuntimeLimit
    <2>. HIDE DEF f, new
    <2>4. Inspects(d, r, f, new)
      BY <1>1, <1>2, <1>3, <2>1, <2>2, <2>3 DEF Inspects
    <2>. QED  BY <2>1, <2>2, <2>4
  <1>7. CASE Raise(d)
    <2>. DEFINE f == [dir[r] EXCEPT !.heartbeat = "failed"]
                new == [Goto(d, "cleanup") EXCEPT !.raise = TRUE]
    <2>1. f \in Dir /\ f.result = dir[r].result /\ f.heartbeat = "failed"
      BY <1>3 DEF Dir, Heartbeats
    <2>2. new \in Daemon /\ new.pc = "cleanup" /\ new.cur = {r} /\ daemon[d].pc = "work"
      BY <1>1, <1>2, <1>7, DaemonGoto DEF Raise, On, Daemon
    <2>3. dir' = [dir EXCEPT ![r] = f] /\ Step(d, new)
      BY <1>2, <1>3, <1>7 DEF Raise
    <2>. HIDE DEF f, new
    <2>4. Inspects(d, r, f, new)
      BY <1>1, <1>2, <1>3, <2>1, <2>2, <2>3 DEF Inspects
    <2>. QED  BY <2>1, <2>2, <2>4
  <1>8. CASE ReleaseSlot(d)
    <2>. DEFINE f == [dir[r] EXCEPT !.marker = FALSE]
                new == Goto(d, "result")
    <2>1. f \in Dir /\ f.result = dir[r].result /\ f.heartbeat = dir[r].heartbeat
      BY <1>3 DEF Dir
    <2>2. new \in Daemon /\ new.pc = "result" /\ new.cur = {r}
      BY <1>1, <1>2, DaemonGoto
    <2>3. dir' = [dir EXCEPT ![r] = f] /\ Step(d, new)
      BY <1>2, <1>3, <1>8 DEF ReleaseSlot
    <2>. HIDE DEF f, new
    <2>4. Inspects(d, r, f, new)
      BY <1>1, <1>2, <1>3, <2>1, <2>2, <2>3 DEF Inspects
    <2>. QED  BY <2>1, <2>2, <2>4
  <1>9. CASE WriteResult(d)
    <2>. DEFINE f == [dir[r] EXCEPT !.result = @ + 1]
                new == Goto(d, "complete")
    <2>1. f \in Dir /\ f.result = dir[r].result + 1 /\ f.heartbeat = dir[r].heartbeat
      BY <1>3 DEF Dir
    <2>2. new \in Daemon /\ new.pc = "complete" /\ new.cur = {r}
      BY <1>1, <1>2, DaemonGoto
    <2>3. dir' = [dir EXCEPT ![r] = f] /\ Step(d, new)
      BY <1>2, <1>3, <1>9 DEF WriteResult
    <2>. HIDE DEF f, new
    <2>4. Inspects(d, r, f, new)
      BY <1>1, <1>2, <1>3, <2>1, <2>2, <2>3 DEF Inspects
    <2>. QED  BY <2>1, <2>2, <2>4
  <1>10. CASE Complete(d)
    <2>. DEFINE f == [dir[r] EXCEPT !.heartbeat = "completed"]
                new == Goto(d, "cleanup")
    <2>1. f \in Dir /\ f.result = dir[r].result /\ f.heartbeat = "completed"
      BY <1>3 DEF Dir, Heartbeats
    <2>2. new \in Daemon /\ new.pc = "cleanup" /\ new.cur = {r} /\ daemon[d].pc = "complete"
      BY <1>1, <1>2, <1>10, DaemonGoto DEF Complete, On
    <2>3. dir' = [dir EXCEPT ![r] = f] /\ Step(d, new) /\ dir[r].result > 0
      BY <1>1, <1>2, <1>3, <1>10, <2>2 DEF Complete, DaemonOK
    <2>. HIDE DEF f, new
    <2>4. Inspects(d, r, f, new)
      BY <1>1, <1>2, <1>3, <2>1, <2>2, <2>3 DEF Inspects
    <2>. QED  BY <2>1, <2>2, <2>4
  <1>11. CASE Cleanup(d)
    <2>. DEFINE f == [dir[r] EXCEPT !.cancel = FALSE, !.marker = FALSE]
                new == Goto(d, "unclaim")
    <2>1. f \in Dir /\ f.result = dir[r].result /\ f.heartbeat = dir[r].heartbeat
      BY <1>3 DEF Dir
    <2>2. new \in Daemon /\ new.pc = "unclaim" /\ new.cur = {r} /\ daemon[d].pc = "cleanup"
      BY <1>1, <1>2, <1>11, DaemonGoto DEF Cleanup, On
    <2>3. dir' = [dir EXCEPT ![r] = f] /\ Step(d, new)
      BY <1>2, <1>3, <1>11 DEF Cleanup
    <2>. HIDE DEF f, new
    <2>4. Inspects(d, r, f, new)
      BY <1>1, <1>2, <1>3, <2>1, <2>2, <2>3 DEF Inspects
    <2>. QED  BY <2>1, <2>2, <2>4
  <1>. QED  BY <1>5, <1>6, <1>7, <1>8, <1>9, <1>10, <1>11

\* The steps of an inspection keep the invariant.
LEMMA InspectionOK ==
  ASSUME WarmInv, NEW d \in Daemons,
         \/ Announce(d) \/ RuntimeLimit(d) \/ Raise(d) \/ ReleaseSlot(d) \/ WriteResult(d)
         \/ Complete(d) \/ Cleanup(d)
  PROVE  WarmInv'
  <1>1. UNCHANGED <<requests, claims, pidFile, job, me>>
    BY DEF Announce, RuntimeLimit, Raise, ReleaseSlot, WriteResult, Complete, Cleanup, Files,
           DaemonOnly
  <1>2. PICK r \in Runs, f \in Dir, new \in Daemon : Inspects(d, r, f, new)
    BY InspectionWrites
  <1>. QED  BY <1>1, <1>2, DaemonWrites DEF Inspects

\* Removing the claim keeps the invariant.
LEMMA UnclaimOK ==
  ASSUME WarmInv, NEW d \in Daemons, Unclaim(d)
  PROVE  WarmInv'
  <1>1. daemon[d] \in Daemon /\ "claim" \in Free /\ "claim" \notin Serving /\ "dead" \notin Serving
    BY DaemonFacts DEF Free, Serving
  <1>. DEFINE next == [Goto(d, "claim") EXCEPT !.cur = {}]
  <1>2. next \in Daemon /\ next.pc = "claim" /\ next.cur = {}
    BY <1>1, DaemonGoto DEF Daemon
  <1>3. Step(d, Dead) \/ Step(d, next)
    BY DEF Unclaim
  <1>4. /\ requests \subseteq Runs /\ claims' \subseteq Runs \ requests /\ claims' \subseteq claims
        /\ UNCHANGED <<requests, dir, pidFile, job, me>>
    BY DEF Unclaim, DaemonOnly, WarmInv
  <1>5. dir \in [Runs -> Dir] /\ \A q \in Runs : dir[q].heartbeat = "completed" => dir[q].result > 0
    BY DEF WarmInv, RunOK
  <1>. HIDE DEF next
  <1>6. CASE Step(d, Dead)
    BY <1>1, <1>4, <1>5, <1>6, FreeFields, DaemonKeeps
  <1>7. CASE Step(d, next)
    BY <1>1, <1>2, <1>4, <1>5, <1>7, DaemonKeeps
  <1>. QED  BY <1>3, <1>6, <1>7

\* A daemon that dies keeps the invariant.
LEMMA DaemonDiesOK ==
  ASSUME WarmInv, NEW d \in Daemons, DaemonDies(d)
  PROVE  WarmInv'
  <1>1. Step(d, Dead) /\ UNCHANGED <<requests, claims, dir, pidFile, job, me>>
    BY DEF DaemonDies
  <1>2. "dead" \notin Serving
    BY DEF Serving
  <1>. QED  BY <1>1, <1>2, FreeFields, DaemonMoves

\* What a call takes to its next step, in the store and spool it leaves.
CallFits(c, new) ==
  /\ new.pc = "idle" => new.run = {}
  /\ new.pc # "idle" => \E r \in Runs : new.run = {r}
  /\ new.pc \in Unqueued \cup Queued =>
       /\ "submit" \in Ops[c]
       /\ \A r \in new.run : job'[r].state = "none"
  /\ new.pc \in Unqueued => new.run \cap (requests' \cup claims') = {}
  /\ new.pc \in Looking =>
       /\ \A r \in new.run : job'[r].state # "none"
       /\ new.rec.state # "none"
       /\ new.rec.state = "succeeded" => \A r \in new.run : dir'[r].result > 0

\* Nobody else knows of the run of a new call, unless it has a job.
Exclusive(c, new) ==
  \A b \in Callers \ {c} :
    /\ new.pc \in Unqueued \cup Queued => new.run \cap me[b].run = {}
    /\ me[b].pc \in Unqueued \cup Queued => new.run \cap me[b].run = {}

\* A call that stays with its run submits no run of another call.
LEMMA SameRunIsExclusive ==
  ASSUME WarmInv, NEW c \in Callers, NEW new, new.run = me[c].run,
         new.pc \in Unqueued \cup Queued => me[c].pc \in Unqueued \cup Queued
  PROVE  Exclusive(c, new)
  BY DEF WarmInv, CallOK, Exclusive

\* A session without a call fits.
LEMMA IdleFits ==
  ASSUME NEW c \in Callers
  PROVE  CallFits(c, Idle) /\ Exclusive(c, Idle)
  BY IdleFields DEF CallFits, Exclusive, Unqueued, Queued, Looking

\* A step of a call: only its own run gets another job record, and only its own
\* run becomes a request.
LEMMA CallKeeps ==
  ASSUME WarmInv, NEW c \in Callers, NEW new \in CallRecord, Call(c, new),
         CallFits(c, new), Exclusive(c, new),
         requests' \subseteq requests \cup me[c].run, claims' = claims,
         claims \cap requests' = {},
         pidFile' \in Daemons \cup {NoPid},
         daemon' \in [Daemons -> Daemon], \A d \in Daemons : DaemonOK(d)',
         dir' \in [Runs -> Dir],
         \A r \in Runs : dir'[r].result = dir[r].result /\ dir'[r].heartbeat = dir[r].heartbeat,
         job' \in [Runs -> JobRecord],
         \A r \in Runs : job'[r] = job[r] \/ (r \in me[c].run /\ job'[r].state # "none"),
         \A r \in Runs : job'[r].state = "succeeded" => dir[r].result > 0
  PROVE  WarmInv'
  <1>1. /\ me' \in [Callers -> CallRecord] /\ me'[c] = new
        /\ \A b \in Callers \ {c} : me'[b] = me[b]
    BY DEF WarmInv, Call
  <1>2. requests' \subseteq Runs /\ claims' \subseteq Runs \ requests'
    BY CallFacts DEF WarmInv, CallRecord
  <1>3. CallOK(c)'
    BY <1>1 DEF CallFits, Exclusive, CallOK
  <1>4. ASSUME NEW b \in Callers, b # c PROVE CallOK(b)'
    <2>1. me'[b] = me[b] /\ CallOK(b) /\ me[b] \in CallRecord
      BY <1>1, <1>4, CallFacts
    <2>2. me[b].pc \in Unqueued \cup Queued =>
            /\ me[b].run \cap me[c].run = {}
            /\ \A r \in me[b].run : job'[r] = job[r]
            /\ \A e \in Callers \ {b} : me[b].run \cap me'[e].run = {}
      BY <1>1, <1>4, <2>1 DEF CallOK, Exclusive, CallRecord
    <2>3. me[b].pc \in Unqueued => me[b].run \cap (requests' \cup claims') = {}
      BY <2>1, <2>2 DEF CallOK
    <2>4. me[b].pc \in Looking =>
            /\ \A r \in me[b].run : job'[r].state # "none"
            /\ me[b].rec.state # "none"
            /\ me[b].rec.state = "succeeded" => \A r \in me[b].run : dir'[r].result > 0
      BY <2>1 DEF CallOK, CallRecord
    <2>. QED  BY <2>1, <2>2, <2>3, <2>4 DEF CallOK
  <1>5. \A b \in Callers : CallOK(b)'
    BY <1>3, <1>4
  <1>6. ASSUME NEW r \in Runs PROVE RunOK(r)'
    BY DEF WarmInv, RunOK
  <1>. QED  BY <1>1, <1>2, <1>5, <1>6 DEF WarmInv

\* A call that leaves the daemons and the run directories alone.
LEMMA StillDaemons ==
  ASSUME WarmInv, daemon' = daemon, dir' \in [Runs -> Dir],
         \A r \in Runs : dir'[r].result = dir[r].result
  PROVE  daemon' \in [Daemons -> Daemon] /\ \A d \in Daemons : DaemonOK(d)'
  BY DEF WarmInv, DaemonOK, Daemon

\* What the invariant says of files and jobs alone.
LEMMA StillStore ==
  ASSUME WarmInv
  PROVE  /\ dir \in [Runs -> Dir] /\ job \in [Runs -> JobRecord]
         /\ pidFile \in Daemons \cup {NoPid} /\ requests \subseteq Runs
         /\ claims \cap requests = {}
         /\ \A r \in Runs : job[r].state = "succeeded" => dir[r].result > 0
  BY DEF WarmInv, RunOK

\* A call that does nothing but move on, and may set the pid file.
LEMMA CallMoves ==
  ASSUME WarmInv, NEW c \in Callers, NEW new \in CallRecord, Call(c, new),
         CallFits(c, new), Exclusive(c, new), pidFile' \in Daemons \cup {NoPid},
         UNCHANGED <<requests, claims, daemon, dir, job>>
  PROVE  WarmInv'
  BY CallKeeps, StillDaemons, StillStore

\* A call at its next step, with what it had.
LEMMA CallGoto ==
  ASSUME WarmInv, NEW c \in Callers, NEW pc \in {"idle"} \cup Unqueued \cup Queued \cup Looking
  PROVE  LET new == [me[c] EXCEPT !.pc = pc] IN
         /\ new \in CallRecord /\ new.pc = pc /\ new.run = me[c].run /\ new.rec = me[c].rec
         /\ new.op = me[c].op /\ new.pid = me[c].pid
  BY CallFacts DEF CallRecord

\* A submission takes a run nobody has submitted, and keeps the invariant.
LEMMA SubmitOK ==
  ASSUME WarmInv, NEW c \in Callers, NEW r \in Runs, Submit(c, r)
  PROVE  WarmInv'
  <1>. DEFINE new == [Idle EXCEPT !.pc = "ensure", !.op = "submit", !.run = {r}]
  <1>1. new \in CallRecord /\ new.pc = "ensure" /\ new.run = {r}
    BY IdleFields DEF CallRecord, Unqueued
  <1>2. Call(c, new) /\ UNCHANGED <<requests, claims, pidFile, daemon, dir, job>>
    BY DEF Submit
  <1>. HIDE DEF new
  <1>3. CallFits(c, new)
    BY <1>1, <1>2 DEF Submit, CallFits, Unqueued, Queued, Looking
  <1>4. Exclusive(c, new)
    BY <1>1 DEF Submit, Exclusive
  <1>. QED  BY <1>1, <1>2, <1>3, <1>4, StillStore, CallMoves

\* Starting a daemon keeps the invariant.
LEMMA EnsureOK ==
  ASSUME WarmInv, NEW c \in Callers, Ensure(c)
  PROVE  WarmInv'
  <1>1. /\ me[c] \in CallRecord /\ CallOK(c) /\ me[c].pc = "ensure"
        /\ UNCHANGED <<requests, claims, pidFile, dir, job>>
    BY CallFacts DEF Ensure, At
  <1>2. ASSUME NEW pid \in Daemons \cup {NoPid}, NEW pc \in {"enqueue", "pidfile"}
        PROVE  LET new == [me[c] EXCEPT !.pc = pc, !.pid = pid]
               IN  new \in CallRecord /\ CallFits(c, new) /\ Exclusive(c, new)
    <2>. DEFINE new == [me[c] EXCEPT !.pc = pc, !.pid = pid]
    <2>1. new \in CallRecord /\ new.pc = pc /\ new.run = me[c].run
      BY <1>1 DEF CallRecord, Unqueued
    <2>. HIDE DEF new
    <2>2. pc \in Unqueued /\ pc \notin Looking /\ me[c].pc \in Unqueued
      BY <1>1 DEF Unqueued, Looking
    <2>3. CallFits(c, new)
      BY <1>1, <2>1, <2>2 DEF CallFits, CallOK
    <2>4. Exclusive(c, new)
      BY <2>1, <2>2, SameRunIsExclusive
    <2>. QED  BY <2>1, <2>3, <2>4 DEF new
  <1>3. ASSUME Call(c, [me[c] EXCEPT !.pc = "enqueue", !.pid = pidFile]), daemon' = daemon
        PROVE  WarmInv'
    BY <1>1, <1>2, <1>3, StillStore, CallMoves
  <1>4. ASSUME NEW d \in Daemons, daemon[d].pc = "new",
               Step(d, [NotStarted EXCEPT !.pc = "boot"]),
               Call(c, [me[c] EXCEPT !.pc = "pidfile", !.pid = d])
        PROVE  WarmInv'
    <2>. DEFINE new == [me[c] EXCEPT !.pc = "pidfile", !.pid = d]
                booted == [NotStarted EXCEPT !.pc = "boot"]
    <2>1. new \in CallRecord /\ CallFits(c, new) /\ Exclusive(c, new) /\ Call(c, new)
      BY <1>2, <1>4
    <2>2. booted \in Daemon /\ booted.pc = "boot" /\ booted.cur = {} /\ Step(d, booted)
      BY <1>4, FreeFields DEF Daemon, Free
    <2>. HIDE DEF new, booted
    <2>3. daemon' \in [Daemons -> Daemon] /\ daemon'[d] = booted
          /\ \A e \in Daemons \ {d} : daemon'[e] = daemon[e]
      BY <2>2 DEF Step, WarmInv
    <2>4. ASSUME NEW e \in Daemons PROVE DaemonOK(e)'
      <3>1. CASE e = d
        BY <2>2, <2>3, <3>1 DEF DaemonOK, Free, Serving
      <3>2. CASE e # d
        BY <1>1, <2>3, <3>2, DaemonFacts DEF DaemonOK, Daemon
      <3>. QED  BY <3>1, <3>2
    <2>. QED  BY <1>1, <2>1, <2>3, <2>4, StillStore, CallKeeps
  <1>5. ASSUME Return(c), daemon' = daemon PROVE WarmInv'
    BY <1>1, <1>5, IdleFits, IdleFields, StillStore, CallMoves DEF Return
  <1>. QED  BY <1>3, <1>4, <1>5 DEF Ensure

\* Writing the pid of the daemon and queueing the request keep the invariant.
LEMMA EnqueueOK ==
  ASSUME WarmInv, NEW c \in Callers, WritePidFile(c) \/ Enqueue(c)
  PROVE  WarmInv'
  <1>1. me[c] \in CallRecord /\ CallOK(c) /\ me[c].pid \in Daemons \cup {NoPid}
    BY CallFacts DEF CallRecord
  <1>2. CASE WritePidFile(c)
    <2>. DEFINE new == [me[c] EXCEPT !.pc = "enqueue"]
    <2>1. /\ Call(c, new) /\ UNCHANGED <<requests, claims, daemon, dir, job>>
          /\ pidFile' \in Daemons \cup {NoPid} /\ me[c].pc \in Unqueued /\ me[c].pc # "idle"
          /\ "enqueue" \in Unqueued /\ "enqueue" \notin Looking
      BY <1>1, <1>2 DEF WritePidFile, Then, At, Unqueued, Looking
    <2>2. new \in CallRecord /\ new.pc = "enqueue" /\ new.run = me[c].run
      BY <2>1, CallGoto
    <2>. HIDE DEF new
    <2>3. CallFits(c, new)
      BY <1>1, <2>1, <2>2 DEF CallFits, CallOK
    <2>4. Exclusive(c, new)
      BY <2>1, <2>2, SameRunIsExclusive
    <2>. QED  BY <2>1, <2>2, <2>3, <2>4, CallMoves
  <1>3. CASE Enqueue(c)
    <2>. DEFINE new == [me[c] EXCEPT !.pc = "pid"]
    <2>1. /\ Call(c, new) /\ UNCHANGED <<claims, pidFile, daemon, dir, job>>
          /\ requests' = requests \cup me[c].run /\ me[c].pc \in Unqueued /\ me[c].pc # "idle"
          /\ "pid" \in Queued /\ "pid" \notin Unqueued /\ "pid" \notin Looking
      BY <1>3 DEF Enqueue, Then, At, Unqueued, Queued, Looking
    <2>2. new \in CallRecord /\ new.pc = "pid" /\ new.run = me[c].run
      BY <2>1, CallGoto
    <2>. HIDE DEF new
    <2>3. CallFits(c, new)
      BY <1>1, <2>1, <2>2 DEF CallFits, CallOK
    <2>4. Exclusive(c, new)
      BY <2>1, <2>2, SameRunIsExclusive
    <2>5. claims \cap requests' = {}
      BY <1>1, <2>1, StillStore DEF CallOK
    <2>. QED  BY <2>1, <2>2, <2>3, <2>4, <2>5, StillStore, StillDaemons, CallKeeps
  <1>. QED  BY <1>2, <1>3

\* Writing the files of the run keeps the invariant.
LEMMA WritePidOK ==
  ASSUME WarmInv, NEW c \in Callers, WritePid(c) \/ WriteMarker(c)
  PROVE  WarmInv'
  <1>. DEFINE pc == IF me[c].pc = "pid" THEN "marker" ELSE "create"
              new == [me[c] EXCEPT !.pc = pc]
  <1>1. /\ me[c] \in CallRecord /\ CallOK(c) /\ me[c].pid \in Daemons \cup {NoPid}
        /\ me[c].pc \in Queued /\ me[c].pc # "idle" /\ pc \in Queued /\ pc # "idle"
        /\ pc \notin Unqueued /\ pc \notin Looking
        /\ Call(c, new) /\ UNCHANGED <<requests, claims, pidFile, daemon, job>>
    BY CallFacts DEF WritePid, WriteMarker, At, Then, CallRecord, Queued, Unqueued, Looking
  <1>2. PICK r \in Runs : me[c].run = {r}
    BY <1>1 DEF CallOK
  <1>3. dir \in [Runs -> Dir] /\ dir[r] \in Dir
    BY DEF WarmInv
  <1>4. /\ dir' \in [Runs -> Dir]
        /\ \A q \in Runs : dir'[q].result = dir[q].result /\ dir'[q].heartbeat = dir[q].heartbeat
    <2>1. CASE WritePid(c)
      <3>1. dir' = [dir EXCEPT ![r] = [dir[r] EXCEPT !.pid = me[c].pid]]
        BY <1>2, <1>3, <2>1 DEF WritePid
      <3>. QED  BY <1>1, <1>3, <3>1 DEF Dir
    <2>2. CASE WriteMarker(c)
      <3>1. dir' = [dir EXCEPT ![r] = [dir[r] EXCEPT !.marker = TRUE]]
        BY <1>2, <1>3, <2>2 DEF WriteMarker
      <3>. QED  BY <1>3, <3>1 DEF Dir
    <2>. QED  BY <2>1, <2>2
  <1>. HIDE DEF pc
  <1>5. new \in CallRecord /\ new.pc = pc /\ new.run = me[c].run
    BY <1>1, CallGoto
  <1>. HIDE DEF new
  <1>6. CallFits(c, new)
    BY <1>1, <1>5 DEF CallFits, CallOK
  <1>7. Exclusive(c, new)
    BY <1>1, <1>5, SameRunIsExclusive
  <1>. QED  BY <1>1, <1>4, <1>5, <1>6, <1>7, StillStore, StillDaemons, CallKeeps

\* A call that stores the record of its run and goes on.
LEMMA CallStores ==
  ASSUME WarmInv, NEW c \in Callers, me[c].pc # "idle", NEW rec \in JobRecord,
         rec.state # "none",
         rec.state = "succeeded" => \A r \in me[c].run : dir[r].result > 0,
         job' = job \/ \E r \in me[c].run : job' = [job EXCEPT ![r] = rec],
         UNCHANGED <<requests, claims, pidFile, daemon, dir>>,
         NEW new \in CallRecord, Call(c, new), CallFits(c, new), Exclusive(c, new)
  PROVE  WarmInv'
  <1>1. PICK r \in Runs : me[c].run = {r}
    BY Called
  <1>2. \A q \in Runs : job'[q] = job[q] \/ (q \in me[c].run /\ job'[q] = rec)
    BY <1>1, StillStore
  <1>3. job' \in [Runs -> JobRecord]
    BY <1>1, StillStore
  <1>4. \A q \in Runs : job'[q].state = "succeeded" => dir[q].result > 0
    BY <1>2, StillStore
  <1>. QED  BY <1>2, <1>3, <1>4, StillStore, StillDaemons, CallKeeps

\* Storing the job keeps the invariant.
LEMMA CreateJobOK ==
  ASSUME WarmInv, NEW c \in Callers, CreateJob(c)
  PROVE  WarmInv'
  <1>. DEFINE rec == [state |-> "dispatching", result |-> FALSE]
  <1>1. rec \in JobRecord /\ rec.state = "dispatching"
    BY DEF JobRecord, JobStates
  <1>2. /\ me[c].pc # "idle" /\ \E r \in me[c].run : job' = [job EXCEPT ![r] = rec]
        /\ Call(c, Idle) /\ UNCHANGED <<requests, claims, pidFile, daemon, dir>>
    BY DEF CreateJob, At, Return
  <1>. HIDE DEF rec
  <1>. QED  BY <1>1, <1>2, IdleFields, IdleFits, CallStores

\* The beginning of a lookup or of a cancellation keeps the invariant.
LEMMA LookupOK ==
  ASSUME WarmInv, NEW c \in Callers, NEW r \in Runs, Lookup(c, r)
  PROVE  WarmInv'
  <1>1. UNCHANGED <<requests, claims, pidFile, daemon, dir, job>> /\ job[r].state # "none"
    BY DEF Lookup, LookupOnly
  <1>2. job[r] \in JobRecord /\ (job[r].state = "succeeded" => dir[r].result > 0)
    BY DEF WarmInv, RunOK
  <1>3. ASSUME NEW op \in {"lookup", "cancel"},
               Call(c, [Idle EXCEPT !.pc = "refresh", !.op = op, !.run = {r}, !.rec = job[r]])
        PROVE  WarmInv'
    <2>. DEFINE new == [Idle EXCEPT !.pc = "refresh", !.op = op, !.run = {r}, !.rec = job[r]]
    <2>1. new \in CallRecord /\ new.pc = "refresh" /\ new.run = {r} /\ new.rec = job[r]
      BY <1>2, IdleFields DEF CallRecord, Looking
    <2>2. Call(c, new)
      BY <1>3
    <2>. HIDE DEF new
    <2>3. CallFits(c, new)
      BY <1>1, <1>2, <2>1 DEF CallFits, Unqueued, Queued, Looking
    <2>4. Exclusive(c, new)
      BY <1>1, <2>1 DEF Exclusive, WarmInv, CallOK, Unqueued, Queued
    <2>. QED  BY <1>1, <2>1, <2>2, <2>3, <2>4, StillStore, CallMoves
  <1>4. Idle.op = "lookup" /\ Idle \in CallRecord
    BY IdleFields DEF Idle
  <1>5. [Idle EXCEPT !.pc = "refresh", !.run = {r}, !.rec = job[r]]
          = [Idle EXCEPT !.pc = "refresh", !.op = "lookup", !.run = {r}, !.rec = job[r]]
    BY <1>4 DEF CallRecord
  <1>. QED  BY <1>3, <1>5 DEF Lookup

\* The state a backend reports is a job state, and success has a result file.
LEMMA StatusType ==
  ASSUME WarmInv, NEW r \in Runs
  PROVE  /\ Status(r) \in JobStates \ {"none"}
         /\ Status(r) = "succeeded" => dir[r].result > 0
  <1>1. /\ dir[r].heartbeat \in Heartbeats /\ dir[r].result \in Nat /\ dir[r].expired \in BOOLEAN
        /\ (dir[r].heartbeat = "completed" => dir[r].result > 0)
    BY DEF WarmInv, Dir, RunOK
  <1>. DEFINE gone == dir[r].pid # NoPid /\ ~Alive(dir[r].pid)
  <1>2. CASE dir[r].result > 0
    BY <1>2 DEF Status, JobStates, Terminal
  <1>3. CASE dir[r].result = 0
    <2>1. dir[r].heartbeat # "completed"
      BY <1>1, <1>3
    <2>2. Status(r) \in {"timed_out", "failed", "running", "queued", "cancelled"}
      BY <1>1, <1>3, <2>1 DEF Status, Heartbeats
    <2>. QED  BY <2>2 DEF JobStates, Terminal
  <1>. QED  BY <1>1, <1>2, <1>3

\* Storing the reported state keeps the invariant.
LEMMA RefreshOK ==
  ASSUME WarmInv, NEW c \in Callers, Refresh(c)
  PROVE  WarmInv'
  <1>1. /\ me[c] \in CallRecord /\ CallOK(c) /\ me[c].pc = "refresh" /\ me[c].rec \in JobRecord
        /\ "refresh" \in Looking /\ UNCHANGED <<requests, claims, pidFile, daemon, dir>>
    BY CallFacts DEF Refresh, At, LookupOnly, CallRecord, Looking
  <1>2. PICK r \in Runs : me[c].run = {r}
    BY <1>1 DEF CallOK
  <1>. DEFINE rec == IF me[c].rec.state \in Terminal \/ dir[r].result > 0 THEN me[c].rec
                     ELSE [me[c].rec EXCEPT !.state = Status(r)]
              new == [me[c] EXCEPT !.pc = "ingest", !.rec = rec]
  <1>3. /\ job' = IF rec = me[c].rec THEN job ELSE [job EXCEPT ![r] = rec]
        /\ Call(c, new)
    BY <1>2 DEF Refresh
  <1>4. /\ rec \in JobRecord /\ rec.state # "none"
        /\ rec.state = "succeeded" => dir[r].result > 0
    BY <1>1, <1>2, StatusType DEF JobRecord, CallOK
  <1>. HIDE DEF rec
  <1>5. new \in CallRecord /\ new.pc = "ingest" /\ new.run = {r} /\ new.rec = rec
    BY <1>1, <1>2, <1>4 DEF CallRecord, Looking
  <1>. HIDE DEF new
  <1>6. job'[r].state # "none"
    BY <1>1, <1>2, <1>3, <1>4 DEF CallOK, WarmInv
  <1>7. CallFits(c, new)
    BY <1>1, <1>4, <1>5, <1>6 DEF CallFits, Unqueued, Queued
  <1>8. Exclusive(c, new)
    BY <1>2, <1>5, SameRunIsExclusive DEF Unqueued, Queued
  <1>9. job' = job \/ \E q \in me[c].run : job' = [job EXCEPT ![q] = rec]
    BY <1>2, <1>3
  <1>10. me[c].pc # "idle" /\ (rec.state = "succeeded" => \A q \in me[c].run : dir[q].result > 0)
    BY <1>1, <1>2, <1>4
  <1>. QED  BY <1>1, <1>3, <1>4, <1>5, <1>7, <1>8, <1>9, <1>10, CallStores

\* Storing the result keeps the invariant: success is stored with it or not at
\* all.
LEMMA IngestOK ==
  ASSUME WarmInv, NEW c \in Callers, Ingest(c)
  PROVE  WarmInv'
  <1>1. /\ me[c] \in CallRecord /\ CallOK(c) /\ me[c].pc = "ingest" /\ me[c].rec \in JobRecord
        /\ "ingest" \in Looking /\ "cancel" \in Looking /\ "cancel" \notin Unqueued \cup Queued
        /\ UNCHANGED <<requests, claims, pidFile, daemon, dir>>
    BY CallFacts DEF Ingest, At, LookupOnly, CallRecord, Looking, Unqueued, Queued
  <1>2. PICK r \in Runs : me[c].run = {r}
    BY <1>1 DEF CallOK
  <1>. DEFINE rec == Ingested(me[c].rec, r)
              new == [me[c] EXCEPT !.pc = "cancel", !.rec = rec]
  <1>3. /\ job' = job \/ job' = [job EXCEPT ![r] = rec]
        /\ Call(c, new) \/ Call(c, Idle)
    BY <1>2 DEF Ingest, Return
  <1>4. /\ rec \in JobRecord /\ rec.state # "none"
        /\ rec.state = "succeeded" => dir[r].result > 0
    BY <1>1, <1>2 DEF Ingested, JobRecord, CallOK, JobStates, Terminal
  <1>. HIDE DEF rec
  <1>5. new \in CallRecord /\ new.pc = "cancel" /\ new.run = {r} /\ new.rec = rec
    BY <1>1, <1>2, <1>4 DEF CallRecord
  <1>. HIDE DEF new
  <1>6. job'[r].state # "none"
    BY <1>1, <1>2, <1>3, <1>4 DEF CallOK, WarmInv
  <1>7. CallFits(c, new)
    BY <1>1, <1>4, <1>5, <1>6 DEF CallFits
  <1>8. Exclusive(c, new)
    BY <1>1, <1>2, <1>5, SameRunIsExclusive
  <1>9. job' = job \/ \E q \in me[c].run : job' = [job EXCEPT ![q] = rec]
    BY <1>2, <1>3
  <1>10. me[c].pc # "idle" /\ (rec.state = "succeeded" => \A q \in me[c].run : dir[q].result > 0)
    BY <1>1, <1>2, <1>4
  <1>11. CASE Call(c, new)
    BY <1>1, <1>4, <1>5, <1>7, <1>8, <1>9, <1>10, <1>11, CallStores
  <1>12. CASE Call(c, Idle)
    BY <1>1, <1>4, <1>9, <1>10, <1>12, IdleFields, IdleFits, CallStores
  <1>. QED  BY <1>3, <1>11, <1>12

\* Cancelling the run keeps the invariant.
LEMMA CancelRunOK ==
  ASSUME WarmInv, NEW c \in Callers, CancelRun(c)
  PROVE  WarmInv'
  <1>. DEFINE new == [me[c] EXCEPT !.pc = "cancelled"]
  <1>1. /\ me[c] \in CallRecord /\ CallOK(c) /\ me[c].pc = "cancel" /\ me[c].pc # "idle"
        /\ {"cancel", "cancelled"} \subseteq Looking /\ "cancelled" \notin Unqueued \cup Queued
        /\ Call(c, new) /\ UNCHANGED <<requests, claims, pidFile, job>>
    BY CallFacts DEF CancelRun, At, Then, LookupOnly, CallRecord, Looking, Unqueued, Queued
  <1>2. PICK r \in Runs : me[c].run = {r}
    BY <1>1 DEF CallOK
  <1>3. /\ new \in CallRecord /\ new.pc = "cancelled" /\ new.run = me[c].run
        /\ new.rec = me[c].rec
    BY <1>1, CallGoto
  <1>. HIDE DEF new
  <1>4. dir \in [Runs -> Dir] /\ dir[r] \in Dir
    BY DEF WarmInv
  <1>5. /\ dir' \in [Runs -> Dir]
        /\ \A q \in Runs : dir'[q].result = dir[q].result /\ dir'[q].heartbeat = dir[q].heartbeat
    <2>. DEFINE f == [dir[r] EXCEPT !.cancel = TRUE]
    <2>1. dir' = dir \/ dir' = [dir EXCEPT ![r] = f]
      BY <1>2, <1>4 DEF CancelRun
    <2>2. f \in Dir /\ f.result = dir[r].result /\ f.heartbeat = dir[r].heartbeat
      BY <1>4 DEF Dir
    <2>. HIDE DEF f
    <2>. QED  BY <1>4, <2>1, <2>2
  <1>6. daemon' \in [Daemons -> Daemon] /\ \A d \in Daemons : DaemonOK(d)'
    <2>1. CASE daemon' = daemon
      BY <1>5, <2>1, StillDaemons
    <2>2. CASE daemon' # daemon
      <3>1. Alive(dir[r].pid) /\ Step(dir[r].pid, Dead)
        BY <1>2, <2>2 DEF CancelRun
      <3>2. dir[r].pid \in Daemons
        BY <1>4, <3>1 DEF Alive, Dir
      <3>. DEFINE d == dir[r].pid
      <3>3. daemon' \in [Daemons -> Daemon] /\ daemon'[d] = Dead
            /\ \A e \in Daemons \ {d} : daemon'[e] = daemon[e]
        BY <3>1, <3>2, FreeFields DEF WarmInv, Step
      <3>. HIDE DEF d
      <3>4. ASSUME NEW e \in Daemons PROVE DaemonOK(e)'
        <4>1. CASE e = d
          BY <3>3, <4>1, FreeFields DEF DaemonOK, Serving
        <4>2. CASE e # d
          BY <1>5, <3>3, <4>2, DaemonFacts DEF DaemonOK, Daemon
        <4>. QED  BY <4>1, <4>2
      <3>. QED  BY <3>3, <3>4
    <2>. QED  BY <2>1, <2>2
  <1>7. CallFits(c, new)
    BY <1>1, <1>3, <1>5 DEF CallFits, CallOK, CallRecord
  <1>8. Exclusive(c, new)
    BY <1>1, <1>3, SameRunIsExclusive
  <1>. QED  BY <1>1, <1>3, <1>5, <1>6, <1>7, <1>8, StillStore, CallKeeps

\* Storing the cancellation keeps the invariant.
LEMMA RecordCancelledOK ==
  ASSUME WarmInv, NEW c \in Callers, RecordCancelled(c)
  PROVE  WarmInv'
  <1>. DEFINE rec == [me[c].rec EXCEPT !.state = "cancelled"]
  <1>1. me[c].rec \in JobRecord
    BY CallFacts DEF CallRecord
  <1>2. rec \in JobRecord /\ rec.state = "cancelled"
    BY <1>1 DEF JobRecord, JobStates, Terminal
  <1>3. /\ me[c].pc # "idle" /\ \E r \in me[c].run : job' = [job EXCEPT ![r] = rec]
        /\ Call(c, Idle) /\ UNCHANGED <<requests, claims, pidFile, daemon, dir>>
    BY DEF RecordCancelled, At, Return, LookupOnly
  <1>. HIDE DEF rec
  <1>. QED  BY <1>2, <1>3, IdleFields, IdleFits, CallStores

\* The runtime watchdog keeps the invariant.
LEMMA WatchdogOK ==
  ASSUME WarmInv, NEW r \in Runs, WatchdogExpires(r) \/ WatchdogWrites(r)
  PROVE  WarmInv'
  <1>1. dir \in [Runs -> Dir] /\ dir[r] \in Dir
    BY DEF WarmInv
  <1>. DEFINE f == [dir[r] EXCEPT !.expired = TRUE, !.cancel = TRUE]
  <1>2. dir' = dir \/ dir' = [dir EXCEPT ![r] = f]
    BY <1>1 DEF WatchdogExpires, WatchdogWrites
  <1>21. f \in Dir /\ f.result = dir[r].result /\ f.heartbeat = dir[r].heartbeat
    BY <1>1 DEF Dir
  <1>. HIDE DEF f
  <1>3. /\ dir' \in [Runs -> Dir]
        /\ \A q \in Runs : dir'[q].result = dir[q].result /\ dir'[q].heartbeat = dir[q].heartbeat
    BY <1>1, <1>2, <1>21
  <1>4. UNCHANGED <<requests, claims, pidFile, daemon, job, me>>
    BY DEF WatchdogExpires, WatchdogWrites
  <1>5. \A d \in Daemons : DaemonOK(d)'
    BY <1>3, <1>4, StillDaemons
  <1>6. \A c \in Callers : CallOK(c)'
    BY <1>3, <1>4 DEF WarmInv, CallOK, CallRecord
  <1>7. \A q \in Runs : RunOK(q)'
    BY <1>3, <1>4 DEF WarmInv, RunOK
  <1>. QED  BY <1>3, <1>4, <1>5, <1>6, <1>7 DEF WarmInv

\* A broker that dies keeps the invariant.
LEMMA BrokerDiesOK ==
  ASSUME WarmInv, BrokerDies
  PROVE  WarmInv'
  <1>1. /\ me' = [c \in Callers |-> Idle]
        /\ UNCHANGED <<requests, claims, pidFile, daemon, dir, job>>
    BY DEF BrokerDies
  <1>2. me' \in [Callers -> CallRecord] /\ \A c \in Callers : CallOK(c)'
    BY <1>1, IdleFields DEF CallOK, Unqueued, Queued, Looking
  <1>3. (\A d \in Daemons : DaemonOK(d)') /\ (\A r \in Runs : RunOK(r)')
    BY <1>1 DEF WarmInv, DaemonOK, RunOK
  <1>. QED  BY <1>1, <1>2, <1>3 DEF WarmInv

\* An empty spool satisfies the invariant.
LEMMA WarmInit == Init => WarmInv
  <1>. SUFFICES ASSUME Init PROVE WarmInv
    OBVIOUS
  <1>1. EmptyDir \in Dir /\ EmptyDir.heartbeat = "none"
    BY DEF EmptyDir, Dir, Heartbeats
  <1>2. /\ daemon \in [Daemons -> Daemon] /\ dir \in [Runs -> Dir] /\ job \in [Runs -> JobRecord]
        /\ me \in [Callers -> CallRecord]
    BY <1>1, FreeFields, NoJobRecord, IdleFields DEF Init
  <1>3. \A d \in Daemons : DaemonOK(d)
    BY FreeFields DEF Init, DaemonOK, Serving
  <1>4. \A c \in Callers : CallOK(c)
    BY IdleFields DEF Init, CallOK, Unqueued, Queued, Looking
  <1>5. \A r \in Runs : RunOK(r)
    BY <1>1 DEF Init, RunOK
  <1>. QED  BY <1>2, <1>3, <1>4, <1>5 DEF Init, WarmInv

\* Every step of a daemon keeps the invariant.
LEMMA DaemonStepOK ==
  ASSUME WarmInv, NEW d \in Daemons,
         DaemonStep(d) \/ Announce(d) \/ RuntimeLimit(d) \/ Raise(d) \/ DaemonDies(d)
  PROVE  WarmInv'
  BY BootOK, ClaimOK, BeginOK, InspectionOK, UnclaimOK, DaemonDiesOK DEF DaemonStep

\* Every step of a call keeps the invariant.
LEMMA CallStepOK ==
  ASSUME WarmInv, NEW c \in Callers, CallStep(c)
  PROVE  WarmInv'
  BY EnsureOK, EnqueueOK, WritePidOK, CreateJobOK, RefreshOK, IngestOK, CancelRunOK,
     RecordCancelledOK DEF CallStep

\* Every step keeps the invariant.
LEMMA WarmNext == WarmInv /\ [Next]_vars => WarmInv'
  <1>. SUFFICES ASSUME WarmInv, [Next]_vars PROVE WarmInv'
    OBVIOUS
  <1>1. CASE UNCHANGED vars
    BY <1>1 DEF vars, WarmInv, DaemonOK, CallOK, RunOK
  <1>. QED
    BY <1>1, DaemonStepOK, CallStepOK, SubmitOK, LookupOK, WatchdogOK, BrokerDiesOK,
       ZenonT(60) DEF Next

\* The inductive invariant, with any number of callers and daemons.
THEOREM WarmInvariant == Spec => []WarmInv
  BY WarmInit, WarmNext, PTL DEF Spec

\* A request is never in the spool under both of its names, whoever submits,
\* recovers or claims it at the same time, and a daemon works on one run.
THEOREM WarmTypeCorrect == Spec => []WarmTypeOK
  <1>1. WarmInv => \A d \in Daemons : Cardinality(daemon[d].cur) <= 1
    <2>. SUFFICES ASSUME WarmInv, NEW d \in Daemons PROVE Cardinality(daemon[d].cur) <= 1
      OBVIOUS
    <2>1. daemon[d].cur = {} \/ \E r \in Runs : daemon[d].cur = {r}
      BY DaemonFacts DEF DaemonOK, Daemon
    <2>. QED  BY <2>1, FS_EmptySet, FS_Singleton
  <1>2. WarmInv => WarmTypeOK
    BY <1>1 DEF WarmInv, Dir, JobRecord, WarmTypeOK
  <1>. QED  BY <1>2, WarmInvariant, PTL

\* A job is reported as succeeded only when its result can be read: with any
\* number of lookups, cancellations, watchdogs and daemons at work on one run.
THEOREM SuccessHasResult == Spec => []SucceededHasResult
  <1>1. WarmInv => SucceededHasResult
    BY DEF WarmInv, RunOK, SucceededHasResult
  <1>. QED  BY <1>1, WarmInvariant, PTL

-----------------------------------------------------------------------------
(* One caller submits, and no broker dies: one daemon at a time            *)

\* Nobody but c submits.
OnlySubmitter(c) == \A b \in Callers : "submit" \in Ops[b] => b = c

\* With one session that submits, no other call is in a submission.
LEMMA OthersDoNotSubmit ==
  ASSUME WarmInv, NEW c \in Callers, OnlySubmitter(c), NEW b \in Callers,
         me[b].pc \in Unqueued \cup Queued
  PROVE  b = c
  BY CallFacts DEF CallOK, OnlySubmitter

\* If one daemon is alive, the others hold no run.
LEMMA OnlyAlive ==
  ASSUME WarmInv, NEW c \in Callers, OneDaemonInv(c), NEW d \in Daemons, Alive(d)
  PROVE  \A e \in Daemons \ {d} : daemon[e].cur = {} /\ daemon[e].pc \in {"new", "dead"}
  <1>. SUFFICES ASSUME NEW e \in Daemons \ {d}
                PROVE  daemon[e].cur = {} /\ daemon[e].pc \in {"new", "dead"}
    OBVIOUS
  <1>1. ~Alive(e) /\ e # NoPid
    BY DEF OneDaemonInv, Daemons, NoPid
  <1>2. daemon[e].pc \in {"new", "dead"}
    BY <1>1 DEF Alive
  <1>. QED  BY <1>2, DaemonFacts DEF DaemonOK, Free

\* A step of the daemon that is alive.
LEMMA DaemonKeepsOne ==
  ASSUME WarmInv, NEW c \in Callers, OneDaemonInv(c), NEW d \in Daemons, Alive(d),
         NEW new \in Daemon, Step(d, new), UNCHANGED <<pidFile, me, job>>,
         new.cur \subseteq claims',
         new.pc \in {"cleanup", "unclaim"} => \A r \in new.cur : Outcome(r)',
         \A r \in Runs : Kept(r) => Kept(r)'
  PROVE  OneDaemonInv(c)'
  <1>1. daemon'[d] = new /\ \A e \in Daemons \ {d} : daemon'[e] = daemon[e]
    BY DEF WarmInv, Step
  <1>2. \A e \in Daemons \ {d} : daemon[e].cur = {} /\ daemon[e].pc \in {"new", "dead"}
    BY OnlyAlive
  <1>3. ASSUME NEW e \in Daemons, Alive(e)'
        PROVE  e = IF me'[c].pc = "pidfile" THEN me'[c].pid ELSE pidFile'
    <2>1. Alive(e)
      BY <1>1, <1>3 DEF Alive
    <2>. QED  BY <2>1 DEF OneDaemonInv
  <1>4. (me[c].pc = "pidfile" => me[c].pid \in Daemons)'
    BY DEF OneDaemonInv
  <1>5. \A e \in Daemons : daemon'[e].cur \subseteq claims'
    BY <1>1, <1>2
  <1>6. \A e \in Daemons :
          daemon'[e].pc \in {"cleanup", "unclaim"} => \A r \in daemon'[e].cur : Outcome(r)'
    BY <1>1, <1>2
  <1>7. (me[c].pc \in Queued => \A r \in me[c].run : Kept(r))'
    BY CallFacts DEF OneDaemonInv, CallRecord
  <1>8. (\A r \in Runs : Submitted(r) => Kept(r))'
    BY DEF OneDaemonInv, Submitted
  <1>. QED  BY <1>3, <1>4, <1>5, <1>6, <1>7, <1>8 DEF OneDaemonInv

\* A daemon that starts or claims stays the only one, and takes every claim it
\* finds.
LEMMA BootKeepsOne ==
  ASSUME WarmInv, NEW c \in Callers, OneDaemonInv(c), NEW d \in Daemons,
         ListClaims(d) \/ Recover(d) \/ ListRequests(d) \/ Claim(d)
  PROVE  OneDaemonInv(c)'
  <1>1. /\ daemon[d] \in Daemon /\ daemon[d].cur = {} /\ Alive(d)
        /\ daemon[d].pc \in {"boot", "recover", "scan", "claim"}
        /\ {"recover", "scan", "claim"} \subseteq Free
    BY DaemonFacts DEF ListClaims, Recover, ListRequests, Claim, On, DaemonOK, Free
  <1>2. claims \subseteq Runs /\ requests \subseteq Runs
    BY DEF WarmInv
  <1>3. dir' = dir /\ UNCHANGED <<pidFile, me, job>>
    BY DEF ListClaims, Recover, ListRequests, Claim, DaemonOnly
  <1>4. requests' \cup claims' = requests \cup claims
    BY DEF ListClaims, Recover, ListRequests, Claim, Files
  <1>5. \A r \in Runs : Kept(r) => Kept(r)'
    BY <1>3, <1>4 DEF Kept, Outcome
  <1>6. ASSUME NEW todo \in SUBSET Runs, NEW pc \in {"recover", "scan", "claim"},
               NEW new \in Daemon, Step(d, new), new.cur = {}, new.pc = pc
        PROVE  OneDaemonInv(c)'
    BY <1>1, <1>3, <1>5, <1>6, DaemonKeepsOne
  <1>7. CASE ListClaims(d)
    <2>. DEFINE new == [Goto(d, "recover") EXCEPT !.todo = claims]
    <2>1. new \in Daemon /\ new.pc = "recover" /\ new.cur = {}
      BY <1>1, <1>2, DaemonGoto DEF Daemon
    <2>2. Step(d, new)
      BY <1>7 DEF ListClaims
    <2>. HIDE DEF new
    <2>. QED  BY <1>1, <1>6, <2>1, <2>2
  <1>8. CASE ListRequests(d)
    <2>. DEFINE new == [Goto(d, "claim") EXCEPT !.todo = requests]
    <2>1. new \in Daemon /\ new.pc = "claim" /\ new.cur = {}
      BY <1>1, <1>2, DaemonGoto DEF Daemon
    <2>2. Step(d, new)
      BY <1>8 DEF ListRequests
    <2>. HIDE DEF new
    <2>. QED  BY <1>1, <1>6, <2>1, <2>2
  <1>9. CASE Recover(d) \/ Claim(d)
    <2>. DEFINE next == Goto(d, "scan")
    <2>1. next \in Daemon /\ next.pc = "scan" /\ next.cur = {}
      BY <1>1, DaemonGoto
    <2>2. ASSUME Step(d, next) PROVE OneDaemonInv(c)'
      <3>. HIDE DEF next
      <3>. QED  BY <1>1, <1>6, <2>1, <2>2
    <2>3. ASSUME NEW r, Step(d, [daemon[d] EXCEPT !.todo = @ \ {r}]), daemon[d].pc # "boot"
          PROVE  OneDaemonInv(c)'
      <3>. DEFINE new == [daemon[d] EXCEPT !.todo = @ \ {r}]
      <3>1. new \in Daemon /\ new.pc = daemon[d].pc /\ new.cur = {}
        BY <1>1 DEF Daemon
      <3>2. Step(d, new)
        BY <2>3
      <3>. HIDE DEF new
      <3>. QED  BY <1>1, <1>6, <2>3, <3>1, <3>2
    <2>4. ASSUME NEW r \in requests, claims' = claims \cup {r},
                 Step(d, [[daemon[d] EXCEPT !.todo = @ \ {r}] EXCEPT !.pc = "begin", !.cur = {r}])
          PROVE  OneDaemonInv(c)'
      <3>. DEFINE new == [[daemon[d] EXCEPT !.todo = @ \ {r}] EXCEPT !.pc = "begin", !.cur = {r}]
      <3>1. new \in Daemon /\ new.pc = "begin" /\ new.cur = {r}
        BY <1>1, <1>2, <2>4 DEF Daemon, Serving
      <3>2. Step(d, new) /\ new.cur \subseteq claims'
        BY <2>4, <3>1
      <3>. HIDE DEF new
      <3>. QED  BY <1>1, <1>3, <1>5, <3>1, <3>2, DaemonKeepsOne
    <2>5. daemon[d].pc # "boot"
      BY <1>9 DEF Recover, Claim, On
    <2>. QED  BY <1>9, <2>2, <2>3, <2>4, <2>5 DEF Recover, Claim
  <1>. QED  BY <1>7, <1>8, <1>9

\* A daemon at work keeps the claim of its run until the outcome is written.
LEMMA ServingKeepsOne ==
  ASSUME WarmInv, NEW c \in Callers, OneDaemonInv(c), NEW d \in Daemons,
         \/ Begin(d) \/ Announce(d) \/ RuntimeLimit(d) \/ Raise(d) \/ ReleaseSlot(d)
         \/ WriteResult(d) \/ Complete(d) \/ Cleanup(d) \/ Unclaim(d)
  PROVE  OneDaemonInv(c)'
  <1>1. /\ daemon[d] \in Daemon /\ daemon[d].pc \in Serving /\ Alive(d)
        /\ UNCHANGED <<pidFile, me, job>>
    BY DaemonFacts DEF Begin, Announce, RuntimeLimit, Raise, ReleaseSlot, WriteResult, Complete,
                       Cleanup, Unclaim, On, Serving, DaemonOnly
  <1>2. PICK r \in Runs : daemon[d].cur = {r}
    BY <1>1, Served
  <1>3. r \in claims /\ (daemon[d].pc \in {"cleanup", "unclaim"} => Outcome(r))
    BY <1>2 DEF OneDaemonInv
  <1>4. dir \in [Runs -> Dir] /\ dir[r] \in Dir /\ dir[r].result \in Nat
    BY DEF WarmInv, Dir
  <1>5. CASE Begin(d)
    <2>1. "unclaim" \in Serving /\ "work" \in Serving
      BY DEF Serving
    <2>2. UNCHANGED <<requests, claims>>
      BY <1>5 DEF Begin, Files
    <2>3. CASE dir[r].cancel
      <3>. DEFINE new == Goto(d, "unclaim")
                  f == [dir[r] EXCEPT !.heartbeat = "cancelled", !.cancel = FALSE, !.marker = FALSE]
      <3>1. Step(d, new) /\ dir' = [dir EXCEPT ![r] = f]
        BY <1>2, <1>3, <1>4, <1>5, <2>3 DEF Begin
      <3>2. new \in Daemon /\ new.cur = {r} /\ f.heartbeat = "cancelled"
        BY <1>1, <1>2, <1>4, <2>1, DaemonGoto DEF Dir
      <3>. HIDE DEF new, f
      <3>3. Outcome(r)' /\ \A q \in Runs \ {r} : dir'[q] = dir[q]
        BY <1>4, <3>1, <3>2 DEF Outcome
      <3>4. \A q \in Runs : Kept(q) => Kept(q)'
        BY <2>2, <3>3 DEF Kept, Outcome
      <3>. QED  BY <1>1, <1>3, <2>2, <3>1, <3>2, <3>3, <3>4, DaemonKeepsOne
    <2>4. CASE ~dir[r].cancel
      <3>. DEFINE new == Goto(d, "work")
      <3>1. Step(d, new) /\ dir' = dir
        BY <1>2, <1>3, <1>5, <2>4 DEF Begin
      <3>2. new \in Daemon /\ new.cur = {r} /\ new.pc = "work"
        BY <1>1, <1>2, <2>1, DaemonGoto
      <3>. HIDE DEF new
      <3>3. \A q \in Runs : Kept(q) => Kept(q)'
        BY <2>2, <3>1 DEF Kept, Outcome
      <3>. QED  BY <1>1, <1>3, <2>2, <3>1, <3>2, <3>3, DaemonKeepsOne
    <2>. QED  BY <2>3, <2>4
  <1>6. CASE Unclaim(d)
    <2>. DEFINE next == [Goto(d, "claim") EXCEPT !.cur = {}]
    <2>1. "claim" \in Free
      BY DEF Free
    <2>2. next \in Daemon /\ next.pc = "claim" /\ next.cur = {}
      BY <1>1, <2>1, DaemonGoto DEF Daemon
    <2>3. Outcome(r) /\ dir' = dir /\ requests' = requests /\ claims' = claims \ {r}
      BY <1>2, <1>3, <1>6 DEF Unclaim, On
    <2>4. Step(d, Dead) \/ Step(d, next)
      BY <1>6 DEF Unclaim
    <2>5. \A q \in Runs : Kept(q) => Kept(q)'
      BY <2>3 DEF Kept, Outcome
    <2>. HIDE DEF next
    <2>6. CASE Step(d, Dead)
      BY <1>1, <2>5, <2>6, FreeFields, DaemonKeepsOne
    <2>7. CASE Step(d, next)
      BY <1>1, <2>2, <2>5, <2>7, DaemonKeepsOne
    <2>. QED  BY <2>4, <2>6, <2>7
  <1>7. CASE \/ Announce(d) \/ RuntimeLimit(d) \/ Raise(d) \/ ReleaseSlot(d)
             \/ WriteResult(d) \/ Complete(d) \/ Cleanup(d)
    <2>1. PICK q \in Runs, f \in Dir, new \in Daemon : Inspects(d, q, f, new)
      BY <1>7, InspectionWrites
    <2>2. UNCHANGED <<requests, claims>>
      BY <1>7 DEF Announce, RuntimeLimit, Raise, ReleaseSlot, WriteResult, Complete, Cleanup, Files
    <2>3. q = r /\ new.cur = {r} /\ Step(d, new) /\ dir' = [dir EXCEPT ![r] = f]
      BY <1>2, <2>1 DEF Inspects
    <2>4. dir'[r] = f /\ \A p \in Runs \ {r} : dir'[p] = dir[p]
      BY <1>4, <2>3
    <2>5. \A p \in Runs : Kept(p) => Kept(p)'
      BY <1>3, <2>2, <2>4 DEF Kept, Outcome
    <2>6. new.pc = "cleanup" => Outcome(r)'
      BY <2>1, <2>4 DEF Inspects, Outcome
    <2>7. new.pc = "unclaim" => Outcome(r)'
      <3>. SUFFICES ASSUME new.pc = "unclaim" PROVE Outcome(r)'
        OBVIOUS
      <3>1. Outcome(r) /\ f.heartbeat = dir[r].heartbeat /\ f.result >= dir[r].result
        BY <1>3, <2>1, <2>3 DEF Inspects
      <3>2. f.result \in Nat
        BY DEF Dir
      <3>. QED  BY <1>4, <2>4, <3>1, <3>2 DEF Outcome
    <2>. QED  BY <1>1, <1>3, <2>2, <2>3, <2>5, <2>6, <2>7, DaemonKeepsOne
  <1>. QED  BY <1>5, <1>6, <1>7

\* A daemon that dies leaves its claim for the next.
LEMMA DaemonDiesKeepsOne ==
  ASSUME WarmInv, NEW c \in Callers, OneDaemonInv(c), NEW d \in Daemons, DaemonDies(d)
  PROVE  OneDaemonInv(c)'
  <1>1. Step(d, Dead) /\ Alive(d) /\ UNCHANGED <<requests, claims, dir, pidFile, job, me>>
    BY DEF DaemonDies
  <1>2. \A r \in Runs : Kept(r) => Kept(r)'
    BY <1>1 DEF Kept, Outcome
  <1>. QED  BY <1>1, <1>2, FreeFields, DaemonKeepsOne

\* A step of a call that starts no daemon and writes no pid file.
LEMMA CallKeepsOne ==
  ASSUME WarmInv, NEW c \in Callers, OneDaemonInv(c), NEW b \in Callers, NEW new, Call(b, new),
         requests \subseteq requests', claims' = claims, pidFile' = pidFile,
         \A r \in Runs : dir'[r].result = dir[r].result /\ dir'[r].heartbeat = dir[r].heartbeat,
         \A d \in Daemons : daemon'[d] = daemon[d] \/ daemon'[d] = Dead,
         b = c => me[c].pc # "pidfile" /\ new.pc # "pidfile",
         b = c /\ new.pc \in Queued => \A r \in new.run : Kept(r)',
         \A r \in Runs : Submitted(r)' => Submitted(r) \/ Kept(r)
  PROVE  OneDaemonInv(c)'
  <1>1. /\ b = c => me'[c] = new
        /\ b # c => me'[c] = me[c]
    BY DEF WarmInv, Call
  <1>2. \A r \in Runs : Kept(r) => Kept(r)'
    BY DEF Kept, Outcome
  <1>3. ASSUME NEW d \in Daemons, Alive(d)'
        PROVE  d = IF me'[c].pc = "pidfile" THEN me'[c].pid ELSE pidFile'
    <2>1. Alive(d)
      BY <1>3, FreeFields DEF Alive
    <2>. QED  BY <1>1, <2>1 DEF OneDaemonInv
  <1>4. (me[c].pc = "pidfile" => me[c].pid \in Daemons)'
    BY <1>1 DEF OneDaemonInv
  <1>5. \A d \in Daemons : daemon'[d].cur \subseteq claims'
    BY FreeFields DEF OneDaemonInv
  <1>6. ASSUME NEW d \in Daemons, daemon'[d].pc \in {"cleanup", "unclaim"}
        PROVE  \A r \in daemon'[d].cur : Outcome(r)'
    <2>1. daemon'[d] = daemon[d] /\ daemon[d].cur \subseteq Runs
      BY <1>6, FreeFields, DaemonFacts DEF Daemon
    <2>. QED  BY <1>6, <2>1 DEF OneDaemonInv, Outcome
  <1>7. (me[c].pc \in Queued => \A r \in me[c].run : Kept(r))'
    BY <1>1, <1>2, CallFacts DEF OneDaemonInv, CallRecord
  <1>8. (\A r \in Runs : Submitted(r) => Kept(r))'
    BY <1>2 DEF OneDaemonInv
  <1>. QED  BY <1>3, <1>4, <1>5, <1>6, <1>7, <1>8 DEF OneDaemonInv

\* A step that leaves the spool, the daemons and the store alone, too.
LEMMA QuietCallKeepsOne ==
  ASSUME WarmInv, NEW c \in Callers, OneDaemonInv(c), NEW b \in Callers, NEW new, Call(b, new),
         UNCHANGED <<requests, claims, pidFile, daemon, dir>>,
         me[b].pc # "pidfile", new.pc # "pidfile", new.pc \notin Queued,
         \A r \in Runs : Submitted(r)' => Submitted(r) \/ Kept(r)
  PROVE  OneDaemonInv(c)'
  BY CallKeepsOne

\* A submission starts a daemon only if none is alive.
LEMMA SubmissionKeepsOne ==
  ASSUME WarmInv, NEW c \in Callers, OneDaemonInv(c), OnlySubmitter(c), NEW b \in Callers,
         \/ WritePidFile(b) \/ Enqueue(b) \/ WritePid(b) \/ WriteMarker(b) \/ CreateJob(b)
         \/ Ensure(b) \/ \E r \in Runs : Submit(b, r)
  PROVE  OneDaemonInv(c)'
  <1>1. me[b] \in CallRecord /\ CallOK(b) /\ me[b].run \subseteq Runs
    BY CallFacts DEF CallRecord
  <1>2. b = c
    BY OthersDoNotSubmit DEF WritePidFile, Enqueue, WritePid, WriteMarker, CreateJob, Ensure,
                             Submit, At, Unqueued, Queued, OnlySubmitter
  <1>3. CASE \E r \in Runs : Submit(b, r)
    <2>1. PICK r \in Runs : Submit(b, r)
      BY <1>3
    <2>. DEFINE new == [Idle EXCEPT !.pc = "ensure", !.op = "submit", !.run = {r}]
    <2>2. /\ Call(b, new) /\ me[b].pc = "idle"
          /\ UNCHANGED <<requests, claims, pidFile, daemon, dir, job>>
      BY <2>1 DEF Submit, At
    <2>3. new.pc = "ensure"
      BY IdleFields DEF CallRecord
    <2>. HIDE DEF new
    <2>. QED  BY <2>2, <2>3, QuietCallKeepsOne DEF Submitted, Queued
  <1>4. CASE Ensure(b)
    <2>1. /\ me[b].pc = "ensure" /\ UNCHANGED <<requests, claims, pidFile, dir, job>>
      BY <1>4 DEF Ensure, At
    <2>2. ASSUME Call(b, [me[b] EXCEPT !.pc = "enqueue", !.pid = pidFile]), daemon' = daemon
          PROVE  OneDaemonInv(c)'
      <3>. DEFINE new == [me[b] EXCEPT !.pc = "enqueue", !.pid = pidFile]
      <3>1. Call(b, new) /\ new.pc = "enqueue"
        BY <1>1, <2>2 DEF CallRecord
      <3>. HIDE DEF new
      <3>. QED  BY <2>1, <2>2, <3>1, QuietCallKeepsOne DEF Submitted, Queued
    <2>3. ASSUME Return(b), daemon' = daemon PROVE OneDaemonInv(c)'
      BY <2>1, <2>3, IdleFields, QuietCallKeepsOne DEF Return, Submitted, Queued
    <2>4. ASSUME NEW d \in Daemons, ~Alive(pidFile), daemon[d].pc = "new",
                 Step(d, [NotStarted EXCEPT !.pc = "boot"]),
                 Call(b, [me[b] EXCEPT !.pc = "pidfile", !.pid = d])
          PROVE  OneDaemonInv(c)'
      <3>. DEFINE new == [me[b] EXCEPT !.pc = "pidfile", !.pid = d]
                  booted == [NotStarted EXCEPT !.pc = "boot"]
      <3>1. /\ me'[c] = new /\ new.pc = "pidfile" /\ new.pid = d
        BY <1>1, <1>2, <2>4 DEF CallRecord, WarmInv, Call
      <3>2. booted.pc = "boot" /\ booted.cur = {}
        BY FreeFields DEF Daemon
      <3>3. daemon'[d] = booted /\ \A e \in Daemons \ {d} : daemon'[e] = daemon[e]
        BY <2>4 DEF WarmInv, Step
      <3>. HIDE DEF new, booted
      <3>4. \A e \in Daemons : ~Alive(e)
        <4>1. \A e \in Daemons : Alive(e) => e = pidFile
          BY <1>2, <2>1 DEF OneDaemonInv
        <4>. QED  BY <2>4, <4>1
      <3>5. \A e \in Daemons \ {d} : ~Alive(e)'
        BY <3>3, <3>4 DEF Alive
      <3>6. \A e \in Daemons : Alive(e)' => e = IF me'[c].pc = "pidfile" THEN me'[c].pid ELSE pidFile'
        BY <3>1, <3>5
      <3>7. \A e \in Daemons : daemon'[e].cur \subseteq claims'
        BY <2>1, <3>2, <3>3 DEF OneDaemonInv
      <3>8. \A e \in Daemons :
              daemon'[e].pc \in {"cleanup", "unclaim"} => \A r \in daemon'[e].cur : Outcome(r)'
        BY <2>1, <3>2, <3>3 DEF OneDaemonInv, Outcome
      <3>9. me'[c].pc \notin Queued
        BY <3>1 DEF Queued
      <3>10. (\A r \in Runs : Submitted(r) => Kept(r))'
        BY <2>1 DEF OneDaemonInv, Submitted, Kept, Outcome
      <3>. QED  BY <3>1, <3>6, <3>7, <3>8, <3>9, <3>10 DEF OneDaemonInv
    <2>. QED  BY <1>4, <2>2, <2>3, <2>4 DEF Ensure
  <1>5. CASE WritePidFile(b)
    <2>. DEFINE new == [me[b] EXCEPT !.pc = "enqueue"]
    <2>1. /\ me[b].pc = "pidfile" /\ pidFile' = me[b].pid /\ Call(b, new)
          /\ UNCHANGED <<requests, claims, daemon, dir, job>>
      BY <1>5 DEF WritePidFile, At, Then
    <2>2. me'[c] = new /\ new.pc = "enqueue"
      BY <1>1, <1>2, <2>1 DEF CallRecord, WarmInv, Call
    <2>. HIDE DEF new
    <2>3. \A e \in Daemons : Alive(e)' => e = IF me'[c].pc = "pidfile" THEN me'[c].pid ELSE pidFile'
      BY <1>2, <2>1, <2>2 DEF OneDaemonInv, Alive
    <2>4. me'[c].pc \notin Queued
      BY <2>2 DEF Queued
    <2>. QED  BY <2>1, <2>2, <2>3, <2>4 DEF OneDaemonInv, Submitted, Kept, Outcome
  <1>6. CASE Enqueue(b)
    <2>. DEFINE new == [me[b] EXCEPT !.pc = "pid"]
    <2>1. /\ me[b].pc = "enqueue" /\ requests' = requests \cup me[b].run /\ Call(b, new)
          /\ UNCHANGED <<claims, pidFile, daemon, dir, job>>
      BY <1>6 DEF Enqueue, At, Then
    <2>2. new.pc = "pid" /\ new.run = me[b].run
      BY <1>1 DEF CallRecord
    <2>. HIDE DEF new
    <2>3. \A r \in new.run : Kept(r)'
      BY <2>1, <2>2 DEF Kept
    <2>. QED  BY <2>1, <2>2, <2>3, CallKeepsOne DEF Submitted
  <1>7. CASE WritePid(b) \/ WriteMarker(b)
    <2>. DEFINE pc == IF me[b].pc = "pid" THEN "marker" ELSE "create"
                new == [me[b] EXCEPT !.pc = pc]
    <2>1. /\ me[b].pc \in {"pid", "marker"} /\ Call(b, new)
          /\ UNCHANGED <<requests, claims, pidFile, daemon, job>>
      BY <1>7 DEF WritePid, WriteMarker, At, Then
    <2>2. new.pc # "pidfile" /\ new.run = me[b].run
      BY <1>1 DEF CallRecord
    <2>. HIDE DEF pc, new
    <2>3. PICK r \in Runs : me[b].run = {r}
      BY <2>1, Called
    <2>4. dir \in [Runs -> Dir] /\ dir[r] \in Dir
      BY DEF WarmInv
    <2>5. \A q \in Runs : dir'[q].result = dir[q].result /\ dir'[q].heartbeat = dir[q].heartbeat
      BY <1>7, <2>3, <2>4 DEF WritePid, WriteMarker, Dir
    <2>6. \A q \in new.run : Kept(q)'
      BY <1>1, <1>2, <2>1, <2>2, <2>5 DEF OneDaemonInv, Queued, Kept, Outcome
    <2>. QED  BY <2>1, <2>2, <2>5, <2>6, CallKeepsOne DEF Submitted
  <1>8. CASE CreateJob(b)
    <2>1. /\ me[b].pc = "create" /\ Call(b, Idle)
          /\ UNCHANGED <<requests, claims, pidFile, daemon, dir>>
      BY <1>8 DEF CreateJob, At, Return
    <2>2. PICK r \in Runs : me[b].run = {r}
      BY <2>1, Called
    <2>3. Kept(r)
      BY <1>2, <2>1, <2>2 DEF OneDaemonInv, Queued
    <2>4. \A q \in Runs \ {r} : job'[q] = job[q]
      BY <1>8, <2>2, StillStore DEF CreateJob
    <2>5. \A q \in Runs : Submitted(q)' => Submitted(q) \/ Kept(q)
      BY <2>3, <2>4 DEF Submitted
    <2>. QED  BY <2>1, <2>5, IdleFields, QuietCallKeepsOne DEF Queued
  <1>. QED  BY <1>3, <1>4, <1>5, <1>6, <1>7, <1>8

\* Lookups and cancellations are of runs that have a job.
LEMMA LookupKeepsOne ==
  ASSUME WarmInv, NEW c \in Callers, OneDaemonInv(c), NEW b \in Callers,
         \/ Refresh(b) \/ Ingest(b) \/ CancelRun(b) \/ RecordCancelled(b)
         \/ \E r \in Runs : Lookup(b, r)
  PROVE  OneDaemonInv(c)'
  <1>1. me[b] \in CallRecord /\ CallOK(b) /\ me[b].run \subseteq Runs
    BY CallFacts DEF CallRecord
  <1>2. UNCHANGED <<requests, claims, pidFile>>
    BY DEF Refresh, Ingest, CancelRun, RecordCancelled, Lookup, LookupOnly
  <1>3. CASE \E r \in Runs : Lookup(b, r)
    <2>1. PICK r \in Runs : Lookup(b, r)
      BY <1>3
    <2>2. me[b].pc = "idle" /\ UNCHANGED <<daemon, dir, job>>
      BY <2>1 DEF Lookup, At
    <2>3. \E new : Call(b, new) /\ new.pc = "refresh"
      <3>. DEFINE look == [Idle EXCEPT !.pc = "refresh", !.run = {r}, !.rec = job[r]]
                  cancel == [Idle EXCEPT !.pc = "refresh", !.op = "cancel", !.run = {r},
                                         !.rec = job[r]]
      <3>1. Call(b, look) \/ Call(b, cancel)
        BY <2>1 DEF Lookup
      <3>2. look.pc = "refresh" /\ cancel.pc = "refresh"
        BY IdleFields DEF CallRecord
      <3>. HIDE DEF look, cancel
      <3>. QED  BY <3>1, <3>2
    <2>. QED  BY <1>2, <2>2, <2>3, QuietCallKeepsOne DEF Submitted, Queued
  <1>4. CASE Refresh(b) \/ Ingest(b) \/ RecordCancelled(b)
    <2>1. me[b].pc \in Looking /\ me[b].pc # "pidfile" /\ UNCHANGED <<daemon, dir>>
      BY <1>4 DEF Refresh, Ingest, RecordCancelled, At, Looking
    <2>2. PICK r \in Runs : me[b].run = {r} /\ job[r].state # "none"
      BY <1>1, <2>1 DEF CallOK, Looking
    <2>3. job' = job \/ \E rec : job' = [job EXCEPT ![r] = rec]
      BY <1>4, <2>2 DEF Refresh, Ingest, RecordCancelled
    <2>4. \A q \in Runs : Submitted(q)' => Submitted(q)
      BY <2>2, <2>3, StillStore DEF Submitted
    <2>5. \E new : Call(b, new) /\ new.pc \in {"idle", "ingest", "cancel"}
      <3>1. CASE Refresh(b)
        <4>. DEFINE rec == IF me[b].rec.state \in Terminal \/ dir[r].result > 0 THEN me[b].rec
                           ELSE [me[b].rec EXCEPT !.state = Status(r)]
                    new == [me[b] EXCEPT !.pc = "ingest", !.rec = rec]
        <4>1. Call(b, new)
          BY <2>2, <3>1 DEF Refresh
        <4>. HIDE DEF rec
        <4>2. new.pc = "ingest"
          BY <1>1 DEF CallRecord
        <4>. HIDE DEF new
        <4>. QED  BY <4>1, <4>2
      <3>2. CASE Ingest(b)
        <4>. DEFINE new == [me[b] EXCEPT !.pc = "cancel", !.rec = Ingested(me[b].rec, r)]
        <4>1. Call(b, new) \/ Call(b, Idle)
          BY <2>2, <3>2 DEF Ingest, Return
        <4>2. new.pc = "cancel"
          BY <1>1 DEF CallRecord
        <4>. HIDE DEF new
        <4>. QED  BY <4>1, <4>2, IdleFields
      <3>3. CASE RecordCancelled(b)
        BY <3>3, IdleFields DEF RecordCancelled, Return
      <3>. QED  BY <1>4, <3>1, <3>2, <3>3
    <2>. QED  BY <1>2, <2>1, <2>4, <2>5, QuietCallKeepsOne DEF Queued
  <1>5. CASE CancelRun(b)
    <2>. DEFINE new == [me[b] EXCEPT !.pc = "cancelled"]
    <2>1. me[b].pc = "cancel" /\ Call(b, new) /\ job' = job
      BY <1>5 DEF CancelRun, At, Then
    <2>2. new.pc = "cancelled"
      BY <1>1 DEF CallRecord
    <2>. HIDE DEF new
    <2>3. PICK r \in Runs : me[b].run = {r}
      BY <2>1, Called
    <2>4. dir \in [Runs -> Dir] /\ dir[r] \in Dir
      BY DEF WarmInv
    <2>5. \A q \in Runs : dir'[q].result = dir[q].result /\ dir'[q].heartbeat = dir[q].heartbeat
      <3>. DEFINE f == [dir[r] EXCEPT !.cancel = TRUE]
      <3>1. dir' = dir \/ dir' = [dir EXCEPT ![r] = f]
        BY <1>5, <2>3, <2>4 DEF CancelRun
      <3>2. f.result = dir[r].result /\ f.heartbeat = dir[r].heartbeat
        BY <2>4 DEF Dir
      <3>. HIDE DEF f
      <3>. QED  BY <2>4, <3>1, <3>2
    <2>6. \A d \in Daemons : daemon'[d] = daemon[d] \/ daemon'[d] = Dead
      BY <1>5, <2>3 DEF CancelRun, Step, WarmInv
    <2>. QED  BY <1>2, <2>1, <2>2, <2>5, <2>6, CallKeepsOne DEF Submitted, Queued
  <1>. QED  BY <1>3, <1>4, <1>5

\* The watchdog writes outcomes only.
LEMMA WatchdogKeepsOne ==
  ASSUME WarmInv, NEW c \in Callers, OneDaemonInv(c), NEW r \in Runs,
         WatchdogExpires(r) \/ WatchdogWrites(r)
  PROVE  OneDaemonInv(c)'
  <1>1. dir \in [Runs -> Dir] /\ dir[r] \in Dir
    BY DEF WarmInv
  <1>. DEFINE f == [dir[r] EXCEPT !.expired = TRUE, !.cancel = TRUE]
  <1>2. dir' = dir \/ dir' = [dir EXCEPT ![r] = f]
    BY <1>1 DEF WatchdogExpires, WatchdogWrites
  <1>3. f.result = dir[r].result /\ f.heartbeat = dir[r].heartbeat
    BY <1>1 DEF Dir
  <1>. HIDE DEF f
  <1>4. \A q \in Runs : Outcome(q)' <=> Outcome(q)
    BY <1>1, <1>2, <1>3 DEF Outcome
  <1>5. UNCHANGED <<requests, claims, pidFile, daemon, job, me>>
    BY DEF WatchdogExpires, WatchdogWrites
  <1>6. \A q \in Runs : Kept(q) => Kept(q)'
    BY <1>4, <1>5 DEF Kept
  <1>7. \A d \in Daemons : daemon[d].cur \subseteq Runs
    BY DaemonFacts DEF Daemon
  <1>8. me[c].run \subseteq Runs
    BY CallFacts DEF CallRecord
  <1>. QED  BY <1>4, <1>5, <1>6, <1>7, <1>8 DEF OneDaemonInv, Alive, Submitted

\* No daemon is alive at the start.
LEMMA OneDaemonInit ==
  ASSUME NEW c \in Callers, Init
  PROVE  OneDaemonInv(c)
  BY FreeFields, IdleFields DEF Init, OneDaemonInv, Alive, Submitted, Queued

\* Every step keeps at most one daemon alive, and every run accounted for.
LEMMA OneDaemonNext ==
  ASSUME NEW c \in Callers, OnlySubmitter(c), "broker" \notin Faults
  PROVE  WarmInv /\ OneDaemonInv(c) /\ [Next]_vars => OneDaemonInv(c)'
  <1>. SUFFICES ASSUME WarmInv, OneDaemonInv(c), [Next]_vars PROVE OneDaemonInv(c)'
    OBVIOUS
  <1>1. CASE UNCHANGED vars
    BY <1>1 DEF vars, OneDaemonInv, Alive, Outcome, Kept, Submitted
  <1>2. ASSUME NEW d \in Daemons,
               DaemonStep(d) \/ Announce(d) \/ RuntimeLimit(d) \/ Raise(d) \/ DaemonDies(d)
        PROVE  OneDaemonInv(c)'
    BY <1>2, BootKeepsOne, ServingKeepsOne, DaemonDiesKeepsOne DEF DaemonStep
  <1>3. ASSUME NEW b \in Callers, CallStep(b) PROVE OneDaemonInv(c)'
    BY <1>3, SubmissionKeepsOne, LookupKeepsOne DEF CallStep
  <1>4. ASSUME NEW b \in Callers, NEW r \in Runs, Submit(b, r) \/ Lookup(b, r)
        PROVE  OneDaemonInv(c)'
    BY <1>4, SubmissionKeepsOne, LookupKeepsOne
  <1>5. ~BrokerDies
    BY DEF BrokerDies
  <1>. QED  BY <1>1, <1>2, <1>3, <1>4, <1>5, WatchdogKeepsOne, ZenonT(60) DEF Next

\* One caller submits and no broker dies, whatever other calls look up and
\* cancel: a run the broker has a job for is in the spool, claimed, or has left
\* an outcome, whichever daemons die and whichever inspections raise.
THEOREM RequestsAreNotLost ==
  ASSUME NEW c \in Callers, OnlySubmitter(c), "broker" \notin Faults
  PROVE  Spec => []RequestIsNotLost
  <1>1. Init => OneDaemonInv(c)
    BY OneDaemonInit
  <1>2. WarmInv /\ OneDaemonInv(c) /\ [Next]_vars => OneDaemonInv(c)'
    BY OneDaemonNext
  <1>3. OneDaemonInv(c) => RequestIsNotLost
    BY DEF OneDaemonInv, Kept, RequestIsNotLost
  <1>. QED  BY <1>1, <1>2, <1>3, WarmInvariant, PTL DEF Spec
=============================================================================
