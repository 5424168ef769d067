--------------------------- MODULE ChunkIndexProofs ---------------------------
(***************************************************************************)
(* Proofs about the builds of ChunkIndex: what the user does and what a    *)
(* build writes keep their shape, what the files of the cache have to do   *)
(* with the fingerprints they were written under, and what a fingerprint   *)
(* says of the tree it was taken of.                                       *)
(***************************************************************************)
EXTENDS ChunkIndex, TLAPS, SequenceTheorems

Trees == [Paths -> Contents \cup {Absent}]

Pcs == {"idle", "probe", "manifest", "payload", "metadata", "drop", "done"}
Late == {"manifest", "payload", "metadata", "drop", "done"}
Carried == {"pc", "fp", "cfg", "tree", "at", "dirty", "chunks", "entries", "plan"}

-----------------------------------------------------------------------------
(* What the user does.                                                     *)

TreeInv ==
    /\ tree \in Trees /\ index \in Trees
    /\ log \in Seq(Trees) /\ head \in DOMAIN log
    /\ moves \in Nat \ {0} /\ stat \in [Paths -> 0 .. moves]

\* Every move leaves working tree, index and history well formed, and no file
\* has a stat signature of the future.
LEMMA MoveKeepsTrees ==
    ASSUME GitAssumption, TreeInv, UserMove
    PROVE  TreeInv' /\ moves' = moves + 1
<1> USE DEF TreeInv
<1>1. moves' = Now /\ moves' \in Nat \ {0} /\ 0 .. moves \subseteq 0 .. moves' /\ Now \in 0 .. moves'
      /\ 0 \in 0 .. moves' /\ moves' = moves + 1
  BY DEF UserMove, Write, Touch, Stage, Commit, Checkout, Move, Now
<1>2. ASSUME NEW p \in Paths, NEW c \in Contents \cup {Absent}, Write(p, c)
      PROVE  TreeInv'
  BY <1>1, <1>2 DEF Write, Trees
<1>3. ASSUME NEW p \in Paths, Touch(p)
      PROVE  TreeInv'
  BY <1>1, <1>3 DEF Touch, Trees
<1>4. ASSUME NEW p \in Paths, Stage(p)
      PROVE  TreeInv'
  BY <1>1, <1>4 DEF Stage, Trees
<1>5. ASSUME Commit
      PROVE  TreeInv'
  <2>1. log' \in Seq(Trees) /\ Len(log') = Len(log) + 1
    BY <1>5 DEF Commit
  <2>2. head' \in DOMAIN log'
    BY <1>5, <2>1 DEF Commit
  <2>. QED  BY <1>1, <1>5, <2>1, <2>2 DEF Commit
<1>6. ASSUME NEW k \in DOMAIN log, Checkout(k)
      PROVE  TreeInv'
  <2>1. log[k] \in Trees
    OBVIOUS
  <2>2. stat' \in [Paths -> 0 .. moves']
    BY <1>1, <1>6 DEF Checkout
  <2>. QED  BY <1>1, <1>6, <2>1, <2>2 DEF Checkout
<1>. QED  BY <1>1, <1>2, <1>3, <1>4, <1>5, <1>6 DEF UserMove

-----------------------------------------------------------------------------
(* Shape.                                                                  *)

Shaped(l) ==
    /\ "pc" \in DOMAIN l /\ l.pc \in Pcs
    /\ l.pc \in Late => Carried \subseteq DOMAIN l
Framed == build = [b \in Builders |-> build[b]] /\ answer = [b \in Builders |-> answer[b]]

\* The entries a build is about to write have their bundles.
Bundled(files) == \A p \in Files(files) : <<p, files[p]>> \in bundles
ChunkInv ==
    /\ TreeInv /\ Framed
    /\ \A b \in Builders : Shaped(build[b])
    /\ Bundled(work.files)
    /\ \A b \in Builders : build[b].pc = "manifest" => Bundled(build[b].entries)

\* From one write to the next a build keeps what it has found.
LEMMA GotoCarries ==
    ASSUME NEW b \in Builders, NEW pc \in Late,
           Framed, Shaped(build[b]), build[b].pc \in Late, Goto(b, pc)
    PROVE  /\ build' = [c \in Builders |-> build'[c]]
           /\ \A c \in Builders \ {b} : build'[c] = build[c]
           /\ build'[b].pc = pc /\ Shaped(build'[b])
           /\ build'[b].fp = build[b].fp /\ build'[b].cfg = build[b].cfg
           /\ build'[b].tree = build[b].tree /\ build'[b].at = build[b].at
           /\ build'[b].dirty = build[b].dirty /\ build'[b].chunks = build[b].chunks
           /\ build'[b].entries = build[b].entries /\ build'[b].plan = build[b].plan
<1> DEFINE l == build[b]
           n == [l EXCEPT !.pc = pc]
<1>1. build' = [build EXCEPT ![b] = n]
  BY DEF Goto
<1>2. Carried \subseteq DOMAIN l
  BY DEF Shaped
<1>3. n = [x \in DOMAIN l |-> IF x = "pc" THEN pc ELSE l[x]]
  BY Zenon
<1>4. /\ n.pc = pc /\ n.fp = l.fp /\ n.cfg = l.cfg /\ n.tree = l.tree /\ n.at = l.at
      /\ n.dirty = l.dirty /\ n.chunks = l.chunks /\ n.entries = l.entries /\ n.plan = l.plan
  <2> HIDE DEF n
  <2>. QED  BY <1>2, <1>3 DEF Carried
<1>5. DOMAIN n = DOMAIN l
  BY <1>3, Zenon
<1>6. Shaped(n)
  <2> HIDE DEF n
  <2>. QED  BY <1>2, <1>4, <1>5 DEF Shaped, Carried, Late, Pcs
<1>7. build'[b] = n /\ (\A c \in Builders \ {b} : build'[c] = build[c]) /\ build' = [c \in Builders |-> build'[c]]
  <2> HIDE DEF n
  <2>. QED  BY <1>1, Zenon DEF Framed
<1> HIDE DEF n
<1>. QED  BY <1>4, <1>6, <1>7

\* A repository nobody touches stays well formed.
LEMMA TreesOnly ==
    ASSUME TreeInv, UNCHANGED repo
    PROVE  TreeInv'
BY DEF TreeInv, repo

\* What a build reads it bundles, and what it does not read had its bundle.
LEMMA ReadFilesBundles ==
    ASSUME TreeInv, Bundled(work.files), NEW b \in Builders, ReadFiles(b), Framed
    PROVE  /\ build'[b].pc = "manifest" /\ Carried \subseteq DOMAIN build'[b]
           /\ bundles \subseteq bundles'
           /\ \A c \in Builders \ {b} : build'[c] = build[c]
           /\ build' = [c \in Builders |-> build'[c]]
           /\ \A p \in Files(build'[b].entries) : <<p, build'[b].entries[p]>> \in bundles'
<1> DEFINE l == build[b]
           files == FilesOf(l)
           entries == Over(files, [p \in files |-> EntryOf(p, l)])
           read == {p \in files : ~Reused(p, l) /\ tree[p] # Absent}
<1>1. PICK chunks, plan :
         build' = [build EXCEPT ![b] =
              [pc |-> "manifest", fp |-> l.fp, cfg |-> l.cfg, tree |-> l.tree, at |-> l.at, dirty |-> l.dirty,
               chunks |-> chunks, entries |-> entries, plan |-> plan]]
  BY Zenon DEF ReadFiles, Local
<1>2. bundles' = bundles \cup {<<p, tree[p]>> : p \in read}
  BY Zenon DEF ReadFiles, Local
<1>3. build'[b] = [pc |-> "manifest", fp |-> l.fp, cfg |-> l.cfg, tree |-> l.tree, at |-> l.at, dirty |-> l.dirty,
                  chunks |-> chunks, entries |-> entries, plan |-> plan]
      /\ (\A c \in Builders \ {b} : build'[c] = build[c]) /\ build' = [c \in Builders |-> build'[c]]
  <2> HIDE DEF entries
  <2>. QED  BY <1>1, Zenon DEF Framed
<1>4. build'[b].entries = entries /\ build'[b].pc = "manifest" /\ Carried \subseteq DOMAIN build'[b]
  <2> HIDE DEF entries
  <2>. QED  BY <1>3 DEF Carried
<1>5. ASSUME NEW p \in Paths, entries[p] # Absent
      PROVE  <<p, entries[p]>> \in bundles'
  <2>1. p \in files /\ entries[p] = EntryOf(p, l)
    <3> HIDE DEF files
    <3>. QED  BY <1>5 DEF Over
  <2>2. CASE Reused(p, l)
    <3>1. p \in Files(work.files)
      BY <2>2 DEF Reused
    <3>2. entries[p] = work.files[p]
      BY <2>1, <2>2 DEF EntryOf
    <3>. QED  BY <3>1, <3>2, <1>2 DEF Bundled
  <2>3. CASE ~Reused(p, l)
    <3>1. entries[p] = tree[p]
      BY <2>1, <2>3 DEF EntryOf
    <3>2. p \in read
      BY <2>1, <2>3, <3>1, <1>5
    <3> HIDE DEF entries, read
    <3>. QED  BY <3>1, <3>2, <1>2
  <2>. QED  BY <2>2, <2>3
<1>6. \A p \in Files(build'[b].entries) : <<p, build'[b].entries[p]>> \in bundles'
  <2> HIDE DEF entries
  <2>. QED  BY <1>4, <1>5 DEF Files
<1>. QED  BY <1>2, <1>3, <1>4, <1>6

\* A build that is over, or just begun.
LEMMA ReturnFrees ==
    ASSUME NEW b \in Builders, NEW chunks, Framed, Return(b, chunks)
    PROVE  /\ Framed' /\ build'[b] = Idle
           /\ \A c \in Builders \ {b} : build'[c] = build[c] /\ answer'[c] = answer[c]
           /\ answer'[b].kind = "chunks" /\ answer'[b].chunks = chunks /\ answer'[b].fp = build[b].fp
           /\ answer'[b].cfg = build[b].cfg /\ answer'[b].tree = build[b].tree
           /\ answer'[b].dirty = build[b].dirty /\ answer'[b].at = build[b].at
<1> DEFINE a == [kind |-> "chunks", chunks |-> chunks, fp |-> Local(b).fp, cfg |-> Local(b).cfg,
                 tree |-> Local(b).tree, dirty |-> Local(b).dirty, at |-> Local(b).at]
<1>1. build' = [build EXCEPT ![b] = Idle] /\ answer' = [answer EXCEPT ![b] = a]
  BY DEF Return
<1>2. /\ a.kind = "chunks" /\ a.chunks = chunks /\ a.fp = build[b].fp /\ a.cfg = build[b].cfg
      /\ a.tree = build[b].tree /\ a.dirty = build[b].dirty /\ a.at = build[b].at
  BY DEF Local
<1>3. /\ build' = [c \in Builders |-> build'[c]] /\ answer' = [c \in Builders |-> answer'[c]]
      /\ build'[b] = Idle /\ answer'[b] = a
      /\ \A c \in Builders \ {b} : build'[c] = build[c] /\ answer'[c] = answer[c]
  <2> HIDE DEF a
  <2>. QED  BY <1>1, Zenon DEF Framed
<1> HIDE DEF a
<1>. QED  BY <1>2, <1>3 DEF Framed

\* What the step that takes a fingerprint leaves behind.
LEMMA TakeFingerprintBegins ==
    ASSUME NEW b \in Builders, NEW cfg, Framed, TakeFingerprint(b, cfg)
    PROVE  /\ Framed' /\ Shaped(build'[b])
           /\ \A c \in Builders \ {b} : build'[c] = build[c]
           /\ build'[b].pc = "probe" /\ build'[b].cfg = cfg /\ build'[b].tree = tree
           /\ build'[b].state = Fingerprint(process).state
           /\ build'[b].proc = Fingerprint(process).process
           /\ build'[b].fp = Digest(Fingerprint(process).state)
           /\ build'[b].at = moves /\ build'[b].dirty = StatusPaths \cap Present
           /\ manifest' = Fingerprint(process).manifest
           /\ process' = (IF Warm THEN Fingerprint(process).process ELSE NoProcess)
           /\ build[b].pc = "idle"
           /\ UNCHANGED <<repo, cacheVars, answer, built, torn>>
<1> DEFINE r == Fingerprint(process)
           n == [pc |-> "probe", state |-> r.state, proc |-> r.process, fp |-> Digest(r.state), cfg |-> cfg,
                 tree |-> tree, at |-> moves, dirty |-> StatusPaths \cap Present]
<1>1. /\ build' = [build EXCEPT ![b] = n]
      /\ manifest' = r.manifest /\ process' = (IF Warm THEN r.process ELSE NoProcess)
      /\ build[b].pc = "idle"
      /\ UNCHANGED <<repo, cacheVars, answer, built, torn>>
  BY Zenon DEF TakeFingerprint, At
<1>2. /\ n.pc = "probe" /\ n.cfg = cfg /\ n.tree = tree /\ n.state = r.state /\ n.proc = r.process
      /\ n.fp = Digest(r.state) /\ n.at = moves /\ n.dirty = StatusPaths \cap Present
      /\ "pc" \in DOMAIN n
  OBVIOUS
<1>3. Shaped(n)
  <2> HIDE DEF n
  <2>. QED  BY <1>2 DEF Shaped, Pcs, Late
<1>4. /\ build' = [c \in Builders |-> build'[c]] /\ build'[b] = n
      /\ \A c \in Builders \ {b} : build'[c] = build[c]
  <2> HIDE DEF n
  <2>. QED  BY <1>1, Zenon DEF Framed
<1> HIDE DEF n
<1>. QED  BY <1>1, <1>2, <1>3, <1>4 DEF Framed, cacheVars

\* A builder that has not begun is in shape.
LEMMA IdleShaped == Shaped(Idle) /\ Idle.pc = "idle"
BY DEF Shaped, Idle, Pcs, Late

\* The invariant holds of a repository nobody has inspected.
LEMMA ChunkInit ==
    ASSUME GitAssumption, Init
    PROVE  ChunkInv
<1>1. FirstTree \in Trees /\ <<FirstTree>> \in Seq(Trees) /\ DOMAIN <<FirstTree>> = {1}
  BY DEF GitAssumption, Trees
<1>2. TreeInv
  BY <1>1 DEF TreeInv, Init, GitInit, Trees, Absent
<1>3. Framed
  BY DEF Framed, Init
<1>4. \A b \in Builders : build[b] = Idle
  BY DEF Init
<1>5. Bundled(work.files)
  BY DEF Bundled, Files, Init, NoWork, NoChunks
<1>. QED  BY <1>2, <1>3, <1>4, <1>5, IdleShaped DEF ChunkInv

\* One build's step leaves the others and the bundles alone.
LEMMA ChunkBuildStep ==
    ASSUME ChunkInv, NEW b \in Builders, BuildStep(b)
    PROVE  ChunkInv'
<1> USE DEF ChunkInv
<1>0. UNCHANGED repo
  BY DEF BuildStep, TakeFingerprint, TakeSnapshot, ReadFiles, WriteManifest, WritePayload, WriteMetadata,
         DropPayload, Finish, Kill, gitVars
<1>1. TreeInv'
  BY <1>0, TreesOnly
<1>2. ASSUME Framed', \A c \in Builders \ {b} : build'[c] = build[c], Shaped(build'[b]),
             bundles \subseteq bundles', \A p \in Files(work'.files) : <<p, work'.files[p]>> \in bundles',
             build'[b].pc = "manifest" => \A p \in Files(build'[b].entries) : <<p, build'[b].entries[p]>> \in bundles'
      PROVE  ChunkInv'
  <2>1. \A c \in Builders : Shaped(build[c])' /\ (build[c].pc = "manifest" => Bundled(build[c].entries))'
    <3> SUFFICES ASSUME NEW c \in Builders
                 PROVE  Shaped(build[c])' /\ (build[c].pc = "manifest" => Bundled(build[c].entries))'
      OBVIOUS
    <3>1. CASE c = b
      BY <1>2, <3>1 DEF Bundled, Shaped, Files
    <3>2. CASE c # b
      BY <1>2, <3>2 DEF Bundled, Shaped, Files
    <3>. QED  BY <3>1, <3>2
  <2>2. Bundled(work.files)'
    BY <1>2 DEF Bundled, Files
  <2>. QED  BY <1>1, <1>2, <2>1, <2>2
<1>3. ASSUME NEW cfg \in Configs, TakeFingerprint(b, cfg)
      PROVE  ChunkInv'
  BY <1>2, <1>3, TakeFingerprintBegins DEF cacheVars, Bundled, Files
<1>4. ASSUME TakeSnapshot(b)
      PROVE  ChunkInv'
  BY <1>2, <1>4, ReturnFrees, IdleShaped DEF TakeSnapshot, cacheVars, Bundled, Files
<1>5. ASSUME Finish(b)
      PROVE  ChunkInv'
  BY <1>2, <1>5, ReturnFrees, IdleShaped DEF Finish, cacheVars, Bundled, Files
<1>6. ASSUME ReadFiles(b)
      PROVE  ChunkInv'
  <2>1. answer' = answer /\ work' = work
    BY <1>6 DEF ReadFiles
  <2>2. /\ build'[b].pc = "manifest" /\ Carried \subseteq DOMAIN build'[b]
        /\ bundles \subseteq bundles'
        /\ \A c \in Builders \ {b} : build'[c] = build[c]
        /\ build' = [c \in Builders |-> build'[c]]
        /\ \A p \in Files(build'[b].entries) : <<p, build'[b].entries[p]>> \in bundles'
    BY <1>6, ReadFilesBundles
  <2>3. Framed' /\ Shaped(build'[b])
    BY <2>1, <2>2 DEF Framed, Shaped, Carried, Pcs, Late
  <2>4. \A p \in Files(work'.files) : <<p, work'.files[p]>> \in bundles'
    BY <2>1, <2>2 DEF Bundled
  <2>. QED  BY <1>2, <2>2, <2>3, <2>4
<1>7. ASSUME NEW pc \in Late, Goto(b, pc), build[b].pc \in Late, pc # "manifest", answer' = answer,
             bundles' = bundles, work' = work \/ (work'.files = build[b].entries /\ build[b].pc = "manifest")
      PROVE  ChunkInv'
  <2>1. /\ build' = [c \in Builders |-> build'[c]]
        /\ \A c \in Builders \ {b} : build'[c] = build[c]
        /\ build'[b].pc = pc /\ Shaped(build'[b])
    BY <1>7, GotoCarries
  <2>2. Framed'
    BY <1>7, <2>1 DEF Framed
  <2>3. \A p \in Files(work'.files) : <<p, work'.files[p]>> \in bundles'
    BY <1>7 DEF Bundled
  <2>. QED  BY <1>2, <1>7, <2>1, <2>2, <2>3
<1>8. ASSUME WriteManifest(b)
      PROVE  ChunkInv'
  <2>1. PICK pc \in Late : Goto(b, pc) /\ pc # "manifest"
    BY <1>8 DEF WriteManifest, Late
  <2>2. work'.files = build[b].entries /\ build[b].pc = "manifest" /\ answer' = answer /\ bundles' = bundles
    BY <1>8 DEF WriteManifest, Local, At
  <2>. QED  BY <1>7, <2>1, <2>2 DEF Late
<1>9. ASSUME WritePayload(b) \/ WriteMetadata(b) \/ DropPayload(b)
      PROVE  ChunkInv'
  <2>1. PICK pc \in Late : Goto(b, pc) /\ pc # "manifest"
    BY <1>9 DEF WritePayload, WriteMetadata, DropPayload, Late
  <2>2. work' = work /\ build[b].pc \in Late /\ answer' = answer /\ bundles' = bundles
    BY <1>9 DEF WritePayload, WriteMetadata, DropPayload, Late, At
  <2>. QED  BY <1>7, <2>1, <2>2
<1>10. ASSUME Kill(b)
       PROVE  ChunkInv'
  <2>1. Framed' /\ build'[b] = Idle /\ \A c \in Builders \ {b} : build'[c] = build[c]
    BY <1>10, Zenon DEF Kill, Framed
  <2>. QED  BY <1>2, <1>10, <2>1, IdleShaped DEF Kill, cacheVars, Bundled, Files
<1>. QED  BY <1>3, <1>4, <1>5, <1>6, <1>8, <1>9, <1>10 DEF BuildStep

\* Every move and every step of a build keeps the invariant.
LEMMA ChunkStep ==
    ASSUME GitAssumption, ChunkInv, [Next]_vars
    PROVE  ChunkInv'
<1>1. CASE Work
  <2>1. TreeInv'
    BY <1>1, MoveKeepsTrees DEF Work, ChunkInv
  <2>. QED  BY <1>1, <2>1 DEF Work, ChunkInv, cacheVars, Framed, Shaped, Bundled, Files
<1>2. ASSUME NEW b \in Builders, BuildStep(b)
      PROVE  ChunkInv'
  BY <1>2, ChunkBuildStep
<1>3. CASE UNCHANGED vars
  BY <1>3 DEF vars, gitVars, repo, cacheVars, ChunkInv, Framed, Shaped, Bundled, Files, TreeInv
<1>. QED  BY <1>1, <1>2, <1>3 DEF Next

\* The invariant of the shapes: for any number of inspections that share the
\* cache, killed anywhere, and any history of the repository.
THEOREM ChunkInvariant == Spec => []ChunkInv
<1>1. Init => ChunkInv
  BY ChunkInit, GitAssumption
<1>2. ChunkInv /\ [Next]_vars => ChunkInv'
  BY ChunkStep, GitAssumption
<1>. QED  BY <1>1, <1>2, PTL DEF Spec

\* Whatever inspections do at once and wherever they are killed, the entries
\* of the working manifest can be rebuilt from the bundles.
THEOREM ChunkTypeCorrect == Spec => []ChunkTypeOK
<1>1. ChunkInv => ChunkTypeOK
  BY DEF ChunkInv, ChunkTypeOK, TreeInv, Trees, Shaped, Pcs, Bundled
<1>. QED  BY <1>1, ChunkInvariant, PTL

-----------------------------------------------------------------------------
(* Freshness.  The dirty files a fingerprint knows, with their contents.   *)

Dirt(d) ==
    {x \in Paths \X Contents :
        \/ \E e \in d[3] \cup d[4] : e.path = x[1] /\ e.content = x[2]
        \/ /\ \E e \in d[2] : e.path = x[1] /\ e.blob = x[2]
           /\ \A e \in d[3] : e.path # x[1]}

\* Chunks that have the dirty files of a fingerprint as they are, and
\* listings that name them.
FreshFor(d, chunks) == \A x \in Dirt(d) : chunks[x[1]] = x[2]
Covers(d, files) == \A x \in Dirt(d) : x[1] \in files

Seen == Digest(manifest.state)

\* Only small repositories remember their files.
NoFastPath == manifest # NoManifest /\ manifest.aux # NoAux => Base(manifest.aux) = {}

\* What is recorded of a listing.
Covering(r) == {"fp", "files", "cfg"} \subseteq DOMAIN r /\ Covers(r.fp, r.files)
ListingsCover ==
    /\ \A r \in listing.exact : r # NoRecord /\ Covering(r)
    /\ listing.last # NoRecord => Covering(listing.last)

ManifestFresh == work.fp # NoFp => FreshFor(work.fp, work.files)

\* While no build is between its first and last write, the snapshot is that
\* of the manifest, and right for the fingerprints it can be found under.
PayloadKept(b) ==
    \/ payload = NoSnapshot
    \/ build[b].pc \in {"payload", "drop"}
    \/ build[b].pc = "metadata" /\ build[b].plan = "meta_only"
    \/ payload.chunks = work.files /\ FreshFor(payload.fp, payload.chunks)
MetadataKept(b) ==
    \/ payload = NoSnapshot \/ meta = NoSnapshot
    \/ build[b].pc \in {"payload", "metadata", "drop"}
    \/ FreshFor(meta.fp, payload.chunks)

\* What a build knows.
DirtKnown(l) == \A p \in l.dirty : <<p, l.tree[p]>> \in Dirt(l.fp)
ProbeInv(l) ==
    /\ l.fp = Seen /\ manifest # NoManifest /\ DirtKnown(l)
    /\ \A x \in Dirt(l.fp) :
          \/ work.fp = l.fp
          \/ x[1] \in l.state.dirty \cap StatusPaths \cap Present /\ tree[x[1]] = x[2]
LateInv(l) ==
    /\ l.fp = Seen /\ manifest # NoManifest /\ DirtKnown(l)
    /\ FreshFor(l.fp, l.chunks) /\ l.chunks = l.entries
    /\ l.plan \in {"nothing", "meta_only", "reuse", "full"}
    /\ l.pc # "manifest" => work.fp = l.fp /\ work.files = l.entries
    /\ l.plan \in {"reuse", "nothing"} => work.files = l.entries
    /\ l.plan = "nothing" => work.fp = l.fp

AnswersFresh ==
    \A b \in Builders : answer[b] # NoAnswer =>
        \A p \in answer[b].dirty : answer[b].chunks[p] = answer[b].tree[p]

\* One inspection at a time, of one configuration, that nobody kills, in a
\* repository too large for the fast paths.
OneInspection(b, cfg) == Builders = {b} /\ Configs = {cfg} /\ Faults = {} /\ ~Small

FreshInv(b, cfg) ==
    /\ NoFastPath /\ ListingsCover /\ ManifestFresh
    /\ HasFiles(work) => work.cfg = cfg
    /\ build[b].pc # "idle" => build[b].cfg = cfg
    /\ PayloadKept(b) /\ MetadataKept(b)
    /\ build[b].pc = "probe" => ProbeInv(build[b])
    /\ build[b].pc \in Late => LateInv(build[b])
    /\ build[b].pc = "idle" /\ manifest # NoManifest => work.fp = Seen \/ Dirt(Seen) = {}
    /\ AnswersFresh
-----------------------------------------------------------------------------
(* What git status says is dirty.                                          *)

\* The entries of git status and of the index.
LEMMA StagedFields ==
    ASSUME NEW p
    PROVE  StagedEntry(p).path = p /\ StagedEntry(p).blob = index[p]
BY DEF StagedEntry

\* The fields of a listed entry.
LEMMA EntryFields ==
    ASSUME NEW p, NEW code
    PROVE  /\ Entry(code, p).path = p /\ Entry(code, p).content = tree[p] /\ Entry(code, p).code = code
BY DEF Entry

\* The three lists of git status, file by file.
LEMMA EntriesAre ==
    /\ \A e : e \in StagedEntries <=> \E p \in Paths : index[p] # log[head][p] /\ e = StagedEntry(p)
    /\ \A e : e \in UnstagedEntries <=>
            \E p \in Paths : /\ index[p] # Absent /\ tree[p] # index[p]
                            /\ e = Entry(IF tree[p] = Absent THEN "D" ELSE "M", p)
    /\ \A e : e \in UntrackedEntries <=>
            \E p \in Paths : tree[p] # Absent /\ index[p] = Absent /\ e = Entry("?", p)
<1>1. \A e : e \in StagedEntries <=> \E p \in Paths : index[p] # log[head][p] /\ e = StagedEntry(p)
  BY Zenon DEF StagedEntries
<1>2. \A e : e \in UnstagedEntries <=>
            \E p \in Paths : /\ index[p] # Absent /\ tree[p] # index[p]
                            /\ e = Entry(IF tree[p] = Absent THEN "D" ELSE "M", p)
  BY Zenon DEF UnstagedEntries
<1>3. \A e : e \in UntrackedEntries <=>
            \E p \in Paths : tree[p] # Absent /\ index[p] = Absent /\ e = Entry("?", p)
  BY Zenon DEF UntrackedEntries, Present
<1>. QED  BY <1>1, <1>2, <1>3

\* The files they are about.
LEMMA EntryPaths ==
    ASSUME NEW p, NEW c
    PROVE  /\ (\E e \in UnstagedEntries : e.path = p /\ e.content = c) <=>
                 p \in Paths /\ index[p] # Absent /\ tree[p] # index[p] /\ tree[p] = c
           /\ (\E e \in UntrackedEntries : e.path = p /\ e.content = c) <=>
                 p \in Paths /\ tree[p] # Absent /\ index[p] = Absent /\ tree[p] = c
           /\ (\E e \in StagedEntries : e.path = p /\ e.blob = c) <=>
                 p \in Paths /\ index[p] # log[head][p] /\ index[p] = c
           /\ (\A e \in UnstagedEntries : e.path # p) <=>
                 ~(p \in Paths /\ index[p] # Absent /\ tree[p] # index[p])
<1>1. (\E e \in UnstagedEntries : e.path = p /\ e.content = c) <=>
         p \in Paths /\ index[p] # Absent /\ tree[p] # index[p] /\ tree[p] = c
  BY EntriesAre, EntryFields
<1>2. (\E e \in UntrackedEntries : e.path = p /\ e.content = c) <=>
         p \in Paths /\ tree[p] # Absent /\ index[p] = Absent /\ tree[p] = c
  BY EntriesAre, EntryFields
<1>3. (\E e \in StagedEntries : e.path = p /\ e.blob = c) <=>
         p \in Paths /\ index[p] # log[head][p] /\ index[p] = c
  BY EntriesAre, StagedFields
<1>4. (\A e \in UnstagedEntries : e.path # p) <=>
         ~(p \in Paths /\ index[p] # Absent /\ tree[p] # index[p])
  BY EntriesAre, EntryFields
<1>. QED  BY <1>1, <1>2, <1>3, <1>4

\* The paths git status shows are those of files that differ somewhere.
LEMMA StatusPathsAre ==
    StatusPaths = {p \in Paths : (index[p] # log[head][p])
                             \/ (index[p] # Absent /\ tree[p] # index[p])
                             \/ (tree[p] # Absent /\ index[p] = Absent)}
<1>1. \A p : p \in StatusPaths <=> \E s \in Status : s[2] = p
  BY Zenon DEF StatusPaths
<1>2. ASSUME NEW entries, NEW p
      PROVE  (\E s \in Codes(entries) : s[2] = p) <=> (\E e \in entries : e.path = p)
  <2>1. \A s : s \in Codes(entries) <=> \E e \in entries : s = <<e.code, e.path>>
    BY Zenon DEF Codes
  <2>2. ASSUME NEW e \in entries
        PROVE  <<e.code, e.path>> \in Codes(entries) /\ <<e.code, e.path>>[2] = e.path
    BY <2>1
  <2>3. ASSUME NEW s \in Codes(entries)
        PROVE  \E e \in entries : s[2] = e.path
    BY <2>1
  <2>. QED  BY <2>2, <2>3, Zenon
<1>3. ASSUME NEW p
      PROVE  p \in StatusPaths <=> ((\E e \in StagedEntries : e.path = p)
                                  \/ (\E e \in UnstagedEntries : e.path = p)
                                  \/ (\E e \in UntrackedEntries : e.path = p))
  <2>1. \A s : s \in Status <=> s \in Codes(StagedEntries) \/ s \in Codes(UnstagedEntries) \/ s \in Codes(UntrackedEntries)
    BY Zenon DEF Status
  <2>2. p \in StatusPaths <=> ((\E s \in Codes(StagedEntries) : s[2] = p)
                             \/ (\E s \in Codes(UnstagedEntries) : s[2] = p)
                             \/ (\E s \in Codes(UntrackedEntries) : s[2] = p))
    BY <1>1, <2>1, Zenon
  <2>. QED  BY <1>2, <2>2, Zenon
<1>4. \A p : (\E e \in StagedEntries : e.path = p) <=> p \in Paths /\ index[p] # log[head][p]
  BY EntriesAre, StagedFields
<1>5. \A p : (\E e \in UnstagedEntries : e.path = p) <=> p \in Paths /\ index[p] # Absent /\ tree[p] # index[p]
  BY EntriesAre, EntryFields
<1>6. \A p : (\E e \in UntrackedEntries : e.path = p) <=> p \in Paths /\ tree[p] # Absent /\ index[p] = Absent
  BY EntriesAre, EntryFields
<1>. QED  BY <1>3, <1>4, <1>5, <1>6

\* A repository without fast paths is asked for its status each time.
LEMMA SlowOnly ==
    ASSUME ~Small, NoFastPath
    PROVE  Fingerprint(process) =
             Slow(HeadId(process),
                  IF KnownHead THEN process ELSE [process EXCEPT !.head = HeadId(process)])
<1>1. \A fast, h : ~StagedCachedApplies(fast, h)
  BY DEF StagedCachedApplies
<1>2. \A aux : ~UnstagedApplies(aux) /\ ~StagedSmallApplies(aux)
  BY DEF UnstagedApplies, StagedSmallApplies
<1>3. manifest # NoManifest => ~MatchesClean(manifest.aux)
  BY DEF MatchesClean, HasBase, NoFastPath
<1>. QED  BY <1>1, <1>2, <1>3, Zenon DEF Fingerprint

\* The state a slow fingerprint takes of a repository that is not small.
LEMMA SlowStateIs ==
    ASSUME ~Small, NEW h
    PROVE  /\ SlowState(h) = State(h, StagedEntries, UnstagedEntries, UntrackedEntries, FALSE, StatusPaths, {})
           /\ SlowState(h).dirty = StatusPaths /\ SlowState(h).clean = {}
           /\ Digest(SlowState(h)) = <<h, StagedEntries, UnstagedEntries, UntrackedEntries, FALSE>>
<1>1. SlowState(h) = State(h, StagedEntries, UnstagedEntries, UntrackedEntries, FALSE, StatusPaths, {})
  BY Zenon DEF SlowState
<1>. QED  BY <1>1 DEF State, Digest

\* A state that git status shows names the dirty files that are there, as they
\* are.
LEMMA SlowDirt ==
    ASSUME GitAssumption, TreeInv, ~Small, NEW h
    PROVE  Dirt(Digest(SlowState(h))) = {<<p, tree[p]>> : p \in StatusPaths \cap Present}
<1> DEFINE d == Digest(SlowState(h))
<1>0. d = <<h, StagedEntries, UnstagedEntries, UntrackedEntries, FALSE>>
  BY SlowStateIs, Zenon
<1>1. d[2] = StagedEntries /\ d[3] = UnstagedEntries /\ d[4] = UntrackedEntries
  <2> HIDE DEF d
  <2>. QED  BY <1>0
<1>2. Absent \notin Contents
  BY DEF GitAssumption
<1>3. \A p \in Present : p \in Paths /\ tree[p] \in Contents
  BY DEF TreeInv, Trees, Present
<1> HIDE DEF d
<1>8. ASSUME NEW x \in Dirt(d)
      PROVE  x \in {<<p, tree[p]>> : p \in StatusPaths \cap Present}
  <2>1. x \in Paths \X Contents /\ x[2] # Absent /\ x = <<x[1], x[2]>>
    BY <1>2 DEF Dirt
  <2>2. \/ \E e \in UnstagedEntries : e.path = x[1] /\ e.content = x[2]
        \/ \E e \in UntrackedEntries : e.path = x[1] /\ e.content = x[2]
        \/ /\ \E e \in StagedEntries : e.path = x[1] /\ e.blob = x[2]
           /\ \A e \in UnstagedEntries : e.path # x[1]
    BY <1>1 DEF Dirt
  <2>3. x[1] \in StatusPaths /\ tree[x[1]] = x[2]
    <3>1. /\ (\E e \in UnstagedEntries : e.path = x[1] /\ e.content = x[2]) <=>
                x[1] \in Paths /\ index[x[1]] # Absent /\ tree[x[1]] # index[x[1]] /\ tree[x[1]] = x[2]
          /\ (\E e \in UntrackedEntries : e.path = x[1] /\ e.content = x[2]) <=>
                x[1] \in Paths /\ tree[x[1]] # Absent /\ index[x[1]] = Absent /\ tree[x[1]] = x[2]
          /\ (\E e \in StagedEntries : e.path = x[1] /\ e.blob = x[2]) <=>
                x[1] \in Paths /\ index[x[1]] # log[head][x[1]] /\ index[x[1]] = x[2]
          /\ (\A e \in UnstagedEntries : e.path # x[1]) <=>
                ~(x[1] \in Paths /\ index[x[1]] # Absent /\ tree[x[1]] # index[x[1]])
      BY EntryPaths
    <3>. QED  BY <2>1, <2>2, <3>1, StatusPathsAre
  <2>. QED  BY <2>1, <2>3 DEF Present
<1>9. ASSUME NEW p \in StatusPaths \cap Present
      PROVE  <<p, tree[p]>> \in Dirt(d)
  <2>1. <<p, tree[p]>> \in Paths \X Contents /\ tree[p] # Absent
    BY <1>3, <1>2
  <2>2. \/ \E e \in UnstagedEntries : e.path = p /\ e.content = tree[p]
        \/ \E e \in UntrackedEntries : e.path = p /\ e.content = tree[p]
        \/ /\ \E e \in StagedEntries : e.path = p /\ e.blob = tree[p]
           /\ \A e \in UnstagedEntries : e.path # p
    <3>1. /\ (\E e \in UnstagedEntries : e.path = p /\ e.content = tree[p]) <=>
                p \in Paths /\ index[p] # Absent /\ tree[p] # index[p] /\ tree[p] = tree[p]
          /\ (\E e \in UntrackedEntries : e.path = p /\ e.content = tree[p]) <=>
                p \in Paths /\ tree[p] # Absent /\ index[p] = Absent /\ tree[p] = tree[p]
          /\ (\E e \in StagedEntries : e.path = p /\ e.blob = tree[p]) <=>
                p \in Paths /\ index[p] # log[head][p] /\ index[p] = tree[p]
          /\ (\A e \in UnstagedEntries : e.path # p) <=>
                ~(p \in Paths /\ index[p] # Absent /\ tree[p] # index[p])
      BY EntryPaths
    <3>. QED  BY <2>1, <3>1, StatusPathsAre
  <2>. QED  BY <2>1, <2>2, <1>1 DEF Dirt
<1>10. Dirt(d) = {<<p, tree[p]>> : p \in StatusPaths \cap Present}
  BY <1>8, <1>9, Zenon
<1>. QED  BY <1>10 DEF d

-----------------------------------------------------------------------------
(* Freshness, step by step.                                                *)

\* Where the repository does not move, git status shows the same.
LEMMA RepoSame ==
    ASSUME UNCHANGED repo
    PROVE  /\ StatusPaths' = StatusPaths /\ Present' = Present /\ tree' = tree /\ Status' = Status
           /\ StagedEntries' = StagedEntries /\ UnstagedEntries' = UnstagedEntries
           /\ UntrackedEntries' = UntrackedEntries
<1> USE DEF repo
<1>1. Present' = Present
  BY DEF Present
<1>2. StagedEntries' = StagedEntries
  BY DEF StagedEntries, StagedEntry
<1>3. UnstagedEntries' = UnstagedEntries
  BY DEF UnstagedEntries, Entry
<1>4. UntrackedEntries' = UntrackedEntries
  BY <1>1 DEF UntrackedEntries, Entry
<1>5. Status' = Status
  BY <1>2, <1>3, <1>4, Zenon DEF Status, Codes
<1>6. StatusPaths' = StatusPaths
  BY <1>5, Zenon DEF StatusPaths
<1>. QED  BY <1>1, <1>2, <1>3, <1>4, <1>5, <1>6

\* A digest is never the missing fingerprint.
LEMMA DigestIsNoNull ==
    ASSUME NEW s
    PROVE  Digest(s) # NoFp
<1>1. Len(Digest(s)) = 5 /\ Len(NoFp) = 0
  BY DEF Digest, NoFp
<1>. QED  BY <1>1

\* The state the fingerprint is of: the one remembered, if the tree is clean,
\* or the one git status shows.
LEMMA FingerprintIs ==
    ASSUME ~Small, NoFastPath
    PROVE  \/ /\ Status = {} /\ StatusPaths = {} /\ manifest # NoManifest /\ manifest.head = HeadId(process)
              /\ Fingerprint(process).state = manifest.state
              /\ Fingerprint(process).manifest = manifest
           \/ /\ ~(Status = {} /\ manifest # NoManifest /\ manifest.head = HeadId(process))
              /\ Fingerprint(process).state = SlowState(HeadId(process))
              /\ Fingerprint(process).manifest.state = SlowState(HeadId(process))
              /\ Fingerprint(process).manifest # NoManifest
              /\ Fingerprint(process).manifest.head = HeadId(process)
              /\ Fingerprint(process).manifest.aux = SlowAux(SlowState(HeadId(process)))
<1> DEFINE h == HeadId(process)
           proc == IF KnownHead THEN process ELSE [process EXCEPT !.head = h]
<1>1. Fingerprint(process) = Slow(h, proc)
  BY SlowOnly
<1>2. CASE Status = {} /\ manifest # NoManifest /\ manifest.head = h
  <2>1. Slow(h, proc) = Result(manifest.state, manifest, proc)
    BY <1>2, Zenon DEF Slow
  <2>2. StatusPaths = {}
    BY <1>2 DEF StatusPaths
  <2>. QED  BY <1>1, <1>2, <2>1, <2>2 DEF Result
<1>3. CASE ~(Status = {} /\ manifest # NoManifest /\ manifest.head = h)
  <2> DEFINE s == SlowState(h)
             m == [kind |-> "file", head |-> h, status |-> Status, state |-> s, aux |-> SlowAux(s)]
             q == [proc EXCEPT !.fast = [kind |-> "fast", head |-> h, state |-> s, aux |-> NoAux]]
  <2>1. Slow(h, proc) = Result(s, m, q)
    BY <1>3, Zenon DEF Slow
  <2>2. m.state = s /\ m.aux = SlowAux(s) /\ m.head = h /\ m # NoManifest
    <3> HIDE DEF s
    <3>1. m.state = s /\ m.aux = SlowAux(s) /\ m.head = h /\ m.kind = "file"
      OBVIOUS
    <3>2. NoManifest.kind = "none"
      BY DEF NoManifest
    <3>. QED  BY <3>1, <3>2
  <2>3. Result(s, m, q).state = s /\ Result(s, m, q).manifest = m
    BY Zenon DEF Result
  <2> HIDE DEF m, s, q, proc
  <2>4. Fingerprint(process).state = s /\ Fingerprint(process).manifest = m
    BY <1>1, <2>1, <2>3
  <2>. QED  BY <1>3, <2>2, <2>4 DEF s
<1>. QED  BY <1>2, <1>3

\* A build begins with a fingerprint of the tree as it is, and knows its dirt.
LEMMA ProbeBegins ==
    ASSUME GitAssumption, ChunkInv, NEW b \in Builders, NEW cfg, OneInspection(b, cfg),
           FreshInv(b, cfg), NEW c \in Configs, TakeFingerprint(b, c)
    PROVE  ProbeInv(build[b])' /\ NoFastPath' /\ build'[b].cfg = cfg
<1> DEFINE h == HeadId(process)
           f == Fingerprint(process)
<1>1. /\ build'[b].cfg = c /\ build'[b].tree = tree /\ build'[b].state = f.state
      /\ build'[b].fp = Digest(f.state) /\ build'[b].dirty = StatusPaths \cap Present
      /\ manifest' = f.manifest /\ build[b].pc = "idle" /\ work' = work
      /\ UNCHANGED repo
  BY TakeFingerprintBegins DEF ChunkInv, cacheVars
<1>2. ~Small /\ NoFastPath /\ TreeInv /\ c = cfg
  BY DEF OneInspection, FreshInv, ChunkInv
<1>3. StatusPaths' = StatusPaths /\ Present' = Present /\ tree' = tree
  BY <1>1, RepoSame
<1>4. CASE StatusPaths = {} /\ manifest # NoManifest /\ f.state = manifest.state /\ f.manifest = manifest
  <2>1. manifest' = manifest /\ Seen' = Seen /\ build'[b].fp = Seen
    BY <1>1, <1>4 DEF Seen
  <2>2. work.fp = Seen \/ Dirt(Seen) = {}
    BY <1>1, <1>4 DEF FreshInv
  <2>3. Dirt(build'[b].fp) = Dirt(Seen)
    BY <2>1
  <2>4. DirtKnown(build[b])'
    BY <1>1, <1>4 DEF DirtKnown
  <2>5. NoFastPath'
    BY <2>1, <1>2 DEF NoFastPath, Base
  <2>. QED  BY <1>1, <1>2, <1>4, <2>1, <2>2, <2>3, <2>4, <2>5 DEF ProbeInv
<1>5. CASE f.state = SlowState(h) /\ f.manifest.state = SlowState(h) /\ f.manifest # NoManifest
           /\ f.manifest.aux = SlowAux(SlowState(h))
  <2>1. manifest' # NoManifest /\ build'[b].fp = Seen' /\ build'[b].fp = Digest(SlowState(h))
    BY <1>1, <1>5 DEF Seen
  <2>2. Dirt(Digest(SlowState(h))) = {<<p, tree[p]>> : p \in StatusPaths \cap Present}
    BY <1>2, SlowDirt
  <2>3. SlowState(h).dirty = StatusPaths
    BY <1>2, SlowStateIs
  <2>4. \A p \in StatusPaths \cap Present : <<p, tree[p]>> \in Dirt(build'[b].fp)
    BY <2>1, <2>2
  <2>5. \A x \in Dirt(build'[b].fp) : x[1] \in StatusPaths \cap Present /\ tree[x[1]] = x[2]
    BY <2>1, <2>2
  <2>6. manifest'.aux = NoAux \/ Base(manifest'.aux) = {}
    <3>1. manifest'.aux = NoAux \/ manifest'.aux = CleanAux
      BY <1>1, <1>5 DEF SlowAux
    <3>2. CleanAux.files = [p \in Paths |-> 0]
      BY <1>2 DEF CleanAux
    <3>. QED  BY <3>1, <3>2 DEF Base
  <2>7. NoFastPath'
    BY <2>6 DEF NoFastPath, Base, NoAux
  <2>8. DirtKnown(build[b])'
    BY <1>1, <2>4 DEF DirtKnown
  <2>9. build'[b].state.dirty = StatusPaths
    BY <1>1, <1>5, <2>3
  <2>10. \A x \in Dirt(build'[b].fp) :
           x[1] \in build'[b].state.dirty \cap StatusPaths' \cap Present' /\ tree'[x[1]] = x[2]
    BY <2>5, <2>9, <1>3
  <2>. QED  BY <1>1, <1>2, <2>1, <2>7, <2>8, <2>10 DEF ProbeInv
<1>. QED  BY <1>2, <1>4, <1>5, FingerprintIs

\* At its probe a build finds the manifest and the snapshot to agree.
LEMMA ProbeFinds ==
    ASSUME NEW b \in Builders, NEW cfg, FreshInv(b, cfg), build[b].pc = "probe"
    PROVE  /\ ProbeInv(build[b]) /\ build[b].cfg = cfg
           /\ payload # NoSnapshot => payload.chunks = work.files /\ FreshFor(payload.fp, payload.chunks)
           /\ payload # NoSnapshot /\ meta # NoSnapshot => FreshFor(meta.fp, payload.chunks)
           /\ work.fp = build[b].fp => FreshFor(work.fp, work.files)
<1>1. ProbeInv(build[b]) /\ build[b].cfg = cfg
  BY DEF FreshInv
<1>2. work.fp = build[b].fp => FreshFor(work.fp, work.files)
  BY <1>1, DigestIsNoNull DEF FreshInv, ManifestFresh, ProbeInv, Seen
<1>. QED  BY <1>1, <1>2 DEF FreshInv, PayloadKept, MetadataKept

\* Nothing that is restored misses or mistakes a dirty file.
LEMMA RestoredIsFresh ==
    ASSUME GitAssumption, NEW b \in Builders, NEW cfg, FreshInv(b, cfg), TakeSnapshot(b)
    PROVE  /\ Restored(build[b]) = work.files /\ FreshFor(build[b].fp, work.files)
           /\ work.fp = Seen \/ Dirt(Seen) = {}
           /\ DirtKnown(build[b])
<1> DEFINE l == build[b]
<1>1. l.pc = "probe" /\ SnapshotHit(l)
  BY DEF TakeSnapshot, At, Local
<1>2. /\ ProbeInv(l) /\ l.cfg = cfg
      /\ payload # NoSnapshot => payload.chunks = work.files /\ FreshFor(payload.fp, payload.chunks)
      /\ payload # NoSnapshot /\ meta # NoSnapshot => FreshFor(meta.fp, payload.chunks)
      /\ work.fp = l.fp => FreshFor(work.fp, work.files)
  BY <1>1, ProbeFinds
<1>3. Restored(l) = work.files
  BY <1>2 DEF Restored, Loadable
<1>4. CASE Own(l)
  BY <1>2, <1>3, <1>4 DEF Own, ProbeInv
<1>5. CASE ~Own(l)
  <2>1. ~HasFiles(work) /\ Loadable(l.fp, l.cfg)
    BY <1>1, <1>5 DEF SnapshotHit
  <2>2. FreshFor(l.fp, work.files)
    BY <2>1, <1>2 DEF Loadable
  <2>3. ASSUME NEW x \in Dirt(l.fp)
        PROVE  FALSE
    <3>1. x[1] \in Paths /\ x[2] \in Contents /\ work.files[x[1]] = x[2]
      BY <2>2 DEF FreshFor, Dirt
    <3>2. x[2] # Absent
      BY <3>1 DEF GitAssumption
    <3>. QED  BY <3>1, <3>2, <2>1 DEF HasFiles, Files
  <2>4. Dirt(l.fp) = {}
    BY <2>3, Zenon
  <2>. QED  BY <1>2, <1>3, <2>2, <2>4 DEF ProbeInv
<1>. QED  BY <1>4, <1>5

\* A build that reads files sees each dirty file, as it is.
LEMMA DirtIsLive ==
    ASSUME GitAssumption, NEW b \in Builders, NEW cfg, FreshInv(b, cfg), build[b].pc = "probe",
           ~SnapshotHit(build[b]), NEW x \in Dirt(build[b].fp)
    PROVE  /\ x[1] \in Paths /\ x[2] # Absent
           /\ x[1] \in build[b].state.dirty \cap StatusPaths \cap Present /\ tree[x[1]] = x[2]
           /\ Touched(build[b]) = build[b].state.dirty
<1> DEFINE l == build[b]
<1>1. /\ ProbeInv(l) /\ l.cfg = cfg
      /\ work.fp = l.fp => FreshFor(work.fp, work.files)
  BY ProbeFinds
<1>2. x[1] \in Paths /\ x[2] # Absent
  BY DEF Dirt, GitAssumption
<1>3. work.fp # l.fp
  <2> SUFFICES ASSUME work.fp = l.fp
               PROVE  FALSE
    OBVIOUS
  <2>1. work.files[x[1]] = x[2]
    BY <1>1 DEF FreshFor
  <2>2. HasFiles(work)
    BY <2>1, <1>2 DEF HasFiles, Files
  <2>3. Own(l)
    BY <2>2, <1>1 DEF Own, FreshInv
  <2>. QED  BY <2>2, <2>3 DEF SnapshotHit
<1>4. x[1] \in l.state.dirty \cap StatusPaths \cap Present /\ tree[x[1]] = x[2]
  BY <1>1, <1>3 DEF ProbeInv
<1>5. Touched(l) = l.state.dirty
  BY <1>4 DEF Touched
<1>. QED  BY <1>2, <1>4, <1>5

\* A listing that is known for the fingerprint names its dirty files.
LEMMA KnownCovers ==
    ASSUME GitAssumption, NEW b \in Builders, NEW cfg, FreshInv(b, cfg), build[b].pc = "probe",
           ~SnapshotHit(build[b]), KnownListing(build[b]) # NoRecord
    PROVE  Covering(KnownListing(build[b])) /\ KnownListing(build[b]).fp = build[b].fp
<1> DEFINE l == build[b]
           last == listing.last
           exact == {r \in listing.exact : r.fp = l.fp /\ r.cfg = l.cfg}
           touched == [last EXCEPT !.fp = l.fp, !.files = Update(@, Touched(l))]
           kept == [last EXCEPT !.fp = l.fp]
<1>0. ListingsCover
  BY DEF FreshInv
<1>1. CASE exact # {}
  <2>1. KnownListing(l) \in exact
    BY <1>1, Zenon DEF KnownListing
  <2>. QED  BY <2>1, <1>0 DEF ListingsCover
<1>2. CASE exact = {}
  <2>1. last # NoRecord /\ last.cfg = l.cfg /\ Covering(last)
    BY <1>0, <1>2 DEF KnownListing, ListingsCover
  <2>2. CASE last.fp = l.fp /\ ~Partial(l)
    BY <1>2, <2>1, <2>2 DEF KnownListing
  <2>3. CASE ~(last.fp = l.fp /\ ~Partial(l)) /\ Touched(l) # {}
    <3>1. KnownListing(l) = touched
      BY <1>2, <2>1, <2>3, Zenon DEF KnownListing
    <3>2. touched.fp = l.fp /\ touched.files = Update(last.files, Touched(l)) /\ DOMAIN touched = DOMAIN last
      BY <2>1 DEF Covering
    <3>3. Covers(l.fp, Update(last.files, Touched(l)))
      BY DirtIsLive DEF Covers, Update
    <3> HIDE DEF touched
    <3>. QED  BY <2>1, <3>1, <3>2, <3>3 DEF Covering
  <2>4. CASE ~(last.fp = l.fp /\ ~Partial(l)) /\ Touched(l) = {}
    <3>1. KnownListing(l) = kept
      BY <1>2, <2>1, <2>4, Zenon DEF KnownListing
    <3>2. kept.fp = l.fp /\ kept.files = last.files /\ DOMAIN kept = DOMAIN last
      BY <2>1 DEF Covering
    <3>3. Covers(l.fp, last.files)
      BY <2>4, DirtIsLive DEF Covers
    <3> HIDE DEF kept
    <3>. QED  BY <2>1, <3>1, <3>2, <3>3 DEF Covering
  <2>. QED  BY <2>2, <2>3, <2>4
<1>. QED  BY <1>1, <1>2

\* The fields of a listing record.
LEMMA RecordIs ==
    ASSUME NEW files, NEW l, NEW oid
    PROVE  LET r == Record(files, l, oid)
           IN /\ r.files = files /\ r.fp = l.fp /\ r.cfg = l.cfg /\ r.oid = oid
              /\ {"fp", "files", "cfg"} \subseteq DOMAIN r /\ r # NoRecord
<1> DEFINE r == Record(files, l, oid)
<1>1. /\ r.files = files /\ r.fp = l.fp /\ r.cfg = l.cfg /\ r.oid = oid /\ r.kind = "file"
      /\ {"fp", "files", "cfg"} \subseteq DOMAIN r
  BY DEF Record
<1>2. NoRecord.kind = "none"
  BY DEF NoRecord
<1> HIDE DEF r
<1>3. r # NoRecord
  BY <1>1, <1>2
<1>. QED  BY <1>1, <1>3 DEF r

\* The listing taken from the head covers every file there is.
LEMMA HeadCovers ==
    ASSUME GitAssumption, NEW b \in Builders, NEW cfg, FreshInv(b, cfg), build[b].pc = "probe",
           ~SnapshotHit(build[b])
    PROVE  Covering(ByHead(build[b])) /\ ByHead(build[b]).fp = build[b].fp /\ ByHead(build[b]) # NoRecord
<1> DEFINE l == build[b]
           last == listing.last
           files == IF last = NoRecord THEN Present
                    ELSE IF last.oid # HeadTree(l) THEN Present
                    ELSE Update(last.files, StatusPaths) \cap (IF last.cfg = l.cfg THEN Paths ELSE Present)
<1>1. ByHead(l) = Record(files, l, HeadTree(l))
  BY Zenon DEF ByHead
<1>2. Covers(l.fp, files)
  BY DirtIsLive DEF Covers, Update
<1> HIDE DEF files
<1>. QED  BY <1>1, <1>2, RecordIs DEF Covering

\* The files of a build include the dirty ones, and what it records does.
LEMMA FilesCover ==
    ASSUME GitAssumption, NEW b \in Builders, NEW cfg, FreshInv(b, cfg), build[b].pc = "probe",
           ~SnapshotHit(build[b])
    PROVE  Covers(build[b].fp, FilesOf(build[b]))
<1> DEFINE l == build[b]
<1> SUFFICES ASSUME NEW x \in Dirt(l.fp)
             PROVE  x[1] \in FilesOf(l)
  BY DEF Covers
<1>1. /\ x[1] \in Paths /\ x[1] \in l.state.dirty \cap StatusPaths \cap Present
      /\ Touched(l) = l.state.dirty
  BY DirtIsLive
<1>2. CleanHint(l) = {}
  BY <1>1 DEF CleanHint
<1>3. CASE FromManifest(l) # {}
  <2>1. FromManifest(l) = Update(Files(work.files), Touched(l)) \cap (IF work.cfg = l.cfg THEN Paths ELSE Present)
    BY <1>3 DEF FromManifest
  <2>. QED  BY <1>1, <1>2, <1>3, <2>1 DEF FilesOf, Update
<1>4. CASE FromManifest(l) = {} /\ KnownListing(l) # NoRecord
  BY <1>2, <1>4, KnownCovers DEF FilesOf, Covering, Covers
<1>5. CASE FromManifest(l) = {} /\ KnownListing(l) = NoRecord
  BY <1>2, <1>5, HeadCovers DEF FilesOf, Covering, Covers
<1>. QED  BY <1>3, <1>4, <1>5

\* What a build leaves in the listing cache covers every file there is.
LEMMA ListingAfterCovers ==
    ASSUME GitAssumption, NEW b \in Builders, NEW cfg, FreshInv(b, cfg), build[b].pc = "probe",
           ~SnapshotHit(build[b]), listing' = ListingAfter(build[b])
    PROVE  ListingsCover'
<1> DEFINE l == build[b]
           r == IF CleanHint(l) # {} THEN Record(CleanHint(l), l, 0)
                ELSE IF KnownListing(l) # NoRecord THEN KnownListing(l) ELSE ByHead(l)
<1>0. ListingsCover
  BY DEF FreshInv
<1>1. CASE listing' = listing
  BY <1>0, <1>1 DEF ListingsCover
<1>2. CASE listing' # listing
  <2>1. listing' = [last |-> r, exact |-> {q \in listing.exact : q.fp # r.fp \/ q.cfg # r.cfg} \cup {r}]
    BY <1>2, Zenon DEF ListingAfter
  <2>2. r # NoRecord /\ Covering(r)
    <3>1. CASE CleanHint(l) # {}
      <4>1. Touched(l) = {} /\ l.state.clean = CleanHint(l)
        BY <3>1 DEF CleanHint
      <4>2. Dirt(l.fp) = {}
        BY <4>1, DirtIsLive
      <4>. QED  BY <3>1, <4>2, RecordIs DEF Covering, Covers
    <3>2. CASE CleanHint(l) = {} /\ KnownListing(l) # NoRecord
      BY <3>2, KnownCovers
    <3>3. CASE CleanHint(l) = {} /\ KnownListing(l) = NoRecord
      BY <3>3, HeadCovers
    <3>. QED  BY <3>1, <3>2, <3>3
  <2> HIDE DEF r
  <2>3. listing'.last = r /\ \A q \in listing'.exact : q \in listing.exact \/ q = r
    BY <2>1
  <2>. QED  BY <1>0, <2>2, <2>3 DEF ListingsCover
<1>. QED  BY <1>1, <1>2

\* What the step that reads the files leaves behind.
LEMMA ReadFilesIs ==
    ASSUME NEW b \in Builders, Framed, ReadFiles(b)
    PROVE  /\ build[b].pc = "probe" /\ ~SnapshotHit(build[b])
           /\ listing' = ListingAfter(build[b])
           /\ build'[b].pc = "manifest" /\ build'[b].fp = build[b].fp /\ build'[b].cfg = build[b].cfg
           /\ build'[b].tree = build[b].tree /\ build'[b].at = build[b].at /\ build'[b].dirty = build[b].dirty
           /\ build'[b].chunks = Over(FilesOf(build[b]), [p \in FilesOf(build[b]) |-> ChunkOf(p, build[b])])
           /\ build'[b].entries = Over(FilesOf(build[b]), [p \in FilesOf(build[b]) |-> EntryOf(p, build[b])])
           /\ \E rebuilt \in BOOLEAN : build'[b].plan = Plan(build[b], build'[b].entries, rebuilt)
           /\ UNCHANGED <<repo, manifest, work, payload, meta, answer, torn>>
<1> DEFINE l == build[b]
           files == FilesOf(l)
           chunks == Over(files, [p \in files |-> ChunkOf(p, l)])
           entries == Over(files, [p \in files |-> EntryOf(p, l)])
           read == {p \in files : ~Reused(p, l) /\ tree[p] # Absent}
           rebuilt == \E p \in read : <<p, tree[p]>> \notin bundles \/ ~HasFiles(work)
           n == [pc |-> "manifest", fp |-> l.fp, cfg |-> l.cfg, tree |-> l.tree, at |-> l.at, dirty |-> l.dirty,
                 chunks |-> chunks, entries |-> entries, plan |-> Plan(l, entries, rebuilt)]
<1>1. /\ l.pc = "probe" /\ ~SnapshotHit(l) /\ listing' = ListingAfter(l)
      /\ build' = [build EXCEPT ![b] = n]
      /\ UNCHANGED <<repo, manifest, work, payload, meta, answer, torn>>
  BY Zenon DEF ReadFiles, Local, At
<1>2. build'[b] = n
  <2> HIDE DEF n
  <2>. QED  BY <1>1, Zenon DEF Framed
<1>3. rebuilt \in BOOLEAN
  OBVIOUS
<1> HIDE DEF rebuilt, chunks, entries
<1>4. /\ n.pc = "manifest" /\ n.fp = l.fp /\ n.cfg = l.cfg /\ n.tree = l.tree /\ n.at = l.at
      /\ n.dirty = l.dirty /\ n.chunks = chunks /\ n.entries = entries /\ n.plan = Plan(l, entries, rebuilt)
  OBVIOUS
<1> HIDE DEF n
<1>. QED  BY <1>1, <1>2, <1>3, <1>4 DEF chunks, entries

\* A snapshot that is written anew: only if it is to be reused or if nothing
\* is to be written do the entries stay.
LEMMA PlanIs ==
    ASSUME NEW l, NEW entries, NEW rebuilt \in BOOLEAN
    PROVE  /\ Plan(l, entries, rebuilt) \in {"nothing", "meta_only", "reuse", "full"}
           /\ Plan(l, entries, rebuilt) \in {"reuse", "nothing"} => work.files = entries
           /\ Plan(l, entries, rebuilt) = "nothing" => work.fp = l.fp
BY DEF Plan

\* What is read has each dirty file as it is, and an entry for each chunk.
LEMMA ReadingIsFresh ==
    ASSUME GitAssumption, ChunkInv, NEW b \in Builders, NEW cfg, FreshInv(b, cfg), ReadFiles(b)
    PROVE  LateInv(build[b])' /\ ListingsCover' /\ build'[b].pc = "manifest"
<1> DEFINE l == build[b]
           n == build'[b]
           files == FilesOf(l)
<1>1. /\ l.pc = "probe" /\ ~SnapshotHit(l) /\ listing' = ListingAfter(l)
      /\ n.pc = "manifest" /\ n.fp = l.fp /\ n.cfg = l.cfg
      /\ n.tree = l.tree /\ n.at = l.at /\ n.dirty = l.dirty
      /\ n.chunks = Over(files, [p \in files |-> ChunkOf(p, l)])
      /\ n.entries = Over(files, [p \in files |-> EntryOf(p, l)])
      /\ \E rebuilt \in BOOLEAN : n.plan = Plan(l, n.entries, rebuilt)
      /\ UNCHANGED <<repo, manifest, work, payload, meta, answer, torn>>
  BY ReadFilesIs DEF ChunkInv
<1>2. /\ ProbeInv(l) /\ l.cfg = cfg
      /\ payload # NoSnapshot => payload.chunks = work.files /\ FreshFor(payload.fp, payload.chunks)
  BY <1>1, ProbeFinds
<1>3. WarmSnapshot(l) => payload.chunks = work.files
  BY <1>2 DEF WarmSnapshot, Loadable
<1>4. \A p : ChunkOf(p, l) = EntryOf(p, l)
  BY <1>3 DEF ChunkOf, EntryOf
<1>5. n.chunks = n.entries
  <2>1. [p \in files |-> ChunkOf(p, l)] = [p \in files |-> EntryOf(p, l)]
    BY <1>4
  <2>. QED  BY <1>1, <2>1
<1>6. ASSUME NEW x \in Dirt(l.fp)
      PROVE  n.chunks[x[1]] = x[2]
  <2>1. /\ x[1] \in Paths /\ x[2] # Absent
        /\ x[1] \in l.state.dirty \cap StatusPaths \cap Present /\ tree[x[1]] = x[2]
        /\ Touched(l) = l.state.dirty
    BY <1>1, DirtIsLive
  <2>2. x[1] \in files
    BY <1>1, FilesCover DEF Covers
  <2>3. n.chunks[x[1]] = EntryOf(x[1], l)
    <3> HIDE DEF files
    <3>. QED  BY <1>1, <1>4, <2>1, <2>2 DEF Over
  <2>4. ~Reused(x[1], l)
    <3>1. CASE Partial(l)
      <4>1. work.cfg = l.cfg
        BY <1>2, <3>1 DEF Partial, FreshInv
      <4>2. Dirty(l) = Touched(l)
        BY <2>1, <3>1, <4>1 DEF Dirty
      <4>. QED  BY <2>1, <4>2 DEF Reused
    <3>2. CASE ~Partial(l) /\ HasFiles(work)
      <4>1. work.fp = l.fp /\ work.cfg = l.cfg
        BY <1>2, <3>2 DEF Partial, FreshInv
      <4>. QED  BY <1>1, <3>2, <4>1 DEF SnapshotHit, Own
    <3>3. CASE ~HasFiles(work)
      BY <3>3 DEF HasFiles, Reused
    <3>. QED  BY <3>1, <3>2, <3>3
  <2>. QED  BY <2>1, <2>3, <2>4 DEF EntryOf
<1>7. ListingsCover'
  BY <1>1, ListingAfterCovers
<1>8. /\ n.plan \in {"nothing", "meta_only", "reuse", "full"}
      /\ n.plan \in {"reuse", "nothing"} => work.files = n.entries
      /\ n.plan = "nothing" => work.fp = n.fp
  BY <1>1, PlanIs
<1>9. n.fp = Seen' /\ manifest' # NoManifest
  BY <1>1, <1>2 DEF ProbeInv, Seen
<1>10. \A p \in n.dirty : <<p, n.tree[p]>> \in Dirt(n.fp)
  BY <1>1, <1>2 DEF ProbeInv, DirtKnown
<1>11. FreshFor(n.fp, n.chunks)
  BY <1>1, <1>6 DEF FreshFor
<1>12. work' = work
  BY <1>1
<1> HIDE DEF files
<1>13. LateInv(build[b])'
  BY <1>1, <1>5, <1>8, <1>9, <1>10, <1>11, <1>12 DEF LateInv, DirtKnown
<1>. QED  BY <1>1, <1>7, <1>13

\* What holds of the files and of the answers of the one inspection.
LEMMA FreshInit ==
    ASSUME Init, NEW b, NEW cfg, OneInspection(b, cfg)
    PROVE  FreshInv(b, cfg)
<1>1. build[b] = Idle /\ b \in Builders /\ \A c \in Builders : answer[c] = NoAnswer
  BY DEF Init, OneInspection
<1>2. Idle.pc = "idle"
  BY DEF Idle
<1>3. ~HasFiles(work) /\ work.fp = NoFp
  BY DEF Init, NoWork, NoChunks, HasFiles, Files
<1>4. NoFastPath /\ manifest = NoManifest
  BY DEF Init, GitInit, NoFastPath
<1>5. ListingsCover
  BY DEF Init, ListingsCover
<1>. QED  BY <1>1, <1>2, <1>3, <1>4, <1>5
          DEF FreshInv, ManifestFresh, PayloadKept, MetadataKept, AnswersFresh, Late, Init

\* An inspection that returns fresh chunks keeps the invariant.
LEMMA FreshReturn ==
    ASSUME GitAssumption, ChunkInv, NEW b, NEW cfg, OneInspection(b, cfg), FreshInv(b, cfg),
           NEW chunks, Return(b, chunks), FreshFor(build[b].fp, chunks), DirtKnown(build[b]),
           work.fp = Seen \/ Dirt(Seen) = {}, build[b].pc \in {"probe", "done"},
           UNCHANGED <<gitVars, cacheVars>>
    PROVE  FreshInv(b, cfg)'
<1>1. /\ b \in Builders /\ build'[b] = Idle
      /\ answer'[b].chunks = chunks /\ answer'[b].tree = build[b].tree /\ answer'[b].dirty = build[b].dirty
  BY ReturnFrees DEF OneInspection, ChunkInv
<1>2. \A p \in build[b].dirty : chunks[p] = build[b].tree[p]
  <2> SUFFICES ASSUME NEW p \in build[b].dirty
               PROVE  chunks[p] = build[b].tree[p]
    OBVIOUS
  <2> DEFINE x == <<p, build[b].tree[p]>>
  <2>1. x \in Dirt(build[b].fp)
    BY DEF DirtKnown
  <2>2. chunks[x[1]] = x[2]
    BY <2>1 DEF FreshFor
  <2>. QED  BY <2>2
<1>3. AnswersFresh'
  BY <1>1, <1>2 DEF AnswersFresh, OneInspection
<1>4. build'[b].pc = "idle"
  BY <1>1 DEF Idle
<1>5. work' = work /\ payload' = payload /\ meta' = meta /\ listing' = listing /\ manifest' = manifest
  BY DEF gitVars, cacheVars
<1>6. NoFastPath' /\ ListingsCover' /\ ManifestFresh' /\ (HasFiles(work)' => work'.cfg = cfg)
  BY <1>5 DEF NoFastPath, ListingsCover, ManifestFresh, HasFiles, Files, FreshInv, Base, Covering
<1>7. PayloadKept(b)' /\ MetadataKept(b)'
  BY <1>5 DEF PayloadKept, MetadataKept, FreshInv
<1>8. work'.fp = Seen' \/ Dirt(Seen') = {}
  BY <1>5 DEF Seen
<1>. QED  BY <1>3, <1>4, <1>6, <1>7, <1>8 DEF FreshInv, Late

\* A write of a build that knows what it writes.
LEMMA FreshWrite ==
    ASSUME GitAssumption, ChunkInv, NEW b, NEW cfg, OneInspection(b, cfg), FreshInv(b, cfg),
           WriteManifest(b) \/ WritePayload(b) \/ WriteMetadata(b) \/ DropPayload(b)
    PROVE  FreshInv(b, cfg)'
<1> DEFINE l == build[b]
           n == build'[b]
<1>1. PICK pc \in Late : Goto(b, pc) /\ pc # "manifest"
  BY DEF WriteManifest, WritePayload, WriteMetadata, DropPayload, Late
<1>2. /\ l.pc \in Late /\ l.pc # "done" /\ UNCHANGED <<gitVars, listing, answer>>
  BY DEF WriteManifest, WritePayload, WriteMetadata, DropPayload, Late, At
<1>3. b \in Builders /\ Framed /\ Shaped(l) /\ LateInv(l) /\ l.cfg = cfg
  BY <1>2 DEF OneInspection, ChunkInv, FreshInv, Late
<1>4. /\ n.pc = pc /\ n.fp = l.fp /\ n.cfg = l.cfg /\ n.tree = l.tree
      /\ n.dirty = l.dirty /\ n.chunks = l.chunks
      /\ n.entries = l.entries /\ n.plan = l.plan
  BY <1>1, <1>2, <1>3, GotoCarries
<1>5. manifest' = manifest /\ listing' = listing /\ Seen' = Seen /\ answer' = answer
  BY <1>2 DEF gitVars, Seen
<1>6. NoFastPath' /\ ListingsCover' /\ AnswersFresh'
  BY <1>5 DEF NoFastPath, ListingsCover, AnswersFresh, FreshInv, Base, Covering
<1>7. work'.fp = l.fp /\ work'.files = l.entries /\ (work' = work \/ work'.cfg = l.cfg)
  <2>1. CASE WriteManifest(b)
    BY <2>1 DEF WriteManifest, Local
  <2>2. CASE ~WriteManifest(b)
    BY <2>2, <1>3 DEF WritePayload, WriteMetadata, DropPayload, LateInv, At
  <2>. QED  BY <2>1, <2>2
<1>8. FreshFor(l.fp, l.entries)
  BY <1>3 DEF LateInv
<1>9. ManifestFresh' /\ (HasFiles(work)' => work'.cfg = cfg)
  BY <1>3, <1>7, <1>8 DEF ManifestFresh, FreshInv, HasFiles, Files
<1>10. LateInv(build[b])'
  BY <1>1, <1>3, <1>4, <1>5, <1>7 DEF LateInv, DirtKnown
<1>11. PayloadKept(b)' /\ MetadataKept(b)'
  <2>1. CASE WriteManifest(b)
    <3>1. /\ l.pc = "manifest" /\ payload' = payload /\ meta' = meta
          /\ Goto(b, IF l.plan = "full" THEN "payload" ELSE IF l.plan = "nothing" THEN "done" ELSE "metadata")
      BY <2>1 DEF WriteManifest, At, Local
    <3>2. n.pc = (IF l.plan = "full" THEN "payload" ELSE IF l.plan = "nothing" THEN "done" ELSE "metadata")
      BY <3>1, <1>2, <1>3, GotoCarries DEF Late
    <3>3. payload = NoSnapshot \/ (payload.chunks = work.files /\ FreshFor(payload.fp, payload.chunks))
      BY <3>1 DEF FreshInv, PayloadKept
    <3>4. payload = NoSnapshot \/ meta = NoSnapshot \/ FreshFor(meta.fp, payload.chunks)
      BY <3>1 DEF FreshInv, MetadataKept
    <3>5. l.plan \in {"nothing", "meta_only", "reuse", "full"} /\ (l.plan \in {"reuse", "nothing"} => work.files = l.entries)
      BY <1>3 DEF LateInv
    <3>. QED  BY <1>4, <1>7, <3>1, <3>2, <3>3, <3>4, <3>5 DEF PayloadKept, MetadataKept
  <2>2. CASE WritePayload(b)
    <3>1. payload'.chunks = l.chunks /\ payload'.fp = l.fp /\ Goto(b, "metadata")
      BY <2>2 DEF WritePayload, Local
    <3>2. n.pc = "metadata"
      BY <3>1, <1>2, <1>3, GotoCarries DEF Late
    <3>3. l.chunks = l.entries
      BY <1>3 DEF LateInv
    <3>. QED  BY <1>7, <1>8, <3>1, <3>2, <3>3 DEF PayloadKept, MetadataKept
  <2>3. CASE WriteMetadata(b)
    <3>1. /\ l.pc = "metadata" /\ payload' = payload /\ meta'.fp = l.fp /\ work' = work
          /\ Goto(b, IF l.plan = "meta_only" THEN "drop" ELSE "done")
      BY <2>3 DEF WriteMetadata, At, Local
    <3>2. n.pc = (IF l.plan = "meta_only" THEN "drop" ELSE "done")
      BY <3>1, <1>2, <1>3, GotoCarries DEF Late
    <3>3. CASE l.plan = "meta_only"
      BY <3>2, <3>3 DEF PayloadKept, MetadataKept
    <3>4. CASE l.plan # "meta_only"
      <4>1. payload = NoSnapshot \/ (payload.chunks = work.files /\ FreshFor(payload.fp, payload.chunks))
        BY <3>1, <3>4 DEF FreshInv, PayloadKept
      <4>2. work.files = l.entries
        BY <3>1, <1>7
      <4>. QED  BY <1>8, <3>1, <4>1, <4>2 DEF PayloadKept, MetadataKept
    <3>. QED  BY <3>3, <3>4
  <2>4. CASE DropPayload(b)
    BY <2>4 DEF DropPayload, PayloadKept, MetadataKept
  <2>. QED  BY <2>1, <2>2, <2>3, <2>4
<1>12. n.pc \in Late /\ n.pc # "idle" /\ n.pc # "probe" /\ n.cfg = cfg
  BY <1>1, <1>3, <1>4 DEF Late
<1>. QED  BY <1>6, <1>9, <1>10, <1>11, <1>12 DEF FreshInv

\* Every move and every step of the one inspection keeps FreshInv.
LEMMA FreshStep ==
    ASSUME GitAssumption, ChunkInv, NEW b, NEW cfg, OneInspection(b, cfg), FreshInv(b, cfg), [Next]_vars
    PROVE  FreshInv(b, cfg)'
<1>0. b \in Builders /\ Framed
  BY DEF OneInspection, ChunkInv
<1>1. CASE Work \/ UNCHANGED vars
  <2>1. UNCHANGED <<manifest, cacheVars, build, answer>>
    BY <1>1 DEF Work, UserMove, vars, gitVars
  <2>2. work' = work /\ payload' = payload /\ meta' = meta /\ listing' = listing /\ manifest' = manifest
        /\ build' = build /\ answer' = answer /\ Seen' = Seen
    BY <2>1 DEF cacheVars, Seen
  <2>3. /\ NoFastPath' /\ ListingsCover' /\ ManifestFresh' /\ PayloadKept(b)' /\ MetadataKept(b)' /\ AnswersFresh'
        /\ (HasFiles(work)' => work'.cfg = cfg) /\ (build[b].pc # "idle" => build[b].cfg = cfg)'
        /\ (build[b].pc \in Late => LateInv(build[b]))'
        /\ (build[b].pc = "idle" /\ manifest # NoManifest => work.fp = Seen \/ Dirt(Seen) = {})'
    BY <2>2 DEF NoFastPath, ListingsCover, ManifestFresh, PayloadKept, MetadataKept, AnswersFresh, FreshInv,
                HasFiles, Files, LateInv, DirtKnown, Base, Covering
  <2>4. (build[b].pc = "probe" => ProbeInv(build[b]))'
    <3>1. CASE Work
      BY <1>0, <3>1, <2>2 DEF Work, At
    <3>2. CASE UNCHANGED vars
      <4>1. UNCHANGED repo
        BY <3>2 DEF vars, gitVars
      <4>2. StatusPaths' = StatusPaths /\ Present' = Present /\ tree' = tree
        BY <4>1, RepoSame
      <4>. QED  BY <2>2, <4>2 DEF ProbeInv, DirtKnown, FreshInv
    <3>. QED  BY <1>1, <3>1, <3>2
  <2>. QED  BY <2>3, <2>4 DEF FreshInv
<1>2. ASSUME NEW c \in Configs, TakeFingerprint(b, c)
      PROVE  FreshInv(b, cfg)'
  <2>1. ProbeInv(build[b])' /\ NoFastPath' /\ build'[b].cfg = cfg
    BY <1>0, <1>2, ProbeBegins
  <2>2. build'[b].pc = "probe" /\ build[b].pc = "idle" /\ UNCHANGED <<cacheVars, answer>>
    BY <1>0, <1>2, TakeFingerprintBegins
  <2>3. work' = work /\ payload' = payload /\ meta' = meta /\ listing' = listing /\ answer' = answer
    BY <2>2 DEF cacheVars
  <2>. QED  BY <2>1, <2>2, <2>3 DEF FreshInv, ListingsCover, ManifestFresh, PayloadKept, MetadataKept, AnswersFresh,
                                    HasFiles, Files, Late, Covering
<1>3. ASSUME TakeSnapshot(b)
      PROVE  FreshInv(b, cfg)'
  <2>1. Return(b, Restored(build[b])) /\ UNCHANGED <<gitVars, cacheVars>> /\ build[b].pc = "probe"
    BY <1>3 DEF TakeSnapshot, Local, At
  <2>2. /\ Restored(build[b]) = work.files /\ FreshFor(build[b].fp, work.files)
        /\ work.fp = Seen \/ Dirt(Seen) = {}
        /\ DirtKnown(build[b])
    BY <1>0, <1>3, RestoredIsFresh
  <2>3. Return(b, work.files)
    BY <2>1, <2>2
  <2>. QED  BY <2>1, <2>2, <2>3, FreshReturn
<1>4. ASSUME ReadFiles(b)
      PROVE  FreshInv(b, cfg)'
  <2>1. LateInv(build[b])' /\ ListingsCover' /\ build'[b].pc = "manifest"
    BY <1>0, <1>4, ReadingIsFresh
  <2>2. build[b].pc = "probe" /\ build'[b].cfg = build[b].cfg /\ UNCHANGED <<repo, manifest, work, payload, meta, answer, torn>>
    BY <1>0, <1>4, ReadFilesIs
  <2>. QED  BY <2>1, <2>2 DEF FreshInv, NoFastPath, ManifestFresh, PayloadKept, MetadataKept, AnswersFresh,
                              HasFiles, Files, Base
<1>5. ASSUME Finish(b)
      PROVE  FreshInv(b, cfg)'
  <2>1. Return(b, build[b].chunks) /\ UNCHANGED <<gitVars, cacheVars>> /\ build[b].pc = "done"
    BY <1>5 DEF Finish, Local, At
  <2>2. FreshFor(build[b].fp, build[b].chunks) /\ work.fp = Seen /\ DirtKnown(build[b])
    BY <2>1 DEF FreshInv, LateInv, Late
  <2>. QED  BY <2>1, <2>2, FreshReturn
<1>6. ASSUME WriteManifest(b) \/ WritePayload(b) \/ WriteMetadata(b) \/ DropPayload(b)
      PROVE  FreshInv(b, cfg)'
  BY <1>6, FreshWrite
<1>7. ~Kill(b)
  BY DEF Kill, OneInspection
<1>8. ASSUME BuildStep(b)
      PROVE  FreshInv(b, cfg)'
  BY <1>8, <1>2, <1>3, <1>4, <1>5, <1>6, <1>7 DEF BuildStep
<1>. QED  BY <1>1, <1>8 DEF Next, OneInspection

\* One inspection at a time, of one configuration, that nobody kills: the
\* manifest, the snapshot and the listings have the dirty files of the
\* fingerprints they can be found under.
THEOREM FreshInvariant ==
    ASSUME NEW one, NEW cfg, OneInspection(one, cfg)
    PROVE  Spec => []FreshInv(one, cfg)
<1>1. Init => FreshInv(one, cfg)
  BY FreshInit
<1>2. ChunkInv /\ FreshInv(one, cfg) /\ [Next]_vars => FreshInv(one, cfg)'
  BY FreshStep, GitAssumption
<1>. QED  BY <1>1, <1>2, ChunkInvariant, PTL DEF Spec

\* Whatever is edited, staged, committed, checked out or deleted between two
\* inspections, the next one has every file git calls dirty as it is.
THEOREM DirtyFilesAreFresh ==
    ASSUME NEW one, NEW cfg, OneInspection(one, cfg)
    PROVE  Spec => []DirtyIsFresh
<1>1. FreshInv(one, cfg) => DirtyIsFresh
  BY DEF FreshInv, AnswersFresh, DirtyIsFresh, Answers
<1>. QED  BY <1>1, FreshInvariant, PTL

-----------------------------------------------------------------------------
(* Repetition.  What identifies the commit to a fingerprint: a process     *)
(* keeps what it has seen first, a new one asks.                           *)

HeadNow == IF Warm THEN manifest.head ELSE head
HeadInv ==
    /\ {"head", "oid", "fast"} \subseteq DOMAIN process
    /\ manifest = NoManifest \/ ~Warm => process.head = 0
    /\ manifest # NoManifest =>
          /\ Warm => manifest.head # 0 /\ process.head = manifest.head
          /\ ~Warm /\ manifest.aux # NoAux => manifest.aux.head = manifest.head
          /\ manifest.state.clean = {}

Shown(h) == <<h, StagedEntries, UnstagedEntries, UntrackedEntries, FALSE>>

\* The fingerprint manifest is of the tree as it is.
Settled ==
    /\ manifest # NoManifest /\ manifest.head = HeadNow
    /\ Status = {} \/ Seen = Shown(manifest.head)

\* The records of a listing that finds nothing.
RecordsOf(fp, cfg) == {r \in listing.exact : r.fp = fp /\ r.cfg = cfg}
ListedEmpty(fp, cfg) ==
    RecordsOf(fp, cfg) # {} /\ \A r \in RecordsOf(fp, cfg) : r.files \cap Present = {}

\* What the next inspection finds is what the last one returned.
Current(b) == answer[b] # NoAnswer /\ answer[b].at = moves
Stays(b, cfg) ==
    /\ work.files = answer[b].chunks
    /\ HasFiles(work) => work.fp = Seen
    /\ ~HasFiles(work) => Loadable(Seen, cfg) \/ ListedEmpty(Seen, cfg)

OnPaths(files) == files = [p \in Paths |-> files[p]]

RepeatInv(b, cfg) ==
    /\ HeadInv
    /\ answer[b] # NoAnswer => answer[b].at \in 0 .. moves
    /\ build[b].pc # "idle" => build[b].at = moves /\ Settled
    /\ build[b].pc = "probe" => build[b].state.clean = {}
    /\ Current(b) => Settled /\ answer[b].fp = Seen
    /\ Current(b) /\ build[b].pc \in {"idle", "probe"} => Stays(b, cfg)
    /\ Current(b) /\ build[b].pc \in Late => build[b].chunks = answer[b].chunks
    /\ build[b].pc \in Late /\ Files(build[b].entries) = {} => ListedEmpty(build[b].fp, cfg)
    /\ build[b].pc \in Late => OnPaths(build[b].entries)
    /\ OnPaths(work.files)

\* What a fingerprint takes for the head commit.
LEMMA HeadIdIs ==
    ASSUME HeadInv
    PROVE  /\ manifest # NoManifest => HeadId(process) = HeadNow
           /\ manifest = NoManifest \/ ~Warm => HeadId(process) = head
BY DEF HeadInv, HeadId, HeadNow, KnownHead

\* A fingerprint taken again of the same tree is the same.
LEMMA SettledAgain ==
    ASSUME ~Small, NoFastPath, HeadInv, Settled
    PROVE  Digest(Fingerprint(process).state) = Seen
<1>1. HeadId(process) = manifest.head
  BY HeadIdIs DEF Settled
<1>2. CASE Status = {}
  BY <1>1, <1>2, FingerprintIs DEF Settled, Seen
<1>3. CASE Status # {}
  <2>1. Fingerprint(process).state = SlowState(manifest.head)
    BY <1>1, <1>3, FingerprintIs
  <2>2. Digest(SlowState(manifest.head)) = Shown(manifest.head)
    BY SlowStateIs DEF Shown
  <2>. QED  BY <1>3, <2>1, <2>2 DEF Settled
<1>. QED  BY <1>2, <1>3

\* What a process remembers after a fingerprint.
LEMMA ProcessAfter ==
    ASSUME ~Small, NoFastPath, HeadInv
    PROVE  /\ {"head", "oid", "fast"} \subseteq DOMAIN Fingerprint(process).process
           /\ Fingerprint(process).process.head =
                 IF KnownHead THEN process.head ELSE HeadId(process)
<1> DEFINE h == HeadId(process)
           proc == IF KnownHead THEN process ELSE [process EXCEPT !.head = h]
           fast == [kind |-> "fast", head |-> h, state |-> SlowState(h), aux |-> NoAux]
           q == [proc EXCEPT !.fast = fast]
<1>1. Fingerprint(process) = Slow(h, proc)
  BY SlowOnly
<1>2. {"head", "oid", "fast"} \subseteq DOMAIN proc /\ proc.head = (IF KnownHead THEN process.head ELSE h)
  <2> HIDE DEF h
  <2>. QED  BY DEF HeadInv
<1> HIDE DEF proc, fast
<1>3. {"head", "oid", "fast"} \subseteq DOMAIN q /\ q.head = proc.head
  BY <1>2
<1>4. Slow(h, proc).process = proc \/ Slow(h, proc).process = q
  <2>1. CASE Status = {} /\ manifest # NoManifest /\ manifest.head = h
    BY <2>1 DEF Slow, Result
  <2>2. CASE ~(Status = {} /\ manifest # NoManifest /\ manifest.head = h)
    <3>1. \E m : Slow(h, proc) = Result(SlowState(h), m, q)
      BY <2>2, Zenon DEF Slow, fast
    <3> HIDE DEF q
    <3>. QED  BY <3>1 DEF Result
  <2>. QED  BY <2>1, <2>2
<1> HIDE DEF h, q
<1>. QED  BY <1>1, <1>2, <1>3, <1>4 DEF h

\* A fingerprint just taken is of the tree as it is.
LEMMA FingerprintSettles ==
    ASSUME TreeInv, ~Small, NoFastPath, HeadInv, NEW b \in Builders, Framed, NEW c, TakeFingerprint(b, c)
    PROVE  HeadInv' /\ Settled' /\ build'[b].state.clean = {} /\ (Settled => Seen' = Seen)
<1> DEFINE f == Fingerprint(process)
           h == HeadId(process)
<1>1. /\ build'[b].state = f.state /\ manifest' = f.manifest
      /\ process' = (IF Warm THEN f.process ELSE NoProcess) /\ UNCHANGED repo
  BY TakeFingerprintBegins
<1>2. /\ Status' = Status /\ head' = head
      /\ StagedEntries' = StagedEntries /\ UnstagedEntries' = UnstagedEntries /\ UntrackedEntries' = UntrackedEntries
  BY <1>1, RepoSame DEF repo
<1>3. CASE /\ Status = {} /\ manifest # NoManifest /\ manifest.head = h
           /\ f.state = manifest.state /\ f.manifest = manifest
  <2>1. manifest' = manifest /\ Seen' = Seen
    BY <1>1, <1>3 DEF Seen
  <2>2. build'[b].state.clean = {}
    BY <1>1, <1>3 DEF HeadInv
  <2>3. manifest.head = HeadNow
    BY <1>3, HeadIdIs
  <2>4. Settled'
    BY <1>2, <1>3, <2>1, <2>3 DEF Settled, HeadNow
  <2>5. HeadInv'
    <3>1. CASE Warm
      BY <1>1, <2>1, <3>1, <1>3, <2>3, ProcessAfter DEF HeadInv
    <3>2. CASE ~Warm
      <4>1. process' = NoProcess
        BY <1>1, <3>2
      <4>2. {"head", "oid", "fast"} \subseteq DOMAIN process' /\ process'.head = 0
        BY <4>1 DEF NoProcess
      <4>. QED  BY <1>3, <2>1, <3>2, <4>2 DEF HeadInv
    <3>. QED  BY <3>1, <3>2
  <2>. QED  BY <2>1, <2>2, <2>4, <2>5
<1>4. CASE /\ ~(Status = {} /\ manifest # NoManifest /\ manifest.head = h)
           /\ f.state = SlowState(h) /\ f.manifest.state = SlowState(h) /\ f.manifest # NoManifest
           /\ f.manifest.head = h /\ f.manifest.aux = SlowAux(SlowState(h))
  <2>1. manifest' # NoManifest /\ manifest'.head = h /\ Seen' = Shown(h) /\ SlowState(h).clean = {}
    BY <1>1, <1>4, SlowStateIs DEF Seen, Shown
  <2>2. build'[b].state.clean = {} /\ manifest'.state.clean = {}
    BY <1>1, <1>4, <2>1
  <2>3. ~Warm => h = head
    BY HeadIdIs
  <2>4. Shown(manifest.head)' = Shown(h)
    <3> HIDE DEF h
    <3>. QED  BY <1>2, <2>1 DEF Shown
  <2>5. Settled'
    BY <1>2, <2>1, <2>3, <2>4 DEF Settled, HeadNow
  <2>6. HeadInv'
    <3>1. CASE Warm
      <4>1. h # 0
        BY <3>1, HeadIdIs, <1>1 DEF HeadInv, HeadNow, TreeInv
      <4>2. process'.head = h /\ {"head", "oid", "fast"} \subseteq DOMAIN process'
        BY <1>1, <3>1, ProcessAfter, HeadIdIs DEF HeadInv, KnownHead, HeadNow
      <4> HIDE DEF h
      <4>. QED  BY <2>1, <2>2, <3>1, <4>1, <4>2 DEF HeadInv
    <3>2. CASE ~Warm
      <4>1. process' = NoProcess
        BY <1>1, <3>2
      <4>2. {"head", "oid", "fast"} \subseteq DOMAIN process' /\ process'.head = 0
        BY <4>1 DEF NoProcess
      <4>3. manifest'.aux = NoAux \/ manifest'.aux.head = head
        <5>1. manifest'.aux = NoAux \/ manifest'.aux = CleanAux
          BY <1>1, <1>4 DEF SlowAux
        <5>2. CleanAux.head = head
          BY DEF CleanAux
        <5>. QED  BY <5>1, <5>2
      <4>4. manifest'.aux # NoAux => manifest'.aux.head = manifest'.head
        BY <2>1, <2>3, <3>2, <4>3
      <4>5. (manifest.aux # NoAux => manifest.aux.head = manifest.head)'
        BY <4>4 DEF NoAux
      <4>. QED  BY <2>1, <2>2, <3>2, <4>2, <4>5 DEF HeadInv
    <3>. QED  BY <3>1, <3>2
  <2>7. Settled => Seen' = Seen
    <3>1. ASSUME Settled
          PROVE  Digest(f.state) = Seen
      BY <3>1, SettledAgain
    <3>2. Digest(f.state) = Seen'
      BY <1>1, <1>4 DEF Seen
    <3>. QED  BY <3>1, <3>2
  <2>. QED  BY <2>2, <2>5, <2>6, <2>7
<1>. QED  BY <1>3, <1>4, FingerprintIs

\* A listing that is taken again was made under the same configuration.
LEMMA KnownIsOwn ==
    ASSUME NEW b \in Builders, NEW cfg, FreshInv(b, cfg), KnownListing(build[b]) # NoRecord
    PROVE  KnownListing(build[b]).cfg = build[b].cfg
<1> DEFINE l == build[b]
           last == listing.last
           exact == {r \in listing.exact : r.fp = l.fp /\ r.cfg = l.cfg}
           touched == [last EXCEPT !.fp = l.fp, !.files = Update(@, Touched(l))]
           kept == [last EXCEPT !.fp = l.fp]
<1>0. ListingsCover
  BY DEF FreshInv
<1>1. CASE exact # {}
  <2>1. KnownListing(l) \in exact
    BY <1>1, Zenon DEF KnownListing
  <2>. QED  BY <2>1
<1>2. CASE exact = {}
  <2>1. last # NoRecord /\ last.cfg = l.cfg /\ Covering(last)
    BY <1>0, <1>2 DEF KnownListing, ListingsCover
  <2>2. KnownListing(l) \in {last, touched, kept}
    BY <1>2, <2>1, Zenon DEF KnownListing
  <2>3. touched.cfg = last.cfg /\ kept.cfg = last.cfg
    BY <2>1 DEF Covering
  <2> HIDE DEF touched, kept
  <2>. QED  BY <2>1, <2>2, <2>3
<1>. QED  BY <1>1, <1>2

\* A build that finds nothing records an empty listing.
LEMMA EmptyIsListed ==
    ASSUME GitAssumption, ChunkInv, NEW b \in Builders, NEW cfg, FreshInv(b, cfg), ReadFiles(b),
           build[b].state.clean = {}, Files(build'[b].entries) = {}
    PROVE  ListedEmpty(build[b].fp, cfg)'
<1> DEFINE l == build[b]
           n == build'[b]
           files == FilesOf(l)
           r == IF KnownListing(l) # NoRecord THEN KnownListing(l) ELSE ByHead(l)
<1>1. /\ l.pc = "probe" /\ ~SnapshotHit(l) /\ listing' = ListingAfter(l)
      /\ n.fp = l.fp /\ n.entries = Over(files, [p \in files |-> EntryOf(p, l)])
      /\ UNCHANGED repo
  BY ReadFilesIs DEF ChunkInv
<1>2. /\ ProbeInv(l) /\ l.cfg = cfg
      /\ payload # NoSnapshot => payload.chunks = work.files /\ FreshFor(payload.fp, payload.chunks)
  BY <1>1, ProbeFinds
<1>3. \A p \in Paths \cap files : n.entries[p] = EntryOf(p, l)
  <2> HIDE DEF files
  <2>. QED  BY <1>1 DEF Over
<1>4. \A p \in Paths \cap files : EntryOf(p, l) = Absent
  BY <1>3 DEF Files
<1>5. \A p \in Paths \cap files : ~Reused(p, l) /\ p \notin Present
  BY <1>4 DEF EntryOf, Reused, Files, Present
<1>6. CleanHint(l) = {}
  BY DEF CleanHint
<1>7. FromManifest(l) = {}
  <2> SUFFICES ASSUME FromManifest(l) # {}
               PROVE  FALSE
    OBVIOUS
  <2>1. files = FromManifest(l)
    BY <1>6 DEF FilesOf
  <2>2. /\ Partial(l) /\ Touched(l) # {}
        /\ FromManifest(l) = Update(Files(work.files), Touched(l)) \cap (IF work.cfg = l.cfg THEN Paths ELSE Present)
    BY DEF FromManifest
  <2>3. work.cfg = l.cfg
    BY <1>2, <2>2 DEF FreshInv, Partial
  <2>4. PICK p \in FromManifest(l) : TRUE
    OBVIOUS
  <2>5. p \in Paths \cap files /\ p \in Update(Files(work.files), Touched(l))
    BY <2>1, <2>2, <2>3, <2>4
  <2>6. p \in Files(work.files) \ Touched(l)
    BY <2>5, <1>5 DEF Update
  <2>7. Dirty(l) = Touched(l)
    BY <2>2, <2>3 DEF Dirty
  <2>8. WarmSnapshot(l) => payload.chunks[p] # Absent
    BY <1>2, <2>6 DEF WarmSnapshot, Loadable, Files
  <2>9. Reused(p, l)
    BY <2>6, <2>7, <2>8 DEF Reused
  <2>. QED  BY <1>5, <2>5, <2>9
<1>8. files = r.files /\ files \cap Present = {}
  <2>1. files = r.files
    BY <1>6, <1>7 DEF FilesOf
  <2>2. Present \subseteq Paths
    BY DEF Present
  <2>. QED  BY <1>5, <2>1, <2>2
<1>9. r.fp = l.fp /\ r.cfg = cfg
  <2>1. CASE KnownListing(l) # NoRecord
    BY <1>1, <1>2, <2>1, KnownCovers, KnownIsOwn
  <2>2. CASE KnownListing(l) = NoRecord
    <3>1. PICK found : ByHead(l) = Record(found, l, HeadTree(l))
      BY Zenon DEF ByHead
    <3>2. ByHead(l).cfg = l.cfg /\ ByHead(l).fp = l.fp
      BY <3>1, RecordIs
    <3>. QED  BY <1>2, <2>2, <3>2
  <2>. QED  BY <2>1, <2>2
<1>10. listing' = [last |-> r, exact |-> {q \in listing.exact : q.fp # r.fp \/ q.cfg # r.cfg} \cup {r}]
  BY <1>1, <1>6, <1>7, Zenon DEF ListingAfter
<1> HIDE DEF r, files
<1>11. \A q : q \in listing'.exact /\ q.fp = l.fp /\ q.cfg = cfg <=> q = r
  BY <1>9, <1>10
<1>12. Present' = Present
  BY <1>1, RepoSame
<1>. QED  BY <1>1, <1>8, <1>11, <1>12 DEF ListedEmpty, RecordsOf

\* An inspection of an untouched tree that has to read again finds what the
\* last one found: nothing.
LEMMA ReadAgain ==
    ASSUME GitAssumption, ChunkInv, NEW b \in Builders, NEW cfg, FreshInv(b, cfg), ReadFiles(b),
           build[b].state.clean = {}, Stays(b, cfg), OnPaths(work.files)
    PROVE  build'[b].chunks = answer[b].chunks
<1> DEFINE l == build[b]
           n == build'[b]
           files == FilesOf(l)
<1>1. /\ l.pc = "probe" /\ ~SnapshotHit(l)
      /\ n.chunks = Over(files, [p \in files |-> ChunkOf(p, l)])
  BY ReadFilesIs DEF ChunkInv
<1>2. ProbeInv(l) /\ l.cfg = cfg /\ l.fp = Seen
  BY <1>1, ProbeFinds DEF ProbeInv
<1>3. ~HasFiles(work)
  BY <1>1, <1>2 DEF SnapshotHit, Own, Stays, FreshInv
<1>4. ListedEmpty(l.fp, cfg)
  BY <1>1, <1>2, <1>3 DEF SnapshotHit, Stays
<1>5. FromManifest(l) = {} /\ CleanHint(l) = {} /\ ~Partial(l)
  BY <1>3 DEF FromManifest, CleanHint, Partial
<1>6. KnownListing(l) \in RecordsOf(l.fp, cfg)
  <2>1. {r \in listing.exact : r.fp = l.fp /\ r.cfg = l.cfg} # {}
    BY <1>2, <1>4 DEF ListedEmpty, RecordsOf
  <2>2. KnownListing(l) \in {r \in listing.exact : r.fp = l.fp /\ r.cfg = l.cfg}
    BY <2>1, Zenon DEF KnownListing
  <2>. QED  BY <1>2, <2>2 DEF RecordsOf
<1>7. KnownListing(l) # NoRecord
  BY <1>6 DEF RecordsOf, FreshInv, ListingsCover
<1>8. files \cap Present = {}
  BY <1>4, <1>5, <1>6, <1>7 DEF FilesOf, ListedEmpty
<1>9. \A p \in Paths \cap files : ChunkOf(p, l) = Absent
  BY <1>3, <1>5, <1>8 DEF ChunkOf, Reused, HasFiles, WarmSnapshot, Present
<1> HIDE DEF files
<1>10. n.chunks = [p \in Paths |-> Absent]
  BY <1>1, <1>9 DEF Over
<1>11. work.files = [p \in Paths |-> Absent]
  BY <1>3 DEF OnPaths, HasFiles, Files
<1>. QED  BY <1>10, <1>11 DEF Stays

\* RepeatInv holds before the first inspection.
LEMMA RepeatInit ==
    ASSUME GitAssumption, Init, NEW b, NEW cfg, OneInspection(b, cfg)
    PROVE  RepeatInv(b, cfg)
<1>1. build[b] = Idle /\ b \in Builders /\ answer[b] = NoAnswer
  BY DEF Init, OneInspection
<1>2. Idle.pc = "idle"
  BY DEF Idle
<1>3. HeadInv
  <2>1. process = NoProcess /\ manifest = NoManifest
    BY DEF Init, GitInit
  <2>2. {"head", "oid", "fast"} \subseteq DOMAIN NoProcess /\ NoProcess.head = 0
    BY DEF NoProcess
  <2>. QED  BY <2>1, <2>2 DEF HeadInv
<1>4. OnPaths(work.files)
  BY DEF Init, OnPaths, NoWork, NoChunks
<1>. QED  BY <1>1, <1>2, <1>3, <1>4 DEF RepeatInv, Current, Late

\* What a step that leaves repository and fingerprint manifest alone leaves.
LEMMA SettledSame ==
    ASSUME UNCHANGED <<repo, manifest>>
    PROVE  /\ Seen' = Seen /\ Settled' = Settled /\ moves' = moves /\ Present' = Present
<1>1. Status' = Status /\ StagedEntries' = StagedEntries /\ UnstagedEntries' = UnstagedEntries
      /\ UntrackedEntries' = UntrackedEntries /\ Present' = Present
  BY RepoSame
<1>2. manifest' = manifest /\ moves' = moves /\ head' = head
  BY DEF repo
<1>3. Seen' = Seen
  BY <1>2 DEF Seen
<1>. QED  BY <1>1, <1>2, <1>3 DEF Settled, HeadNow, Shown

\* What the property asks of a step.
Unaltered(c) ==
    /\ answer[c] # NoAnswer /\ answer'[c] # answer[c]
    /\ answer'[c].at = answer[c].at /\ answer'[c].cfg = answer[c].cfg
    => torn \/ answer'[c].chunks = answer[c].chunks

\* A build that is over answers what the one before it answered.
LEMMA RepeatReturn ==
    ASSUME ChunkInv, NEW b, NEW cfg, OneInspection(b, cfg), FreshInv(b, cfg), RepeatInv(b, cfg),
           Return(b, work.files), build[b].pc # "idle", UNCHANGED <<gitVars, cacheVars>>,
           Current(b) => work.files = answer[b].chunks,
           build[b].fp = Seen, HasFiles(work) => work.fp = Seen,
           ~HasFiles(work) => Loadable(Seen, cfg) \/ ListedEmpty(Seen, cfg)
    PROVE  RepeatInv(b, cfg)' /\ Unaltered(b)
<1>1. /\ b \in Builders /\ build'[b] = Idle
      /\ answer'[b].chunks = work.files /\ answer'[b].at = build[b].at /\ answer'[b].fp = build[b].fp
  BY ReturnFrees DEF OneInspection, ChunkInv
<1>2. build[b].at = moves /\ Settled /\ HeadInv /\ OnPaths(work.files) /\ TreeInv
  BY DEF RepeatInv, ChunkInv
<1>3. build'[b].pc = "idle" /\ "idle" \notin Late
  BY <1>1 DEF Idle, Late
<1>4. UNCHANGED <<repo, manifest>> /\ process' = process /\ work' = work /\ payload' = payload
      /\ meta' = meta /\ listing' = listing
  BY DEF gitVars, cacheVars
<1>5. Seen' = Seen /\ Settled' = Settled /\ moves' = moves /\ Present' = Present
  BY <1>4, SettledSame
<1>6. HeadInv'
  BY <1>2, <1>4 DEF HeadInv
<1>7. Loadable(Seen, cfg)' = Loadable(Seen, cfg) /\ ListedEmpty(Seen, cfg)' = ListedEmpty(Seen, cfg)
      /\ HasFiles(work)' = HasFiles(work)
  BY <1>4, <1>5 DEF Loadable, Matches, Files, ListedEmpty, RecordsOf, HasFiles
<1>8. Stays(b, cfg)'
  BY <1>1, <1>4, <1>5, <1>7 DEF Stays
<1>9. OnPaths(work.files)'
  BY <1>2, <1>4 DEF OnPaths
<1>10. answer'[b].at \in 0 .. moves' /\ answer'[b].fp = Seen'
  BY <1>1, <1>2, <1>5 DEF TreeInv
<1>11. RepeatInv(b, cfg)'
  BY <1>2, <1>3, <1>5, <1>6, <1>8, <1>9, <1>10 DEF RepeatInv
<1>12. Unaltered(b)
  BY <1>1, <1>2 DEF Unaltered, Current
<1>. QED  BY <1>11, <1>12

\* A write of a build whose answer is settled.
LEMMA RepeatWrite ==
    ASSUME ChunkInv, NEW b, NEW cfg, OneInspection(b, cfg), FreshInv(b, cfg), RepeatInv(b, cfg),
           WriteManifest(b) \/ WritePayload(b) \/ WriteMetadata(b) \/ DropPayload(b)
    PROVE  RepeatInv(b, cfg)' /\ Unaltered(b)
<1> DEFINE l == build[b]
           n == build'[b]
<1>1. PICK pc \in Late : Goto(b, pc) /\ pc # "manifest"
  BY DEF WriteManifest, WritePayload, WriteMetadata, DropPayload, Late
<1>2. /\ l.pc \in Late /\ UNCHANGED <<gitVars, listing, answer>>
  BY DEF WriteManifest, WritePayload, WriteMetadata, DropPayload, Late, At
<1>3. b \in Builders /\ Framed /\ Shaped(l) /\ TreeInv
  BY DEF OneInspection, ChunkInv
<1>4. /\ n.pc = pc /\ n.fp = l.fp /\ n.at = l.at /\ n.chunks = l.chunks /\ n.entries = l.entries
  BY <1>1, <1>2, <1>3, GotoCarries
<1>5. UNCHANGED <<repo, manifest>> /\ process' = process /\ listing' = listing /\ answer' = answer
  BY <1>2 DEF gitVars
<1>6. Seen' = Seen /\ Settled' = Settled /\ moves' = moves /\ Present' = Present
  BY <1>5, SettledSame
<1>7. HeadInv'
  BY <1>5 DEF HeadInv, RepeatInv
<1>8. work'.files = work.files \/ work'.files = l.entries
  BY DEF WriteManifest, WritePayload, WriteMetadata, DropPayload, Local
<1>9. OnPaths(work.files)' /\ OnPaths(n.entries)
  BY <1>2, <1>4, <1>8 DEF OnPaths, RepeatInv
<1>10. Files(l.entries) = {} => ListedEmpty(l.fp, cfg)
  BY <1>2 DEF RepeatInv
<1>11. Files(n.entries) = {} => ListedEmpty(build[b].fp, cfg)'
  BY <1>4, <1>5, <1>6, <1>10 DEF ListedEmpty, RecordsOf
<1>12. n.pc \notin {"idle", "probe"} /\ l.pc # "idle"
  BY <1>1, <1>2, <1>4 DEF Late
<1>13. Current(b)' = Current(b)
  BY <1>5, <1>6 DEF Current
<1>14. Current(b) => n.chunks = answer'[b].chunks /\ Settled' /\ answer'[b].fp = Seen'
  BY <1>2, <1>4, <1>5, <1>6 DEF RepeatInv
<1>15. n.at = moves' /\ Settled'
  BY <1>4, <1>6, <1>12 DEF RepeatInv
<1>16. (answer[b] # NoAnswer => answer[b].at \in 0 .. moves)'
  BY <1>5, <1>6 DEF RepeatInv
<1>17. (Files(build[b].entries) = {} => ListedEmpty(build[b].fp, cfg))'
  BY <1>11 DEF Files
<1>18. OnPaths(build[b].entries)'
  BY <1>9 DEF OnPaths
<1> HIDE DEF n
<1>19. RepeatInv(b, cfg)'
  BY <1>7, <1>9, <1>12, <1>13, <1>14, <1>15, <1>16, <1>17, <1>18 DEF RepeatInv, n
<1>20. Unaltered(b)
  BY <1>5 DEF Unaltered
<1>. QED  BY <1>19, <1>20

\* Every move and every step of the one inspection keeps RepeatInv and repeats
\* no answer with other chunks.
LEMMA RepeatStep ==
    ASSUME GitAssumption, ChunkInv, NEW b, NEW cfg, OneInspection(b, cfg), FreshInv(b, cfg),
           RepeatInv(b, cfg), [Next]_vars
    PROVE  RepeatInv(b, cfg)' /\ Unaltered(b)
<1>0. b \in Builders /\ Framed /\ TreeInv /\ ~Small /\ NoFastPath /\ Builders = {b}
  BY DEF OneInspection, ChunkInv, FreshInv
<1>1. CASE Work
  <2>1. UNCHANGED <<manifest, process, cacheVars, build, answer>> /\ build[b].pc = "idle"
    BY <1>0, <1>1 DEF Work, UserMove, At
  <2>2. moves' = moves + 1
    BY <1>0, <1>1, MoveKeepsTrees DEF Work
  <2>3. ~Current(b)' /\ (answer[b] # NoAnswer => answer[b].at \in 0 .. moves)'
    BY <1>0, <2>1, <2>2 DEF Current, RepeatInv, TreeInv
  <2>4. HeadInv' /\ OnPaths(work.files)'
    BY <2>1 DEF HeadInv, OnPaths, RepeatInv, cacheVars
  <2>5. build'[b].pc = "idle" /\ build'[b].pc \notin Late
    BY <2>1 DEF Late
  <2>6. RepeatInv(b, cfg)'
    BY <2>3, <2>4, <2>5 DEF RepeatInv
  <2>. QED  BY <2>1, <2>6 DEF Unaltered
<1>2. CASE UNCHANGED vars
  <2>1. UNCHANGED <<repo, manifest>> /\ process' = process /\ build' = build /\ answer' = answer
        /\ work' = work /\ payload' = payload /\ meta' = meta /\ listing' = listing
    BY <1>2 DEF vars, gitVars, cacheVars
  <2>2. Seen' = Seen /\ Settled' = Settled /\ moves' = moves /\ Present' = Present
    BY <2>1, SettledSame
  <2>3. HeadInv' = HeadInv /\ Current(b)' = Current(b) /\ Stays(b, cfg)' = Stays(b, cfg)
        /\ OnPaths(work.files)' = OnPaths(work.files) /\ OnPaths(build[b].entries)' = OnPaths(build[b].entries)
        /\ ListedEmpty(build[b].fp, cfg)' = ListedEmpty(build[b].fp, cfg)
        /\ (Files(build[b].entries) = {})' = (Files(build[b].entries) = {})
    BY <2>1, <2>2 DEF HeadInv, Current, Stays, OnPaths, ListedEmpty, RecordsOf, HasFiles, Files, Loadable, Matches
  <2>. QED  BY <2>1, <2>2, <2>3 DEF RepeatInv, Unaltered
<1>3. ASSUME NEW c \in Configs, TakeFingerprint(b, c)
      PROVE  RepeatInv(b, cfg)' /\ Unaltered(b)
  <2>1. /\ HeadInv' /\ Settled' /\ build'[b].state.clean = {} /\ (Settled => Seen' = Seen)
    BY <1>0, <1>3, FingerprintSettles DEF RepeatInv
  <2>2. /\ build'[b].pc = "probe" /\ build'[b].at = moves /\ build[b].pc = "idle"
        /\ UNCHANGED <<repo, cacheVars, answer>>
    BY <1>0, <1>3, TakeFingerprintBegins
  <2>3. /\ answer' = answer /\ work' = work /\ payload' = payload /\ meta' = meta
        /\ listing' = listing /\ moves' = moves /\ Present' = Present
    BY <2>2, RepoSame DEF cacheVars, repo
  <2>4. Current(b)' = Current(b) /\ OnPaths(work.files)'
    BY <2>3 DEF Current, OnPaths, RepeatInv
  <2>5. ASSUME Current(b)
        PROVE  Stays(b, cfg)' /\ answer'[b].fp = Seen'
    <3>1. Seen' = Seen /\ Stays(b, cfg) /\ answer[b].fp = Seen
      BY <2>1, <2>2, <2>5 DEF RepeatInv
    <3>. QED  BY <2>3, <3>1 DEF Stays, ListedEmpty, RecordsOf, HasFiles, Files, Loadable, Matches
  <2>6. (answer[b] # NoAnswer => answer[b].at \in 0 .. moves)'
    BY <2>3 DEF RepeatInv
  <2>7. build'[b].pc \notin Late
    BY <2>2 DEF Late
  <2>8. RepeatInv(b, cfg)'
    BY <2>1, <2>2, <2>3, <2>4, <2>5, <2>6, <2>7 DEF RepeatInv
  <2>. QED  BY <2>3, <2>8 DEF Unaltered
<1>4. ASSUME TakeSnapshot(b)
      PROVE  RepeatInv(b, cfg)' /\ Unaltered(b)
  <2>1. Return(b, Restored(build[b])) /\ UNCHANGED <<gitVars, cacheVars>> /\ build[b].pc = "probe"
        /\ SnapshotHit(build[b])
    BY <1>4 DEF TakeSnapshot, Local, At
  <2>2. Restored(build[b]) = work.files
    BY <1>0, <1>4, RestoredIsFresh
  <2>3. Return(b, work.files)
    BY <2>1, <2>2
  <2>4. build[b].fp = Seen /\ build[b].cfg = cfg
    BY <2>1 DEF FreshInv, ProbeInv
  <2>5. HasFiles(work) => work.fp = Seen
    BY <2>1, <2>4 DEF SnapshotHit, Own
  <2>6. ~HasFiles(work) => Loadable(Seen, cfg)
    BY <2>1, <2>4 DEF SnapshotHit
  <2>7. Current(b) => work.files = answer[b].chunks
    BY <2>1 DEF RepeatInv, Stays
  <2>. QED  BY <2>1, <2>3, <2>4, <2>5, <2>6, <2>7, RepeatReturn
<1>5. ASSUME ReadFiles(b)
      PROVE  RepeatInv(b, cfg)' /\ Unaltered(b)
  <2>1. /\ build[b].pc = "probe" /\ build'[b].pc = "manifest" /\ build'[b].fp = build[b].fp
        /\ build'[b].at = build[b].at
        /\ build'[b].entries = Over(FilesOf(build[b]), [p \in FilesOf(build[b]) |-> EntryOf(p, build[b])])
        /\ UNCHANGED <<repo, manifest, work, payload, meta, answer, torn>>
    BY <1>0, <1>5, ReadFilesIs
  <2>2. Seen' = Seen /\ Settled' = Settled /\ moves' = moves
    BY <2>1, SettledSame
  <2>3. HeadInv'
    <3>1. process' = process \/ \E oid : process' = [process EXCEPT !.oid = oid]
      BY <1>5 DEF ReadFiles
    <3>2. /\ {"head", "oid", "fast"} \subseteq DOMAIN process'
          /\ process'.head = process.head
      BY <3>1 DEF RepeatInv, HeadInv
    <3>. QED  BY <2>1, <3>2 DEF RepeatInv, HeadInv
  <2>4. Current(b)' = Current(b) /\ OnPaths(work.files)'
    BY <2>1, <2>2 DEF Current, OnPaths, RepeatInv
  <2>5. build[b].state.clean = {} /\ build[b].at = moves /\ Settled
    BY <2>1 DEF RepeatInv
  <2>6. Current(b) => build'[b].chunks = answer'[b].chunks
    <3>1. ASSUME Current(b)
          PROVE  Stays(b, cfg) /\ OnPaths(work.files)
      BY <2>1, <3>1 DEF RepeatInv
    <3>2. ASSUME Current(b)
          PROVE  build'[b].chunks = answer[b].chunks
      BY <1>0, <1>5, <2>5, <3>1, <3>2, ReadAgain
    <3>. QED  BY <2>1, <3>2
  <2>7. (Files(build[b].entries) = {} => ListedEmpty(build[b].fp, cfg))'
    <3>1. Files(build'[b].entries) = {} => ListedEmpty(build[b].fp, cfg)'
      BY <1>0, <1>5, <2>5, EmptyIsListed
    <3>. QED  BY <3>1 DEF Files
  <2>8. OnPaths(build[b].entries)'
    <3>1. \E f : build'[b].entries = [p \in Paths |-> IF p \in FilesOf(build[b]) THEN f[p] ELSE Absent]
      BY <2>1, Zenon DEF Over
    <3>2. build'[b].entries = [p \in Paths |-> build'[b].entries[p]]
      BY <3>1
    <3>. QED  BY <3>2 DEF OnPaths
  <2>9. (answer[b] # NoAnswer => answer[b].at \in 0 .. moves)' /\ (Current(b) => answer'[b].fp = Seen')
    BY <2>1, <2>2 DEF RepeatInv
  <2>10. RepeatInv(b, cfg)'
    BY <2>1, <2>2, <2>3, <2>4, <2>5, <2>6, <2>7, <2>8, <2>9 DEF RepeatInv
  <2>. QED  BY <2>1, <2>10 DEF Unaltered
<1>6. ASSUME Finish(b)
      PROVE  RepeatInv(b, cfg)' /\ Unaltered(b)
  <2>1. Return(b, build[b].chunks) /\ UNCHANGED <<gitVars, cacheVars>> /\ build[b].pc = "done"
    BY <1>6 DEF Finish, Local, At
  <2>2. /\ build[b].fp = Seen /\ work.fp = Seen /\ work.files = build[b].chunks
        /\ build[b].chunks = build[b].entries
    BY <2>1 DEF FreshInv, LateInv, Late
  <2>3. ~HasFiles(work) => ListedEmpty(Seen, cfg)
    BY <2>1, <2>2 DEF RepeatInv, HasFiles, Late
  <2>4. Current(b) => work.files = answer[b].chunks
    BY <2>1, <2>2 DEF RepeatInv, Late
  <2>5. Return(b, work.files) /\ build[b].pc # "idle"
    BY <2>1, <2>2
  <2>. QED  BY <2>1, <2>2, <2>3, <2>4, <2>5, RepeatReturn
<1>7. ASSUME WriteManifest(b) \/ WritePayload(b) \/ WriteMetadata(b) \/ DropPayload(b)
      PROVE  RepeatInv(b, cfg)' /\ Unaltered(b)
  BY <1>7, RepeatWrite
<1>8. ~Kill(b)
  BY DEF Kill, OneInspection
<1>9. ASSUME BuildStep(b)
      PROVE  RepeatInv(b, cfg)' /\ Unaltered(b)
  BY <1>9, <1>3, <1>4, <1>5, <1>6, <1>7, <1>8 DEF BuildStep
<1>. QED  BY <1>0, <1>1, <1>2, <1>9 DEF Next

\* After every answer the cache is such that another inspection of the same
\* tree finds the same fingerprint and the same chunks.
THEOREM RepeatInvariant ==
    ASSUME NEW one, NEW cfg, OneInspection(one, cfg)
    PROVE  Spec => []RepeatInv(one, cfg)
<1>1. Init => RepeatInv(one, cfg)
  BY RepeatInit, GitAssumption
<1>2. ChunkInv /\ FreshInv(one, cfg) /\ RepeatInv(one, cfg) /\ [Next]_vars => RepeatInv(one, cfg)'
  BY RepeatStep, GitAssumption
<1>. QED  BY <1>1, <1>2, ChunkInvariant, FreshInvariant, PTL DEF Spec

\* An inspection repeated with nothing moved in between returns the same
\* chunks, whether they are restored or built again.
THEOREM RepeatsAreStable ==
    ASSUME NEW one, NEW cfg, OneInspection(one, cfg)
    PROVE  Spec => RepeatIsStable
<1>1. ChunkInv /\ FreshInv(one, cfg) /\ RepeatInv(one, cfg) /\ [Next]_vars =>
        [\A b \in Builders :
          /\ answer[b] # NoAnswer /\ answer'[b] # answer[b]
          /\ answer'[b].at = answer[b].at /\ answer'[b].cfg = answer[b].cfg
          => torn \/ answer'[b].chunks = answer[b].chunks]_vars
  BY RepeatStep, GitAssumption DEF Unaltered, OneInspection
<1>2. Spec => []FreshInv(one, cfg)
  BY FreshInvariant, PTL
<1>3. Spec => []RepeatInv(one, cfg)
  BY RepeatInvariant, PTL
<1>. QED  BY <1>1, <1>2, <1>3, ChunkInvariant, PTL DEF Spec, RepeatIsStable

-----------------------------------------------------------------------------
(* Identity.  While nothing is removed, restored or committed, the lists   *)
(* of a fingerprint say all of a tree: a file is as an entry says, or as   *)
(* it was staged, or as the first commit has it.                           *)

OnlyForward == Moves \subseteq {"edit", "create", "touch", "stage"}

FirstFiles == {p \in Paths : FirstTree[p] # Absent}
RepoInv ==
    /\ log = <<FirstTree>> /\ head = 1
    /\ \A p \in Paths : FirstTree[p] # Absent => index[p] # Absent
    /\ \A p \in Paths : index[p] # Absent => tree[p] # Absent
    /\ \A p \in Paths : stat[p] = 0 <=> tree[p] = Absent
    /\ dstat \in 0 .. moves /\ istat \in 0 .. moves

Names(entries, p) == \E e \in entries : e.path = p
Shows(d, p, c) ==
    /\ \A e \in d[3] \cup d[4] : e.path = p => e.content = c
    /\ ~Names(d[3] \cup d[4], p) =>
          /\ \A e \in d[2] : e.path = p => e.blob = c
          /\ ~Names(d[2], p) => c = FirstTree[p]
Describes(d, t) == \A p \in Paths : Shows(d, p, t[p])

\* Trees the repository may have had: what differs from the first commit
\* never returns to it.
Past(t) == \A p \in Paths : t[p] # FirstTree[p] => tree[p] # FirstTree[p]

\* What is remembered of the first tree tells whether a file is as it was.
AuxInv(aux) ==
    /\ {"files", "content", "dirs", "istat", "staged"} \subseteq DOMAIN aux
    /\ aux.content = FirstTree /\ aux.files \in [Paths -> 0 .. moves]
    /\ \A p \in Paths : aux.files[p] # 0 <=> Small /\ FirstTree[p] # Absent
    /\ \A p \in Paths : aux.files[p] # 0 /\ stat[p] = aux.files[p] => tree[p] = FirstTree[p]
    /\ aux.dirs \in 0 .. moves /\ (aux.dirs = dstat => Present = FirstFiles)
    /\ aux.istat \in 0 .. moves /\ (aux.istat = istat => aux.staged = StagedEntries)
Remembered(m) ==
    m # NoManifest =>
        /\ \E t \in Trees : Past(t) /\ Describes(Digest(m.state), t)
        /\ m.state.clean \in {{}, FirstFiles}
        /\ m.aux # NoAux => AuxInv(m.aux) /\ m.aux.staged = {}
Holds(proc) ==
    /\ {"head", "oid", "fast"} \subseteq DOMAIN proc
    /\ proc.fast # NoFast => (proc.fast.aux # NoAux => AuxInv(proc.fast.aux))
SeenInv == \A x \in seen : x[2] \in Trees /\ Describes(x[1], x[2])
IdentityInv == RepoInv /\ Remembered(manifest) /\ Holds(process) /\ SeenInv

\* What a step of the user may change while nothing is removed.
Forward ==
    /\ \A p \in Paths : stat'[p] = Now \/ (stat'[p] = stat[p] /\ tree'[p] = tree[p])
    /\ dstat' = Now \/ (dstat' = dstat /\ Present' = Present)
    /\ istat' = Now \/ (istat' = istat /\ index' = index)
    /\ log' = log /\ head' = head
    /\ \A p \in Paths : tree[p] # FirstTree[p] => tree'[p] # FirstTree[p]

\* Every move allowed is a step forward.
LEMMA MovesForward ==
    ASSUME GitAssumption, OnlyForward, TreeInv, RepoInv, UserMove
    PROVE  RepoInv' /\ Forward /\ UNCHANGED <<manifest, process>>
<1>1. log[head] = FirstTree /\ moves' = Now /\ Now # 0 /\ Now \in 0 .. moves'
      /\ 0 .. moves \subseteq 0 .. moves' /\ moves \in Nat
  BY MoveKeepsTrees DEF RepoInv, TreeInv, Now
<1>2. ASSUME NEW p \in Paths, NEW c \in Contents \cup {Absent}, Write(p, c)
      PROVE  RepoInv' /\ Forward
  <2>1. c # Absent /\ c # FirstTree[p] /\ c # tree[p]
    BY <1>1, <1>2 DEF Write, Move, OnlyForward
  <2>2. /\ tree' = [tree EXCEPT ![p] = c] /\ stat' = [stat EXCEPT ![p] = Now]
        /\ dstat' = (IF tree[p] = Absent THEN Now ELSE dstat)
        /\ UNCHANGED <<index, istat, log, head>>
    BY <1>2, <2>1 DEF Write
  <2>3. \A q \in Paths : /\ q # p => tree'[q] = tree[q] /\ stat'[q] = stat[q]
                         /\ q = p => tree'[q] = c /\ stat'[q] = Now
    BY <2>2 DEF TreeInv, Trees
  <2>4. tree[p] # Absent => Present' = Present
    BY <2>1, <2>3 DEF Present
  <2>5. RepoInv'
    BY <1>1, <2>1, <2>2, <2>3 DEF RepoInv
  <2>. QED  BY <2>1, <2>2, <2>3, <2>4, <2>5 DEF Forward
<1>3. ASSUME NEW p \in Paths, Touch(p)
      PROVE  RepoInv' /\ Forward
  <2>1. /\ tree[p] # Absent /\ stat' = [stat EXCEPT ![p] = Now] /\ istat' = Now
        /\ UNCHANGED <<tree, dstat, index, log, head>>
    BY <1>3 DEF Touch
  <2>2. \A q \in Paths : /\ q # p => stat'[q] = stat[q]
                         /\ q = p => stat'[q] = Now
    BY <2>1 DEF TreeInv, Trees
  <2>3. Present' = Present
    BY <2>1 DEF Present
  <2>4. RepoInv'
    BY <1>1, <2>1, <2>2 DEF RepoInv
  <2>. QED  BY <2>1, <2>2, <2>3, <2>4 DEF Forward
<1>4. ASSUME NEW p \in Paths, Stage(p)
      PROVE  RepoInv' /\ Forward
  <2>1. /\ index' = [index EXCEPT ![p] = tree[p]] /\ istat' = Now
        /\ UNCHANGED <<tree, stat, dstat, log, head>>
    BY <1>4 DEF Stage
  <2>2. \A q \in Paths : /\ q # p => index'[q] = index[q]
                         /\ q = p => index'[q] = tree[q]
    BY <2>1 DEF TreeInv, Trees
  <2>3. Present' = Present
    BY <2>1 DEF Present
  <2>4. RepoInv'
    BY <1>1, <2>1, <2>2 DEF RepoInv
  <2>. QED  BY <2>1, <2>3, <2>4 DEF Forward
<1>5. ~Commit /\ \A k \in DOMAIN log : ~Checkout(k)
  BY DEF Commit, Checkout, Move, OnlyForward
<1>. QED  BY <1>2, <1>3, <1>4, <1>5 DEF UserMove

\* A step forward keeps what is remembered of the first tree true.
LEMMA ForwardKeepsAux ==
    ASSUME TreeInv, Forward, moves' = moves + 1, NEW aux, AuxInv(aux)
    PROVE  AuxInv(aux)'
<1>1. moves \in Nat /\ Now = moves + 1 /\ 0 .. moves \subseteq 0 .. moves' /\ Now \notin 0 .. moves
  BY DEF TreeInv, Now
<1>2. aux.files \in [Paths -> 0 .. moves'] /\ aux.dirs \in 0 .. moves' /\ aux.istat \in 0 .. moves'
  BY <1>1 DEF AuxInv
<1>3. ASSUME NEW p \in Paths, aux.files[p] # 0, stat'[p] = aux.files[p]
      PROVE  tree'[p] = FirstTree[p]
  BY <1>1, <1>3 DEF AuxInv, Forward
<1>4. aux.dirs = dstat' => Present' = FirstFiles
  BY <1>1 DEF AuxInv, Forward
<1>5. ASSUME aux.istat = istat'
      PROVE  aux.staged = StagedEntries'
  <2>1. istat' = istat /\ index' = index /\ log' = log /\ head' = head
    BY <1>1, <1>5 DEF AuxInv, Forward
  <2>2. StagedEntries' = StagedEntries
    BY <2>1 DEF StagedEntries, StagedEntry
  <2>. QED  BY <1>5, <2>1, <2>2 DEF AuxInv
<1>. QED  BY <1>2, <1>3, <1>4, <1>5 DEF AuxInv, FirstFiles

\* What a fingerprint remembers outlives the moves of the user.
LEMMA ForwardKeepsMemory ==
    ASSUME TreeInv, Forward, moves' = moves + 1
    PROVE  /\ \A m : Remembered(m) => Remembered(m)'
           /\ \A proc : Holds(proc) => Holds(proc)'
<1>1. \A t : Past(t) => Past(t)'
  BY DEF Past, Forward
<1>2. \A aux : AuxInv(aux) => AuxInv(aux)'
  BY ForwardKeepsAux
<1>. QED  BY <1>1, <1>2 DEF Remembered, Holds, Describes, Shows, Names

-----------------------------------------------------------------------------
(* What each way to take a fingerprint says of the tree.                   *)

\* Entries made of the tree as it is say what their files contain.
LEMMA EntriesShow ==
    ASSUME NEW entries, NEW p \in Paths,
           \A e \in entries : \E code, q : e = Entry(code, q)
    PROVE  \A e \in entries : e.path = p => e.content = tree[p]
BY EntryFields

\* What is staged, while nothing staged is removed.
LEMMA StagedShows ==
    ASSUME RepoInv
    PROVE  /\ \A p \in Paths : Names(StagedEntries, p) <=> index[p] # FirstTree[p]
           /\ \A p \in Paths : \A e \in StagedEntries : e.path = p => e.blob = index[p]
           /\ \A p \in Paths : index[p] # FirstTree[p] => index[p] # Absent /\ tree[p] # Absent
<1>1. log[head] = FirstTree
  BY DEF RepoInv
<1>2. \A p \in Paths : Names(StagedEntries, p) <=> index[p] # FirstTree[p]
  BY <1>1, EntriesAre, StagedFields DEF Names
<1>3. \A p \in Paths : \A e \in StagedEntries : e.path = p => e.blob = index[p]
  BY EntriesAre, StagedFields
<1>. QED  BY <1>2, <1>3 DEF RepoInv

\* Lists that describe the tree: their entries are of the tree as it is, what
\* is staged is listed, and a file that no list names is as it was staged, or
\* as it was.
LEMMA ListsDescribe ==
    ASSUME RepoInv, NEW h, NEW unstaged, NEW untracked, NEW scoped,
           \A e \in unstaged \cup untracked : \E code, q : e = Entry(code, q),
           \A p \in Paths : ~Names(unstaged \cup untracked, p) => tree[p] = index[p]
    PROVE  Describes(<<h, StagedEntries, unstaged, untracked, scoped>>, tree)
<1> DEFINE d == <<h, StagedEntries, unstaged, untracked, scoped>>
<1>1. d[2] = StagedEntries /\ d[3] = unstaged /\ d[4] = untracked
  OBVIOUS
<1>2. ASSUME NEW p \in Paths
      PROVE  Shows(d, p, tree[p])
  <2>1. \A e \in unstaged \cup untracked : e.path = p => e.content = tree[p]
    BY EntriesShow
  <2>2. ~Names(unstaged \cup untracked, p) =>
          /\ \A e \in StagedEntries : e.path = p => e.blob = tree[p]
          /\ ~Names(StagedEntries, p) => tree[p] = FirstTree[p]
    BY StagedShows
  <2> HIDE DEF d
  <2>. QED  BY <1>1, <2>1, <2>2 DEF Shows
<1> HIDE DEF d
<1>3. Describes(d, tree)
  BY <1>2 DEF Describes
<1>. QED  BY <1>3 DEF d

\* A tree without status is the first one.
LEMMA CleanIsFirst ==
    ASSUME GitAssumption, TreeInv, RepoInv, Status = {}
    PROVE  tree = FirstTree
<1>1. log[head] = FirstTree /\ FirstTree \in Trees
  BY DEF RepoInv, GitAssumption, Trees
<1>2. StatusPaths = {}
  BY DEF StatusPaths
<1>3. \A p \in Paths : tree[p] = FirstTree[p]
  BY <1>1, <1>2, StatusPathsAre
<1>. QED  BY <1>1, <1>3 DEF TreeInv, Trees

\* Then every tree there may have been is the first one.
LEMMA PastIsFirst ==
    ASSUME GitAssumption, tree = FirstTree, NEW t \in Trees, Past(t)
    PROVE  t = tree
<1>1. \A p \in Paths : t[p] = tree[p]
  BY DEF Past
<1>. QED  BY <1>1 DEF GitAssumption, Trees

\* A state that tells the tree: it describes it, its hints name every file
\* that changed, and its list of clean files is complete.
Tells(s) ==
    /\ Describes(Digest(s), tree)
    /\ \A p \in Paths : tree[p] # FirstTree[p] => p \in s.dirty
    /\ s.clean \in {{}, FirstFiles}

\* git status tells the tree.
LEMMA SlowTells ==
    ASSUME GitAssumption, TreeInv, RepoInv, NEW h
    PROVE  /\ Tells(SlowState(h))
           /\ IsClean(SlowState(h)) => tree = FirstTree /\ StagedEntries = {}
<1> DEFINE s == State(h, StagedEntries, UnstagedEntries, UntrackedEntries, FALSE, StatusPaths, {})
<1>1. /\ Digest(s) = <<h, StagedEntries, UnstagedEntries, UntrackedEntries, FALSE>>
      /\ s.dirty = StatusPaths /\ s.clean = {}
      /\ s.staged = StagedEntries /\ s.unstaged = UnstagedEntries /\ s.untracked = UntrackedEntries
  BY DEF State, Digest
<1>2. log[head] = FirstTree
  BY DEF RepoInv
<1>3. \A p \in Paths : /\ (\E e \in UnstagedEntries : e.path = p) <=> (index[p] # Absent /\ tree[p] # index[p])
                       /\ (\E e \in UntrackedEntries : e.path = p) <=> (tree[p] # Absent /\ index[p] = Absent)
  BY EntriesAre, EntryFields
<1>4. Describes(Digest(s), tree)
  <2>1. \A e \in UnstagedEntries \cup UntrackedEntries : \E code, q : e = Entry(code, q)
    BY EntriesAre
  <2>2. \A p \in Paths : ~Names(UnstagedEntries \cup UntrackedEntries, p) => tree[p] = index[p]
    BY <1>3 DEF Names
  <2> HIDE DEF s
  <2>. QED  BY <1>1, <2>1, <2>2, ListsDescribe
<1>5. \A p \in Paths : tree[p] # FirstTree[p] => p \in StatusPaths
  BY <1>2, StatusPathsAre
<1>6. IsClean(s) => tree = FirstTree /\ StagedEntries = {}
  <2>1. ASSUME IsClean(s)
        PROVE  StagedEntries = {} /\ UnstagedEntries = {} /\ UntrackedEntries = {}
    <3> HIDE DEF s
    <3>. QED  BY <1>1, <2>1 DEF IsClean
  <2>2. ASSUME IsClean(s)
        PROVE  Status = {}
    BY <2>1, <2>2, Zenon DEF Status, Codes
  <2>. QED  BY <2>1, <2>2, CleanIsFirst
<1>7. CASE ~(IsClean(s) /\ Small)
  <2>1. SlowState(h) = s
    BY <1>7, Zenon DEF SlowState
  <2> HIDE DEF s
  <2>. QED  BY <1>1, <1>4, <1>5, <1>6, <2>1 DEF Tells
<1>8. CASE IsClean(s) /\ Small
  <2> DEFINE n == [s EXCEPT !.clean = Present]
  <2>1. SlowState(h) = n
    BY <1>8, Zenon DEF SlowState
  <2>2. /\ n.head = s.head /\ n.staged = s.staged /\ n.unstaged = s.unstaged /\ n.untracked = s.untracked
        /\ n.scoped = s.scoped /\ n.dirty = s.dirty /\ n.clean = Present
    BY DEF State
  <2> HIDE DEF n, s
  <2>3. Digest(n) = Digest(s)
    BY <2>2 DEF Digest
  <2>4. Present = FirstFiles
    BY <1>6, <1>8 DEF Present, FirstFiles
  <2>. QED  BY <1>1, <1>4, <1>5, <1>6, <1>8, <2>1, <2>2, <2>3, <2>4 DEF Tells
<1>. QED  BY <1>7, <1>8

\* Where every remembered file has its old times, the tree is the first one.
LEMMA MatchIsFirst ==
    ASSUME GitAssumption, TreeInv, RepoInv, NEW aux, AuxInv(aux), MatchesClean(aux)
    PROVE  tree = FirstTree
<1>1. Small
  BY DEF MatchesClean, HasBase, Base, AuxInv
<1>2. \A p \in Paths : tree[p] = FirstTree[p]
  <2>1. Present = FirstFiles
    BY DEF MatchesClean, AuxInv
  <2>2. \A p \in FirstFiles : tree[p] = FirstTree[p]
    BY <1>1 DEF MatchesClean, AuxInv, Base, FirstFiles
  <2>. QED  BY <2>1, <2>2 DEF Present, FirstFiles
<1>. QED  BY <1>2 DEF TreeInv, Trees, GitAssumption

\* While the index is the first one, the times tell what changed since.
LEMMA UnstagedTells ==
    ASSUME GitAssumption, TreeInv, RepoInv, NEW h, NEW aux, AuxInv(aux), aux.staged = {},
           UnstagedApplies(aux)
    PROVE  Tells(UnstagedFast(h, aux))
<1> DEFINE changed == {p \in Base(aux) : Changed(aux, p)}
           added == Present \ Base(aux)
           U == {Entry(IF tree[p] = Absent THEN "D" ELSE "M", p) : p \in changed}
           N == {Entry("?", p) : p \in added}
           s == UnstagedFast(h, aux)
<1>1. Small /\ StagedEntries = {} /\ aux.content = FirstTree
  BY DEF UnstagedApplies, AuxInv
<1>2. Base(aux) = FirstFiles
  BY <1>1 DEF AuxInv, Base, FirstFiles
<1>3. \A p \in Paths : index[p] = FirstTree[p]
  BY <1>1, StagedShows DEF Names
<1>4. \A p \in Paths : p \in changed \cup added \/ tree[p] = FirstTree[p]
  BY <1>1, <1>2 DEF AuxInv, Base, Changed, Present, FirstFiles
<1>5. \A p \in changed \cup added : Names(U \cup N, p)
  <2>1. \A p \in changed : \E e \in U : e = Entry(IF tree[p] = Absent THEN "D" ELSE "M", p)
    BY Zenon
  <2>2. \A p \in added : \E e \in N : e = Entry("?", p)
    BY Zenon
  <2> HIDE DEF changed, added, U, N
  <2>. QED  BY <2>1, <2>2, EntryFields DEF Names
<1>6. \A e \in U \cup N : \E code, q : e = Entry(code, q)
  OBVIOUS
<1>7. s = State(h, {}, U, N, TRUE, changed \cup added, {})
  BY Zenon DEF UnstagedFast
<1> HIDE DEF changed, added, U, N, s
<1>8. Digest(s) = <<h, StagedEntries, U, N, TRUE>> /\ s.dirty = changed \cup added /\ s.clean = {}
  BY <1>1, <1>7 DEF State, Digest
<1>9. Describes(Digest(s), tree)
  BY <1>3, <1>4, <1>5, <1>6, <1>8, ListsDescribe
<1>10. Tells(s)
  BY <1>4, <1>8, <1>9 DEF Tells
<1>. QED  BY <1>10 DEF s

\* With the index as it is, so do they beside what is staged.
LEMMA StagedTells ==
    ASSUME GitAssumption, TreeInv, RepoInv, NEW h, NEW aux, AuxInv(aux), Small, NEW gone \in BOOLEAN
    PROVE  Tells(StagedFast(h, aux, StagedEntries, gone))
<1> DEFINE known == Present \cup Base(aux)
           inIndex == PathsOf(StagedEntries)
           blob(p) == (CHOOSE e \in StagedEntries : e.path = p).blob
           differs == {p \in known \cap inIndex :
                         tree[p] \notin {Absent, IF blob(p) = Absent THEN aux.content[p] ELSE blob(p)}}
           lost == IF gone THEN Base(aux) \ (Present \cup inIndex) ELSE {}
           added == (Present \ Base(aux)) \ inIndex
           changed == {p \in (Present \cap Base(aux)) \ inIndex : Changed(aux, p)}
           U == {Entry("M", p) : p \in differs \cup changed} \cup {Entry("D", p) : p \in lost}
           N == {Entry("?", p) : p \in added}
           dirty == (known \cap inIndex) \cup lost \cup added \cup changed
           s == StagedFast(h, aux, StagedEntries, gone)
<1>1. Base(aux) = FirstFiles /\ aux.content = FirstTree /\ FirstFiles \subseteq Present
  BY DEF AuxInv, Base, FirstFiles, RepoInv, Present
<1>2. \A p \in Paths : p \in inIndex <=> index[p] # FirstTree[p]
  <2>1. \A p \in Paths : p \in inIndex <=> Names(StagedEntries, p)
    BY Zenon DEF PathsOf, Names
  <2>. QED  BY <2>1, StagedShows
<1>3. \A p \in Paths \cap inIndex : blob(p) = index[p] /\ index[p] # Absent /\ tree[p] # Absent
  <2> SUFFICES ASSUME NEW p \in Paths, index[p] # FirstTree[p]
               PROVE  blob(p) = index[p] /\ index[p] # Absent /\ tree[p] # Absent
    BY <1>2
  <2>1. \E e \in StagedEntries : e.path = p
    BY StagedShows DEF Names
  <2>2. (CHOOSE e \in StagedEntries : e.path = p) \in StagedEntries /\ (CHOOSE e \in StagedEntries : e.path = p).path = p
    BY <2>1, Zenon
  <2>. QED  BY <2>2, StagedShows
<1>4. \A p \in Paths : p \in differs \cup changed \cup added \/ tree[p] = index[p]
  <2> SUFFICES ASSUME NEW p \in Paths, tree[p] # index[p]
               PROVE  p \in differs \cup changed \cup added
    OBVIOUS
  <2>1. CASE p \in inIndex
    <3>1. p \in known /\ blob(p) = index[p] /\ index[p] # Absent /\ tree[p] # Absent
      BY <1>3, <2>1 DEF Present
    <3> HIDE DEF blob, known, inIndex
    <3>. QED  BY <2>1, <3>1
  <2>2. CASE p \notin inIndex
    <3>1. index[p] = FirstTree[p] /\ tree[p] # FirstTree[p]
      BY <1>2, <2>2
    <3>2. p \in Present
      BY <3>1, <1>1 DEF Present, FirstFiles
    <3>3. CASE p \in Base(aux)
      <4>1. Changed(aux, p)
        BY <1>1, <3>1, <3>3 DEF AuxInv, Base, Changed
      <4>. QED  BY <2>2, <3>2, <3>3, <4>1
    <3>. QED  BY <2>2, <3>2, <3>3
  <2>. QED  BY <2>1, <2>2
<1>5. \A p \in Paths : tree[p] # FirstTree[p] => p \in dirty
  <2> SUFFICES ASSUME NEW p \in Paths, tree[p] # FirstTree[p]
               PROVE  p \in dirty
    OBVIOUS
  <2>1. p \in Present
    BY <1>1 DEF Present, FirstFiles
  <2>2. CASE p \in inIndex
    BY <2>1, <2>2
  <2>3. CASE p \notin inIndex
    BY <2>3, <1>2, <1>4
  <2>. QED  BY <2>2, <2>3
<1>6. \A p \in differs \cup changed \cup added : Names(U \cup N, p)
  <2>1. \A p \in differs \cup changed : \E e \in U : e = Entry("M", p)
    BY Zenon
  <2>2. \A p \in added : \E e \in N : e = Entry("?", p)
    BY Zenon
  <2> HIDE DEF changed, added, differs, U, N
  <2>. QED  BY <2>1, <2>2, EntryFields DEF Names
<1>7. \A e \in U \cup N : \E code, q : e = Entry(code, q)
  <2> HIDE DEF changed, added, differs, lost
  <2>. QED  OBVIOUS
<1>8. s = State(h, StagedEntries, U, N, TRUE, dirty, {})
  BY Zenon DEF StagedFast
<1> HIDE DEF changed, added, differs, dirty, U, N, s
<1>9. Digest(s) = <<h, StagedEntries, U, N, TRUE>> /\ s.dirty = dirty /\ s.clean = {}
  BY <1>8 DEF State, Digest
<1>10. Describes(Digest(s), tree)
  BY <1>4, <1>6, <1>7, <1>9, ListsDescribe
<1>11. Tells(s)
  BY <1>5, <1>9, <1>10 DEF Tells
<1>. QED  BY <1>11 DEF s

\* A remembered state tells the first tree.
LEMMA MemoryTells ==
    ASSUME GitAssumption, RepoInv, NEW m, m # NoManifest, Remembered(m), tree = FirstTree
    PROVE  Tells(m.state)
<1>1. PICK t \in Trees : Past(t) /\ Describes(Digest(m.state), t)
  BY DEF Remembered
<1>2. t = tree
  BY <1>1, PastIsFirst
<1>. QED  BY <1>1, <1>2 DEF Tells, Remembered

\* What a clean tree leaves in the manifest.
LEMMA CleanAuxIs ==
    ASSUME GitAssumption, TreeInv, RepoInv, tree = FirstTree, StagedEntries = {}
    PROVE  AuxInv(CleanAux) /\ CleanAux.staged = {}
<1>1. /\ CleanAux.files = (IF Small THEN stat ELSE [p \in Paths |-> 0])
      /\ CleanAux.content = tree /\ CleanAux.dirs = dstat /\ CleanAux.istat = istat
      /\ CleanAux.staged = {}
      /\ {"files", "content", "dirs", "istat", "staged"} \subseteq DOMAIN CleanAux
  BY DEF CleanAux
<1>2. CleanAux.files \in [Paths -> 0 .. moves]
  BY <1>1 DEF TreeInv
<1>3. \A p \in Paths : CleanAux.files[p] # 0 <=> Small /\ FirstTree[p] # Absent
  BY <1>1 DEF RepoInv
<1>4. Present = FirstFiles
  BY DEF Present, FirstFiles
<1> HIDE DEF CleanAux
<1>. QED  BY <1>1, <1>2, <1>3, <1>4 DEF AuxInv, RepoInv

\* Asking git status: the state tells the tree, and what is kept is true.
LEMMA SlowKeeps ==
    ASSUME GitAssumption, TreeInv, RepoInv, Remembered(manifest), NEW h, NEW proc, Holds(proc)
    PROVE  /\ Tells(Slow(h, proc).state) /\ Remembered(Slow(h, proc).manifest)
           /\ Holds(Slow(h, proc).process)
<1>1. CASE Status = {} /\ manifest # NoManifest /\ manifest.head = h
  <2>1. Slow(h, proc) = Result(manifest.state, manifest, proc)
    BY <1>1, Zenon DEF Slow
  <2>2. Tells(manifest.state)
    BY <1>1, CleanIsFirst, MemoryTells
  <2>. QED  BY <2>1, <2>2 DEF Result
<1>2. CASE ~(Status = {} /\ manifest # NoManifest /\ manifest.head = h)
  <2> DEFINE s == SlowState(h)
             m == [kind |-> "file", head |-> h, status |-> Status, state |-> s, aux |-> SlowAux(s)]
             x == [kind |-> "fast", head |-> h, state |-> s, aux |-> NoAux]
             q == [proc EXCEPT !.fast = x]
  <2>1. Slow(h, proc) = Result(s, m, q)
    BY <1>2, Zenon DEF Slow
  <2>2. Tells(s) /\ (IsClean(s) => tree = FirstTree /\ StagedEntries = {})
    BY SlowTells
  <2>3. tree \in Trees /\ Past(tree) /\ Describes(Digest(s), tree) /\ s.clean \in {{}, FirstFiles}
    BY <2>2 DEF TreeInv, Past, Tells
  <2>4. m.state = s /\ m.aux = SlowAux(s)
    <3> HIDE DEF s
    <3>. QED  OBVIOUS
  <2>5. SlowAux(s) # NoAux => AuxInv(SlowAux(s)) /\ SlowAux(s).staged = {}
    BY <2>2, CleanAuxIs DEF SlowAux
  <2>6. x.aux = NoAux
    OBVIOUS
  <2> HIDE DEF s, m, x
  <2>7. Remembered(m)
    BY <2>3, <2>4, <2>5 DEF Remembered
  <2>8. {"head", "oid", "fast"} \subseteq DOMAIN q /\ q.fast = x
    BY DEF Holds
  <2> HIDE DEF q
  <2>9. Holds(q)
    BY <2>6, <2>8 DEF Holds
  <2>. QED  BY <2>1, <2>2, <2>7, <2>9 DEF Result
<1>. QED  BY <1>1, <1>2

\* A fast path that tells the tree keeps what it went by.
LEMMA FastKeeps ==
    ASSUME Remembered(manifest), NEW h, NEW proc, Holds(proc), NEW s, Tells(s), NEW aux, AuxInv(aux)
    PROVE  /\ Tells(Fast(h, proc, s, aux).state) /\ Remembered(Fast(h, proc, s, aux).manifest)
           /\ Holds(Fast(h, proc, s, aux).process)
<1> DEFINE x == [kind |-> "fast", head |-> h, state |-> s, aux |-> aux]
           q == [proc EXCEPT !.fast = x]
<1>1. Fast(h, proc, s, aux) = Result(s, manifest, q)
  BY Zenon DEF Fast
<1>2. x.aux = aux
  OBVIOUS
<1> HIDE DEF x
<1>3. {"head", "oid", "fast"} \subseteq DOMAIN q /\ q.fast = x
  BY DEF Holds
<1> HIDE DEF q
<1>4. Holds(q)
  BY <1>2, <1>3 DEF Holds
<1>. QED  BY <1>1, <1>4 DEF Result

\* However a fingerprint is taken, its state tells the tree, and what it
\* leaves to the next one is true.
LEMMA FingerprintTells ==
    ASSUME GitAssumption, TreeInv, RepoInv, Remembered(manifest), Holds(process)
    PROVE  /\ Tells(Fingerprint(process).state) /\ Remembered(Fingerprint(process).manifest)
           /\ Holds(Fingerprint(process).process)
<1> DEFINE h == HeadId(process)
           proc == IF KnownHead THEN process ELSE [process EXCEPT !.head = h]
           aux == manifest.aux
           fast == proc.fast
           cachedClean == /\ manifest # NoManifest /\ manifest.head = h
                          /\ manifest.status = {} /\ IsClean(manifest.state)
           again == [aux EXCEPT !.istat = istat, !.staged = StagedEntries]
           Good(r) == Tells(r.state) /\ Remembered(r.manifest) /\ Holds(r.process)
<1>1. Holds(proc) /\ proc.fast = process.fast
  <2> HIDE DEF h
  <2>1. {"head", "oid", "fast"} \subseteq DOMAIN proc /\ proc.fast = process.fast
    BY DEF Holds
  <2> HIDE DEF proc
  <2>. QED  BY <2>1 DEF Holds
<1> HIDE DEF h, proc
<1>2. Good(Slow(h, proc))
  BY <1>1, SlowKeeps
<1>3. ASSUME StagedCachedApplies(fast, h)
      PROVE  Good(Fast(h, proc, StagedCached(h, fast.aux), fast.aux))
  <2>1. fast # NoFast /\ fast.aux # NoAux /\ Small /\ fast.aux.istat = istat
    BY <1>3 DEF StagedCachedApplies, HasBase
  <2>2. AuxInv(fast.aux)
    BY <1>1, <2>1 DEF Holds
  <2>3. fast.aux.staged = StagedEntries
    BY <2>1, <2>2 DEF AuxInv
  <2>4. StagedCached(h, fast.aux) = StagedFast(h, fast.aux, StagedEntries, TRUE)
    BY <2>3 DEF StagedCached
  <2>5. Tells(StagedCached(h, fast.aux))
    BY <2>1, <2>2, <2>4, StagedTells
  <2>. QED  BY <1>1, <2>2, <2>5, FastKeeps
<1>4. ASSUME manifest # NoManifest, MatchesClean(aux)
      PROVE  Good(Result(manifest.state, manifest, proc))
  <2>1. AuxInv(aux)
    BY <1>4 DEF MatchesClean, HasBase, Remembered
  <2>2. Tells(manifest.state)
    BY <1>4, <2>1, MatchIsFirst, MemoryTells
  <2>. QED  BY <1>1, <2>2 DEF Result
<1>5. ASSUME manifest # NoManifest, UnstagedApplies(aux)
      PROVE  Good(Fast(h, proc, UnstagedFast(h, aux), aux))
  <2>1. AuxInv(aux) /\ aux.staged = {}
    BY <1>5 DEF UnstagedApplies, HasBase, Remembered
  <2>2. Tells(UnstagedFast(h, aux))
    BY <1>5, <2>1, UnstagedTells
  <2>. QED  BY <1>1, <2>1, <2>2, FastKeeps
<1>6. ASSUME manifest # NoManifest, StagedSmallApplies(aux)
      PROVE  Good(Fast(h, proc, StagedSmall(h, aux), again))
  <2>1. AuxInv(aux) /\ Small
    BY <1>6 DEF StagedSmallApplies, HasBase, Remembered
  <2>2. Tells(StagedSmall(h, aux))
    BY <2>1, StagedTells DEF StagedSmall
  <2>3. /\ DOMAIN again = DOMAIN aux /\ again.istat = istat /\ again.staged = StagedEntries
        /\ again.files = aux.files /\ again.content = aux.content /\ again.dirs = aux.dirs
    BY <2>1 DEF AuxInv
  <2> HIDE DEF again
  <2>4. AuxInv(again)
    BY <2>1, <2>3 DEF AuxInv, RepoInv
  <2>. QED  BY <1>1, <2>2, <2>4, FastKeeps
<1>7. Fingerprint(process) =
        IF ~cachedClean
        THEN IF StagedCachedApplies(fast, h)
             THEN Fast(h, proc, StagedCached(h, fast.aux), fast.aux) ELSE Slow(h, proc)
        ELSE IF MatchesClean(aux) THEN Result(manifest.state, manifest, proc)
        ELSE IF UnstagedApplies(aux) THEN Fast(h, proc, UnstagedFast(h, aux), aux)
        ELSE IF StagedCachedApplies(fast, h)
        THEN Fast(h, proc, StagedCached(h, fast.aux), fast.aux)
        ELSE IF StagedSmallApplies(aux) THEN Fast(h, proc, StagedSmall(h, aux), again)
        ELSE Slow(h, proc)
  BY Zenon DEF Fingerprint, h, proc
<1> HIDE DEF Good, again, aux, fast
<1>8. Good(Fingerprint(process))
  <2>1. CASE ~cachedClean
    BY <1>2, <1>3, <1>7, <2>1, Zenon
  <2>2. CASE cachedClean
    <3>1. manifest # NoManifest
      BY <2>2
    <3> HIDE DEF cachedClean
    <3>. QED  BY <1>2, <1>3, <1>4, <1>5, <1>6, <1>7, <2>2, <3>1, Zenon
  <2>. QED  BY <2>1, <2>2
<1>. QED  BY <1>8 DEF Good

-----------------------------------------------------------------------------
(* The invariant, and that fingerprints tell trees apart.                  *)

\* An untouched repository keeps what is remembered true.
LEMMA SameKeepsMemory ==
    ASSUME UNCHANGED repo
    PROVE  /\ RepoInv => RepoInv'
           /\ \A m : Remembered(m) => Remembered(m)'
           /\ \A proc : Holds(proc) => Holds(proc)'
<1>1. Present' = Present /\ tree' = tree /\ StagedEntries' = StagedEntries
  BY RepoSame
<1>2. stat' = stat /\ dstat' = dstat /\ istat' = istat /\ moves' = moves /\ log' = log /\ head' = head
      /\ index' = index
  BY DEF repo
<1>3. \A aux : AuxInv(aux) => AuxInv(aux)'
  BY <1>1, <1>2 DEF AuxInv, FirstFiles
<1>4. \A t : Past(t) => Past(t)'
  BY <1>1 DEF Past
<1>5. RepoInv => RepoInv'
  BY <1>1, <1>2 DEF RepoInv
<1>. QED  BY <1>3, <1>4, <1>5 DEF Remembered, Holds, Describes, Shows, Names, FirstFiles

\* A new repository.
LEMMA IdentityInit ==
    ASSUME GitAssumption, Init
    PROVE  IdentityInv
<1>1. RepoInv
  BY DEF Init, GitInit, RepoInv, GitAssumption
<1>2. Remembered(manifest) /\ SeenInv
  BY DEF Init, GitInit, Remembered, SeenInv
<1>3. process = NoProcess /\ DOMAIN NoProcess = {"head", "oid", "fast"} /\ NoProcess.fast = NoFast
  BY DEF Init, GitInit, NoProcess
<1>. QED  BY <1>1, <1>2, <1>3 DEF IdentityInv, Holds

\* Every step keeps it.
LEMMA IdentityStep ==
    ASSUME GitAssumption, OnlyForward, ChunkInv, IdentityInv, [Next]_vars
    PROVE  IdentityInv'
<1> USE DEF IdentityInv
<1>0. DOMAIN NoProcess = {"head", "oid", "fast"} /\ NoProcess.fast = NoFast
  BY DEF NoProcess
<1>1. CASE Work
  <2>1. TreeInv /\ UserMove /\ seen' = seen
    BY <1>1 DEF Work, ChunkInv
  <2>2. RepoInv' /\ Forward /\ UNCHANGED <<manifest, process>> /\ moves' = moves + 1
    BY <2>1, MovesForward, MoveKeepsTrees
  <2>3. Remembered(manifest)' /\ Holds(process)'
    BY <2>1, <2>2, ForwardKeepsMemory DEF Remembered, Holds, AuxInv, Past
  <2>4. SeenInv'
    BY <2>1 DEF SeenInv
  <2>. QED  BY <2>2, <2>3, <2>4
<1>2. ASSUME UNCHANGED <<repo, manifest, seen>>, Holds(process')
      PROVE  IdentityInv'
  BY <1>2, SameKeepsMemory DEF SeenInv, Remembered, Holds, AuxInv, Past
<1>3. ASSUME NEW b \in Builders, BuildStep(b)
      PROVE  IdentityInv'
  <2>1. CASE \E c \in Configs : TakeFingerprint(b, c)
    <3> DEFINE f == Fingerprint(process)
    <3>1. PICK c \in Configs : TakeFingerprint(b, c)
      BY <2>1
    <3>2. /\ UNCHANGED repo /\ manifest' = f.manifest
          /\ process' = (IF Warm THEN f.process ELSE NoProcess)
          /\ seen' = seen \cup {<<Digest(f.state), tree>>}
      BY <3>1, Zenon DEF TakeFingerprint
    <3>3. Tells(f.state) /\ Remembered(f.manifest) /\ Holds(f.process) /\ tree \in Trees
      BY FingerprintTells DEF ChunkInv, TreeInv
    <3> HIDE DEF f
    <3>4. Holds(process')
      BY <1>0, <3>2, <3>3 DEF Holds
    <3>5. PICK m, q : m = f.manifest /\ q = process'
      OBVIOUS
    <3>6. Remembered(m) /\ Holds(q) /\ m = manifest' /\ q = process'
      BY <3>2, <3>3, <3>4, <3>5
    <3>7. RepoInv' /\ Remembered(m)' /\ Holds(q)'
      BY <3>2, <3>6, SameKeepsMemory
    <3>8. Remembered(manifest)' /\ Holds(process)'
      BY <3>6, <3>7 DEF Remembered, Holds, AuxInv, Past
    <3>9. SeenInv'
      BY <3>2, <3>3 DEF SeenInv, Tells
    <3>. QED  BY <3>7, <3>8, <3>9
  <2>2. CASE ReadFiles(b)
    <3>1. /\ UNCHANGED <<repo, manifest, seen>>
          /\ process' = process \/ process' = [process EXCEPT !.oid = HeadTree(build[b])]
      BY <2>2, Zenon DEF ReadFiles, Local
    <3>2. {"head", "oid", "fast"} \subseteq DOMAIN process' /\ process'.fast = process.fast
      BY <3>1 DEF Holds
    <3>3. Holds(process')
      BY <3>2 DEF Holds
    <3>. QED  BY <1>2, <3>1, <3>3
  <2>3. CASE Kill(b)
    BY <1>0, <1>2, <2>3 DEF Kill, Holds
  <2>4. CASE TakeSnapshot(b) \/ WriteManifest(b) \/ WritePayload(b) \/ WriteMetadata(b) \/ DropPayload(b) \/ Finish(b)
    BY <1>2, <2>4 DEF TakeSnapshot, WriteManifest, WritePayload, WriteMetadata, DropPayload, Finish, gitVars
  <2>. QED  BY <1>3, <2>1, <2>2, <2>3, <2>4 DEF BuildStep
<1>4. CASE UNCHANGED vars
  BY <1>2, <1>4 DEF vars, gitVars
<1>. QED  BY <1>1, <1>3, <1>4 DEF Next

\* For any number of inspections and configurations, cold or warm, killed
\* anywhere, with or without the fast paths: while files are only written,
\* created, touched and staged, what is remembered of the repository is true
\* and every fingerprint describes the tree it was taken of.
THEOREM IdentityInvariant ==
    ASSUME OnlyForward
    PROVE  Spec => []IdentityInv
<1>1. Init => IdentityInv
  BY IdentityInit, GitAssumption
<1>2. IdentityInv /\ ChunkInv /\ [Next]_vars => IdentityInv'
  BY IdentityStep, GitAssumption
<1>. QED  BY <1>1, <1>2, ChunkInvariant, PTL DEF Spec

\* A fingerprint describes one tree at most.
LEMMA DescribesOne ==
    ASSUME NEW d, NEW s \in Trees, NEW t \in Trees, Describes(d, s), Describes(d, t)
    PROVE  s = t
<1>1. ASSUME NEW p \in Paths
      PROVE  s[p] = t[p]
  BY DEF Describes, Shows, Names
<1>. QED  BY <1>1 DEF Trees

\* Two different working trees never have the same fingerprint.
THEOREM IdentitiesCoverTrees ==
    ASSUME OnlyForward
    PROVE  Spec => []IdentityCoversTree
<1>1. IdentityInv => IdentityCoversTree
  BY DescribesOne DEF IdentityInv, SeenInv, IdentityCoversTree
<1>. QED  BY <1>1, IdentityInvariant, PTL

-----------------------------------------------------------------------------
(* Chunks.  The working manifest and the snapshot are of a tree that the   *)
(* fingerprint they are found under describes, and a file that no hint     *)
(* names is as it was then.                                                *)

KeptFor(d, t) == Past(t) /\ Describes(d, t)

\* A listing names the files of the first commit, which are all still there,
\* and the files of a tree its fingerprint describes.
Listed(r) ==
    /\ {"fp", "files", "cfg"} \subseteq DOMAIN r /\ FirstFiles \subseteq r.files
    /\ \E t \in Trees : Describes(r.fp, t) /\ Files(t) \subseteq r.files
AllListed ==
    /\ \A r \in listing.exact : r # NoRecord /\ Listed(r)
    /\ listing.last # NoRecord => Listed(listing.last)

ManifestFits(cfg) ==
    /\ work.files \in Trees
    /\ work.fp # NoFp => KeptFor(work.fp, work.files)
    /\ HasFiles(work) => work.cfg = cfg /\ work.fp # NoFp

\* As PayloadKept and MetadataKept, for the whole tree.
PayloadFits(b) ==
    \/ payload = NoSnapshot
    \/ build[b].pc \in {"payload", "drop"}
    \/ build[b].pc = "metadata" /\ build[b].plan = "meta_only"
    \/ payload.chunks = work.files /\ Describes(payload.fp, payload.chunks)
MetadataFits(b) ==
    \/ payload = NoSnapshot \/ meta = NoSnapshot
    \/ build[b].pc \in {"payload", "metadata", "drop"}
    \/ Describes(meta.fp, payload.chunks)

\* A build works for the tree as it is: nobody touches it meanwhile.
Works(l, cfg) == l.tree = tree /\ l.cfg = cfg /\ Describes(l.fp, tree)
ProbeTells(l) ==
    /\ l.fp # NoFp
    /\ \A p \in Paths : tree[p] # FirstTree[p] => p \in l.state.dirty
    /\ l.state.clean \in {{}, FirstFiles}
LateFits(l) ==
    /\ l.fp # NoFp /\ l.chunks = tree /\ l.entries = tree
    /\ l.plan \in {"nothing", "meta_only", "reuse", "full"}
    /\ l.pc # "manifest" => work.fp = l.fp /\ work.files = tree
    /\ l.plan \in {"reuse", "nothing"} => work.files = tree
    /\ l.plan = "nothing" => work.fp = l.fp

\* One inspection at a time, of one configuration.
OneBuilder(b, cfg) == Builders = {b} /\ Configs = {cfg}

FitsNow(b, cfg) ==
    /\ ManifestFits(cfg) /\ AllListed /\ PayloadFits(b) /\ MetadataFits(b)
    /\ build[b].pc # "idle" => Works(build[b], cfg)
    /\ build[b].pc = "probe" => ProbeTells(build[b])
    /\ build[b].pc \in Late => LateFits(build[b])
    /\ answer[b] # NoAnswer => answer[b].chunks = answer[b].tree
FitInv(b, cfg) == torn \/ FitsNow(b, cfg)

\* What the lemmas about a build that has its fingerprint start from.
Probing(b, cfg) ==
    /\ b \in Builders /\ build[b].pc = "probe" /\ FitsNow(b, cfg)
    /\ TreeInv /\ RepoInv

\* What a build finds at its probe.
LEMMA ProbeFits ==
    ASSUME NEW b, NEW cfg, Probing(b, cfg)
    PROVE  /\ Works(build[b], cfg) /\ ProbeTells(build[b]) /\ tree \in Trees /\ FirstFiles \subseteq Present
           /\ payload # NoSnapshot => payload.chunks = work.files /\ Describes(payload.fp, work.files)
           /\ payload # NoSnapshot /\ meta # NoSnapshot => Describes(meta.fp, work.files)
           /\ \A t \in Trees : Describes(build[b].fp, t) => t = tree
           /\ work.fp = build[b].fp => work.files = tree
           /\ \A p \in Paths : p \notin Touched(build[b]) => tree[p] = FirstTree[p]
           /\ \A p \in Paths : p \notin StatusPaths => tree[p] = FirstTree[p]
           /\ HasFiles(work) => work.cfg = cfg /\ Past(work.files)
<1> DEFINE l == build[b]
<1>1. Works(l, cfg) /\ ProbeTells(l) /\ ManifestFits(cfg)
  BY DEF Probing, FitsNow
<1>2. tree \in Trees /\ FirstFiles \subseteq Present
  BY DEF Probing, TreeInv, RepoInv, FirstFiles, Present
<1>3. payload # NoSnapshot => payload.chunks = work.files /\ Describes(payload.fp, work.files)
  BY DEF Probing, FitsNow, PayloadFits
<1>4. payload # NoSnapshot /\ meta # NoSnapshot => Describes(meta.fp, work.files)
  BY <1>3 DEF Probing, FitsNow, MetadataFits
<1>5. \A t \in Trees : Describes(l.fp, t) => t = tree
  BY <1>1, <1>2, DescribesOne DEF Works
<1>6. work.fp = l.fp => work.files = tree
  BY <1>1, <1>5 DEF ManifestFits, ProbeTells, KeptFor
<1>7. \A p \in Paths : p \notin Touched(l) => tree[p] = FirstTree[p]
  BY <1>1 DEF ProbeTells, Touched
<1>8. \A p \in Paths : p \notin StatusPaths => tree[p] = FirstTree[p]
  <2>1. log[head] = FirstTree
    BY DEF Probing, RepoInv
  <2>. QED  BY <2>1, StatusPathsAre
<1>9. HasFiles(work) => work.cfg = cfg /\ Past(work.files)
  BY <1>1 DEF ManifestFits, KeptFor
<1>. QED  BY <1>1, <1>2, <1>3, <1>4, <1>5, <1>6, <1>7, <1>8, <1>9

\* What is restored is the tree.
LEMMA RestoredIsTree ==
    ASSUME NEW b, NEW cfg, Probing(b, cfg), SnapshotHit(build[b])
    PROVE  Restored(build[b]) = tree
<1> DEFINE l == build[b]
<1>1. /\ payload # NoSnapshot => payload.chunks = work.files /\ Describes(payload.fp, work.files)
      /\ payload # NoSnapshot /\ meta # NoSnapshot => Describes(meta.fp, work.files)
      /\ \A t \in Trees : Describes(l.fp, t) => t = tree
      /\ work.fp = l.fp => work.files = tree
  BY ProbeFits
<1>2. work.files \in Trees
  BY DEF Probing, FitsNow, ManifestFits
<1>3. Restored(l) = work.files
  BY <1>1 DEF Restored, Loadable
<1>4. CASE Own(l)
  BY <1>1, <1>3, <1>4 DEF Own
<1>5. CASE ~Own(l)
  <2>1. Loadable(l.fp, l.cfg)
    BY <1>5 DEF SnapshotHit
  <2>2. Describes(l.fp, work.files)
    BY <1>1, <2>1 DEF Loadable
  <2>. QED  BY <1>1, <1>2, <1>3, <2>2
<1>. QED  BY <1>4, <1>5

\* A set of files brought up to date names every file there is, if it named
\* the files of the first commit.
LEMMA UpdateFits ==
    ASSUME NEW b, NEW cfg, Probing(b, cfg), NEW files, FirstFiles \subseteq files,
           NEW touched, \A p \in Paths : p \notin touched => tree[p] = FirstTree[p]
    PROVE  FirstFiles \subseteq Update(files, touched) /\ Present \subseteq Update(files, touched)
<1>1. FirstFiles \subseteq Present
  BY ProbeFits
<1>2. ASSUME NEW p \in Present
      PROVE  p \in Update(files, touched)
  <2>1. CASE p \in touched
    BY <2>1 DEF Update
  <2>2. CASE p \notin touched
    <3>1. p \in FirstFiles
      BY <2>2 DEF Present, FirstFiles
    <3>. QED  BY <2>2, <3>1 DEF Update
  <2>. QED  BY <2>1, <2>2
<1>. QED  BY <1>1, <1>2

\* The conditions under which a record is right for the tree as it is.
LEMMA ListedNow ==
    ASSUME NEW b, NEW cfg, Probing(b, cfg), NEW r, {"fp", "files", "cfg"} \subseteq DOMAIN r,
           r.fp = build[b].fp, Present \subseteq r.files
    PROVE  Listed(r)
<1>1. Describes(build[b].fp, tree) /\ tree \in Trees /\ FirstFiles \subseteq Present
  BY ProbeFits DEF Works
<1>. QED  BY <1>1 DEF Listed, Files, Present

\* A listing that is known for the fingerprint names every file there is.
LEMMA KnownFits ==
    ASSUME NEW b, NEW cfg, Probing(b, cfg), KnownListing(build[b]) # NoRecord
    PROVE  /\ Listed(KnownListing(build[b])) /\ KnownListing(build[b]).fp = build[b].fp
           /\ Present \subseteq KnownListing(build[b]).files
<1> DEFINE l == build[b]
           last == listing.last
           exact == {r \in listing.exact : r.fp = l.fp /\ r.cfg = l.cfg}
           touched == [last EXCEPT !.fp = l.fp, !.files = Update(@, Touched(l))]
           kept == [last EXCEPT !.fp = l.fp]
<1>0. /\ AllListed /\ FirstFiles \subseteq Present
      /\ \A t \in Trees : Describes(l.fp, t) => t = tree
      /\ \A p \in Paths : p \notin Touched(l) => tree[p] = FirstTree[p]
  BY ProbeFits DEF Probing, FitsNow
<1>1. ASSUME NEW r, Listed(r), r.fp = l.fp
      PROVE  Present \subseteq r.files
  BY <1>0, <1>1 DEF Listed, Files, Present
<1>2. CASE exact # {}
  <2>1. KnownListing(l) \in exact
    BY <1>2, Zenon DEF KnownListing
  <2>. QED  BY <2>1, <1>0, <1>1 DEF AllListed
<1>3. CASE exact = {}
  <2>1. last # NoRecord /\ last.cfg = l.cfg /\ Listed(last)
    BY <1>0, <1>3 DEF KnownListing, AllListed
  <2>2. CASE last.fp = l.fp /\ ~Partial(l)
    <3>1. KnownListing(l) = last
      BY <1>3, <2>1, <2>2, Zenon DEF KnownListing
    <3>. QED  BY <2>1, <2>2, <3>1, <1>1
  <2>3. CASE ~(last.fp = l.fp /\ ~Partial(l)) /\ Touched(l) # {}
    <3>1. KnownListing(l) = touched
      BY <1>3, <2>1, <2>3, Zenon DEF KnownListing
    <3>2. touched.fp = l.fp /\ touched.files = Update(last.files, Touched(l)) /\ DOMAIN touched = DOMAIN last
      BY <2>1 DEF Listed
    <3>3. Present \subseteq Update(last.files, Touched(l))
      BY <1>0, <2>1, UpdateFits DEF Listed
    <3> HIDE DEF touched
    <3>4. {"fp", "files", "cfg"} \subseteq DOMAIN touched
      BY <2>1, <3>2 DEF Listed
    <3>. QED  BY <3>1, <3>2, <3>3, <3>4, ListedNow
  <2>4. CASE ~(last.fp = l.fp /\ ~Partial(l)) /\ Touched(l) = {}
    <3>1. KnownListing(l) = kept
      BY <1>3, <2>1, <2>4, Zenon DEF KnownListing
    <3>2. kept.fp = l.fp /\ kept.files = last.files /\ DOMAIN kept = DOMAIN last
      BY <2>1 DEF Listed
    <3>3. Present \subseteq FirstFiles
      BY <1>0, <2>4 DEF Present, FirstFiles
    <3> HIDE DEF kept
    <3>4. {"fp", "files", "cfg"} \subseteq DOMAIN kept /\ Present \subseteq kept.files
      BY <2>1, <3>2, <3>3 DEF Listed
    <3>. QED  BY <3>1, <3>2, <3>4, ListedNow
  <2>. QED  BY <2>2, <2>3, <2>4
<1>. QED  BY <1>2, <1>3

\* So does the listing taken from the head.
LEMMA HeadFits ==
    ASSUME NEW b, NEW cfg, Probing(b, cfg)
    PROVE  /\ Listed(ByHead(build[b])) /\ ByHead(build[b]) # NoRecord
           /\ Present \subseteq ByHead(build[b]).files
<1> DEFINE l == build[b]
           last == listing.last
           files == IF last = NoRecord THEN Present
                    ELSE IF last.oid # HeadTree(l) THEN Present
                    ELSE Update(last.files, StatusPaths) \cap (IF last.cfg = l.cfg THEN Paths ELSE Present)
<1>1. ByHead(l) = Record(files, l, HeadTree(l))
  BY Zenon DEF ByHead
<1>2. AllListed /\ \A p \in Paths : p \notin StatusPaths => tree[p] = FirstTree[p]
  BY ProbeFits DEF Probing, FitsNow
<1>3. last # NoRecord => Present \subseteq Update(last.files, StatusPaths)
  BY <1>2, UpdateFits DEF AllListed, Listed
<1>4. Present \subseteq files
  BY <1>3 DEF Present
<1> HIDE DEF files
<1>5. PICK r : r = ByHead(l)
  OBVIOUS
<1>6. r.fp = l.fp /\ r.files = files /\ {"fp", "files", "cfg"} \subseteq DOMAIN r /\ r # NoRecord
  BY <1>1, <1>5, RecordIs
<1>. QED  BY <1>4, <1>5, <1>6, ListedNow

\* The files of a clean tree are those of the first commit.
LEMMA CleanFits ==
    ASSUME NEW b, NEW cfg, Probing(b, cfg), CleanHint(build[b]) # {}
    PROVE  Present \subseteq CleanHint(build[b])
<1> DEFINE l == build[b]
<1>1. Touched(l) = {} /\ CleanHint(l) = l.state.clean
  BY DEF CleanHint
<1>2. l.state.clean = FirstFiles
  BY <1>1, ProbeFits DEF ProbeTells
<1>3. \A p \in Paths : tree[p] = FirstTree[p]
  BY <1>1, ProbeFits
<1>. QED  BY <1>1, <1>2, <1>3 DEF Present, FirstFiles

\* The files of a build are all the files there are.
LEMMA FilesFit ==
    ASSUME NEW b, NEW cfg, Probing(b, cfg)
    PROVE  Present \subseteq FilesOf(build[b])
<1> DEFINE l == build[b]
<1>1. CASE CleanHint(l) # {}
  BY <1>1, CleanFits DEF FilesOf
<1>2. CASE CleanHint(l) = {} /\ FromManifest(l) # {}
  <2>1. /\ FromManifest(l) = Update(Files(work.files), Touched(l)) \cap (IF work.cfg = l.cfg THEN Paths ELSE Present)
        /\ HasFiles(work)
    BY <1>2 DEF FromManifest, Partial
  <2>2. Past(work.files) /\ FirstFiles \subseteq Present /\ \A p \in Paths : p \notin Touched(l) => tree[p] = FirstTree[p]
    BY <2>1, ProbeFits
  <2>3. ASSUME NEW p \in Present
        PROVE  p \in Update(Files(work.files), Touched(l))
    <3>1. CASE p \in Touched(l)
      BY <3>1 DEF Update
    <3>2. CASE p \notin Touched(l)
      <4>1. tree[p] = FirstTree[p] /\ p \in Paths /\ tree[p] # Absent
        BY <2>2, <3>2 DEF Present
      <4>2. work.files[p] = FirstTree[p]
        BY <2>2, <4>1 DEF Past
      <4>. QED  BY <3>2, <4>1, <4>2 DEF Update, Files
    <3>. QED  BY <3>1, <3>2
  <2>. QED  BY <1>2, <2>1, <2>3 DEF FilesOf, Present
<1>3. CASE CleanHint(l) = {} /\ FromManifest(l) = {} /\ KnownListing(l) # NoRecord
  BY <1>3, KnownFits DEF FilesOf
<1>4. CASE CleanHint(l) = {} /\ FromManifest(l) = {} /\ KnownListing(l) = NoRecord
  BY <1>4, HeadFits DEF FilesOf
<1>. QED  BY <1>1, <1>2, <1>3, <1>4

\* What a build leaves in the listing cache is right for its fingerprint.
LEMMA ListingFits ==
    ASSUME NEW b, NEW cfg, Probing(b, cfg), listing' = ListingAfter(build[b])
    PROVE  AllListed'
<1> DEFINE l == build[b]
           r == IF CleanHint(l) # {} THEN Record(CleanHint(l), l, 0)
                ELSE IF KnownListing(l) # NoRecord THEN KnownListing(l) ELSE ByHead(l)
<1>0. AllListed
  BY DEF Probing, FitsNow
<1>1. CASE listing' = listing
  BY <1>0, <1>1 DEF AllListed, Listed, Describes, Shows, Names
<1>2. CASE listing' # listing
  <2>1. listing' = [last |-> r, exact |-> {q \in listing.exact : q.fp # r.fp \/ q.cfg # r.cfg} \cup {r}]
    BY <1>2, Zenon DEF ListingAfter
  <2>2. r # NoRecord /\ Listed(r)
    <3>1. CASE CleanHint(l) # {}
      <4>1. PICK c : c = Record(CleanHint(l), l, 0)
        OBVIOUS
      <4>2. c.fp = l.fp /\ c.files = CleanHint(l) /\ {"fp", "files", "cfg"} \subseteq DOMAIN c /\ c # NoRecord
        BY <4>1, RecordIs
      <4>3. Listed(c)
        BY <3>1, <4>2, CleanFits, ListedNow
      <4>. QED  BY <3>1, <4>1, <4>2, <4>3
    <3>2. CASE CleanHint(l) = {} /\ KnownListing(l) # NoRecord
      BY <3>2, KnownFits
    <3>3. CASE CleanHint(l) = {} /\ KnownListing(l) = NoRecord
      BY <3>3, HeadFits
    <3>. QED  BY <3>1, <3>2, <3>3
  <2> HIDE DEF r
  <2>3. listing'.last = r /\ \A q \in listing'.exact : q \in listing.exact \/ q = r
    BY <2>1
  <2>4. \A q : Listed(q) => Listed(q)'
    BY DEF Listed, Describes, Shows, Names, FirstFiles
  <2>. QED  BY <1>0, <2>2, <2>3, <2>4 DEF AllListed, Listed, Describes, Shows, Names
<1>. QED  BY <1>1, <1>2

\* What is read is the tree: a file whose entry is kept has not changed since
\* the first commit.
LEMMA ReadingFits ==
    ASSUME NEW b, NEW cfg, Probing(b, cfg), Framed, ReadFiles(b)
    PROVE  /\ AllListed' /\ build'[b].pc = "manifest" /\ LateFits(build[b])' /\ Works(build[b], cfg)'
           /\ UNCHANGED <<repo, manifest, work, payload, meta, answer, torn>>
<1> DEFINE l == build[b]
           n == build'[b]
           files == FilesOf(l)
<1>0. b \in Builders
  BY DEF Probing
<1>1. /\ ~SnapshotHit(l) /\ listing' = ListingAfter(l)
      /\ n.pc = "manifest" /\ n.fp = l.fp /\ n.cfg = l.cfg /\ n.tree = l.tree
      /\ n.chunks = Over(files, [p \in files |-> ChunkOf(p, l)])
      /\ n.entries = Over(files, [p \in files |-> EntryOf(p, l)])
      /\ \E rebuilt \in BOOLEAN : n.plan = Plan(l, n.entries, rebuilt)
      /\ UNCHANGED <<repo, manifest, work, payload, meta, answer, torn>>
  BY <1>0, ReadFilesIs
<1>2. /\ Works(l, cfg) /\ ProbeTells(l) /\ tree \in Trees
      /\ payload # NoSnapshot => payload.chunks = work.files
      /\ \A p \in Paths : p \notin Touched(l) => tree[p] = FirstTree[p]
      /\ \A p \in Paths : p \notin StatusPaths => tree[p] = FirstTree[p]
      /\ HasFiles(work) => work.cfg = cfg /\ Past(work.files)
      /\ Present \subseteq files
  BY ProbeFits, FilesFit
<1>3. \A p : ChunkOf(p, l) = EntryOf(p, l)
  BY <1>2 DEF ChunkOf, EntryOf, WarmSnapshot, Loadable
<1>4. n.chunks = n.entries
  <2>1. [p \in files |-> ChunkOf(p, l)] = [p \in files |-> EntryOf(p, l)]
    BY <1>3
  <2>. QED  BY <1>1, <2>1
<1>5. ASSUME NEW p \in Paths, Reused(p, l)
      PROVE  work.files[p] = tree[p]
  <2>1. p \in Files(work.files) /\ p \notin Dirty(l) /\ HasFiles(work)
    BY <1>5 DEF Reused, HasFiles
  <2>2. work.cfg = l.cfg /\ Past(work.files)
    BY <1>2, <2>1 DEF Works
  <2>3. Partial(l)
    BY <1>1, <2>1, <2>2 DEF Partial, SnapshotHit, Own
  <2>4. Dirty(l) = (IF Touched(l) # {} THEN Touched(l) ELSE StatusPaths)
    BY <2>2, <2>3 DEF Dirty
  <2>5. tree[p] = FirstTree[p]
    BY <1>2, <2>1, <2>4
  <2>. QED  BY <2>2, <2>5 DEF Past
<1>6. \A p \in files \cap Paths : EntryOf(p, l) = tree[p]
  BY <1>5 DEF EntryOf
<1>7. n.entries = tree
  <2>1. n.entries = [p \in Paths |-> IF p \in files THEN EntryOf(p, l) ELSE Absent]
    <3> HIDE DEF files
    <3>1. \A p \in Paths : p \in files => [q \in files |-> EntryOf(q, l)][p] = EntryOf(p, l)
      OBVIOUS
    <3>. QED  BY <1>1, <3>1 DEF Over
  <2>2. \A p \in Paths : (IF p \in files THEN EntryOf(p, l) ELSE Absent) = tree[p]
    BY <1>2, <1>6 DEF Present
  <2>3. tree = [p \in Paths |-> tree[p]]
    BY <1>2 DEF Trees
  <2> HIDE DEF files, n
  <2>. QED  BY <2>1, <2>2, <2>3
<1>8. /\ n.plan \in {"nothing", "meta_only", "reuse", "full"}
      /\ n.plan \in {"reuse", "nothing"} => work.files = n.entries
      /\ n.plan = "nothing" => work.fp = n.fp
  BY <1>1, PlanIs
<1>9. tree' = tree /\ work' = work
  BY <1>1 DEF repo
<1>10. AllListed'
  BY <1>1, ListingFits
<1> HIDE DEF files
<1>11. LateFits(build[b])'
  BY <1>1, <1>2, <1>4, <1>7, <1>8, <1>9 DEF LateFits, ProbeTells
<1>12. Works(build[b], cfg)'
  BY <1>1, <1>2, <1>9 DEF Works, Describes, Shows, Names
<1>. QED  BY <1>1, <1>10, <1>11, <1>12

\* What an untouched repository and an untouched cache keep.
LEMMA FilesKept ==
    ASSUME UNCHANGED <<tree, work, listing>>, NEW cfg
    PROVE  (AllListed => AllListed') /\ (ManifestFits(cfg) => ManifestFits(cfg)')
<1>1. \A r : Listed(r) => Listed(r)'
  BY DEF Listed, Describes, Shows, Names, FirstFiles
<1>2. AllListed => AllListed'
  BY <1>1 DEF AllListed, Listed, Describes, Shows, Names
<1>3. ManifestFits(cfg) => ManifestFits(cfg)'
  BY DEF ManifestFits, KeptFor, Past, Describes, Shows, Names, HasFiles, Files
<1>. QED  BY <1>2, <1>3

\* An inspection that returns the tree keeps the invariant.
LEMMA FitReturn ==
    ASSUME NEW b \in Builders, NEW cfg, Framed, FitsNow(b, cfg), NEW chunks, Return(b, chunks),
           build[b].pc \in {"probe", "done"}, chunks = build[b].tree, UNCHANGED <<gitVars, cacheVars>>
    PROVE  FitsNow(b, cfg)'
<1>1. /\ build'[b] = Idle /\ answer'[b].chunks = chunks /\ answer'[b].tree = build[b].tree
  BY ReturnFrees
<1>2. build'[b].pc = "idle"
  BY <1>1 DEF Idle
<1>3. UNCHANGED <<tree, work, listing, payload, meta>>
  BY DEF gitVars, repo, cacheVars
<1>4. AllListed' /\ ManifestFits(cfg)'
  BY <1>3, FilesKept DEF FitsNow
<1>5. PayloadFits(b)' /\ MetadataFits(b)'
  BY <1>3 DEF PayloadFits, MetadataFits, FitsNow, Describes, Shows, Names
<1>. QED  BY <1>1, <1>2, <1>4, <1>5 DEF FitsNow, Late

\* A write of a build that knows the tree.
LEMMA FitWrite ==
    ASSUME TreeInv, NEW b \in Builders, NEW cfg, Framed, Shaped(build[b]), FitsNow(b, cfg),
           WriteManifest(b) \/ WritePayload(b) \/ WriteMetadata(b) \/ DropPayload(b)
    PROVE  FitsNow(b, cfg)'
<1> DEFINE l == build[b]
           n == build'[b]
<1>1. PICK pc \in Late : Goto(b, pc) /\ pc # "manifest"
  BY DEF WriteManifest, WritePayload, WriteMetadata, DropPayload, Late
<1>2. /\ l.pc \in Late /\ l.pc # "done" /\ UNCHANGED <<gitVars, listing, answer>>
  BY DEF WriteManifest, WritePayload, WriteMetadata, DropPayload, Late, At
<1>3. LateFits(l) /\ Works(l, cfg) /\ tree' = tree
  BY <1>2 DEF FitsNow, Late, gitVars, repo
<1>4. /\ n.pc = pc /\ n.fp = l.fp /\ n.cfg = l.cfg /\ n.tree = l.tree /\ n.chunks = l.chunks
      /\ n.entries = l.entries /\ n.plan = l.plan
  BY <1>1, <1>2, GotoCarries
<1>5. \A d, t : Describes(d, t) => Describes(d, t)'
  BY DEF Describes, Shows, Names
<1>6. AllListed'
  BY <1>2 DEF AllListed, FitsNow, Listed, Describes, Shows, Names, FirstFiles, Files
<1>7. work'.fp = l.fp /\ work'.files = tree /\ (work' = work \/ work'.cfg = l.cfg)
  <2>1. CASE WriteManifest(b)
    BY <2>1, <1>3 DEF WriteManifest, Local, LateFits
  <2>2. CASE ~WriteManifest(b)
    BY <2>2, <1>3 DEF WritePayload, WriteMetadata, DropPayload, LateFits, At
  <2>. QED  BY <2>1, <2>2
<1>8. Describes(l.fp, tree) /\ Past(tree) /\ tree \in Trees /\ l.fp # NoFp
  BY <1>3 DEF Works, Past, TreeInv, LateFits
<1>9. ManifestFits(cfg)'
  <2>1. KeptFor(work.fp, work.files)'
    BY <1>3, <1>7, <1>8 DEF KeptFor, Past, Describes, Shows, Names
  <2>2. HasFiles(work)' => work'.cfg = cfg /\ work'.fp # NoFp
    BY <1>3, <1>7, <1>8 DEF FitsNow, ManifestFits, HasFiles, Files, Works
  <2>. QED  BY <1>7, <1>8, <2>1, <2>2 DEF ManifestFits, Trees
<1>10. LateFits(build[b])' /\ Works(build[b], cfg)'
  BY <1>3, <1>4, <1>7, <1>8 DEF LateFits, Works, Describes, Shows, Names
<1>11. PayloadFits(b)' /\ MetadataFits(b)'
  <2>0. l.plan \in {"nothing", "meta_only", "reuse", "full"} /\ (l.plan \in {"reuse", "nothing"} => work.files = tree)
        /\ l.chunks = tree
    BY <1>3 DEF LateFits
  <2>1. CASE WriteManifest(b)
    <3>1. /\ l.pc = "manifest" /\ payload' = payload /\ meta' = meta
          /\ Goto(b, IF l.plan = "full" THEN "payload" ELSE IF l.plan = "nothing" THEN "done" ELSE "metadata")
      BY <2>1 DEF WriteManifest, At, Local
    <3>2. n.pc = (IF l.plan = "full" THEN "payload" ELSE IF l.plan = "nothing" THEN "done" ELSE "metadata")
      BY <3>1, <1>2, GotoCarries DEF Late
    <3>3. payload = NoSnapshot \/ (payload.chunks = work.files /\ Describes(payload.fp, payload.chunks))
      BY <3>1 DEF FitsNow, PayloadFits
    <3>4. payload = NoSnapshot \/ meta = NoSnapshot \/ Describes(meta.fp, payload.chunks)
      BY <3>1 DEF FitsNow, MetadataFits
    <3>. QED  BY <1>4, <1>7, <2>0, <3>1, <3>2, <3>3, <3>4 DEF PayloadFits, MetadataFits, Describes, Shows, Names
  <2>2. CASE WritePayload(b)
    <3>1. payload'.chunks = l.chunks /\ payload'.fp = l.fp /\ Goto(b, "metadata")
      BY <2>2 DEF WritePayload, Local
    <3>2. n.pc = "metadata"
      BY <3>1, <1>2, GotoCarries DEF Late
    <3>. QED  BY <1>7, <1>8, <2>0, <3>1, <3>2 DEF PayloadFits, MetadataFits, Describes, Shows, Names
  <2>3. CASE WriteMetadata(b)
    <3>1. /\ l.pc = "metadata" /\ payload' = payload /\ meta'.fp = l.fp /\ work' = work
          /\ Goto(b, IF l.plan = "meta_only" THEN "drop" ELSE "done")
      BY <2>3 DEF WriteMetadata, At, Local
    <3>2. n.pc = (IF l.plan = "meta_only" THEN "drop" ELSE "done")
      BY <3>1, <1>2, GotoCarries DEF Late
    <3>3. CASE l.plan = "meta_only"
      BY <3>2, <3>3 DEF PayloadFits, MetadataFits
    <3>4. CASE l.plan # "meta_only"
      <4>1. payload = NoSnapshot \/ (payload.chunks = work.files /\ Describes(payload.fp, payload.chunks))
        BY <3>1, <3>4 DEF FitsNow, PayloadFits
      <4>2. work.files = tree
        BY <3>1, <1>7
      <4>. QED  BY <1>8, <3>1, <4>1, <4>2 DEF PayloadFits, MetadataFits, Describes, Shows, Names
    <3>. QED  BY <3>3, <3>4
  <2>4. CASE DropPayload(b)
    BY <2>4 DEF DropPayload, PayloadFits, MetadataFits
  <2>. QED  BY <2>1, <2>2, <2>3, <2>4
<1>12. n.pc \in Late /\ n.pc # "idle" /\ n.pc # "probe"
  BY <1>1, <1>4 DEF Late
<1>13. answer'[b] # NoAnswer => answer'[b].chunks = answer'[b].tree
  BY <1>2 DEF FitsNow
<1>. QED  BY <1>6, <1>9, <1>10, <1>11, <1>12, <1>13 DEF FitsNow

\* A repository nobody has inspected.
LEMMA FitInit ==
    ASSUME GitAssumption, Init, NEW b, NEW cfg, OneBuilder(b, cfg)
    PROVE  FitInv(b, cfg)
<1>1. build[b] = Idle /\ answer[b] = NoAnswer
  BY DEF Init, OneBuilder
<1>2. Idle.pc = "idle"
  BY DEF Idle
<1>3. ~HasFiles(work) /\ work.fp = NoFp /\ work.files \in Trees
  BY DEF Init, NoWork, NoChunks, HasFiles, Files, Trees
<1>4. AllListed
  BY DEF Init, AllListed
<1>5. payload = NoSnapshot
  BY DEF Init
<1>. QED  BY <1>1, <1>2, <1>3, <1>4, <1>5
          DEF FitInv, FitsNow, ManifestFits, PayloadFits, MetadataFits, Late

\* The user works while no build is under way; what a build once kept was of
\* a tree of the past, and stays one.
LEMMA FitWork ==
    ASSUME GitAssumption, OnlyForward, TreeInv, RepoInv, NEW b \in Builders, NEW cfg,
           FitsNow(b, cfg), Work
    PROVE  FitsNow(b, cfg)'
<1>1. /\ UserMove /\ build[b].pc = "idle"
      /\ UNCHANGED <<work, payload, meta, listing, build, answer>>
  BY DEF Work, At, cacheVars
<1>2. \A t : Past(t) => Past(t)'
  BY <1>1, MovesForward DEF Forward, Past
<1>3. AllListed'
  BY <1>1 DEF AllListed, FitsNow, Listed, Describes, Shows, Names, FirstFiles, Files
<1>4. ManifestFits(cfg)'
  BY <1>1, <1>2 DEF FitsNow, ManifestFits, KeptFor, Past, Describes, Shows, Names, HasFiles, Files, Trees
<1>5. PayloadFits(b)' /\ MetadataFits(b)'
  BY <1>1 DEF FitsNow, PayloadFits, MetadataFits, Describes, Shows, Names
<1>. QED  BY <1>1, <1>3, <1>4, <1>5 DEF FitsNow, Late

\* A build that is killed before its first write or after its last leaves the
\* files of the cache as they are.
LEMMA FitKill ==
    ASSUME NEW b \in Builders, NEW cfg, Framed, Shaped(build[b]), FitsNow(b, cfg), Kill(b), ~torn'
    PROVE  FitsNow(b, cfg)'
<1>1. /\ build[b].pc \notin {"payload", "metadata", "drop"} /\ UNCHANGED <<repo, cacheVars, answer>>
      /\ build' = [build EXCEPT ![b] = Idle]
  BY DEF Kill
<1>2. build'[b] = Idle /\ Idle.pc = "idle"
  BY <1>1, Zenon DEF Framed, Idle
<1>3. UNCHANGED <<tree, work, listing, payload, meta, answer>>
  BY <1>1 DEF repo, cacheVars
<1>4. AllListed' /\ ManifestFits(cfg)'
  BY <1>3, FilesKept DEF FitsNow
<1>5. PayloadFits(b)' /\ MetadataFits(b)'
  BY <1>1, <1>3 DEF PayloadFits, MetadataFits, FitsNow, Describes, Shows, Names
<1>. QED  BY <1>2, <1>3, <1>4, <1>5 DEF FitsNow, Late

\* A build begins with a fingerprint that tells the tree.
LEMMA FitBegin ==
    ASSUME GitAssumption, ChunkInv, IdentityInv, NEW b \in Builders, NEW cfg, FitsNow(b, cfg),
           TakeFingerprint(b, cfg)
    PROVE  FitsNow(b, cfg)'
<1> DEFINE f == Fingerprint(process)
           n == build'[b]
<1>1. /\ n.pc = "probe" /\ n.cfg = cfg /\ n.tree = tree /\ n.state = f.state /\ n.fp = Digest(f.state)
      /\ build[b].pc = "idle" /\ UNCHANGED <<repo, cacheVars, answer>>
  BY TakeFingerprintBegins DEF ChunkInv
<1>2. Tells(f.state) /\ n.fp # NoFp
  BY <1>1, FingerprintTells, DigestIsNoNull DEF ChunkInv, IdentityInv
<1> HIDE DEF f
<1>3. UNCHANGED <<tree, work, listing, payload, meta, answer>>
  BY <1>1 DEF repo, cacheVars
<1>4. AllListed' /\ ManifestFits(cfg)'
  BY <1>3, FilesKept DEF FitsNow
<1>5. PayloadFits(b)' /\ MetadataFits(b)'
  BY <1>1, <1>3 DEF PayloadFits, MetadataFits, FitsNow, Describes, Shows, Names
<1>6. Works(build[b], cfg)'
  BY <1>1, <1>2, <1>3 DEF Works, Tells, Describes, Shows, Names
<1>7. ProbeTells(build[b])'
  BY <1>1, <1>2, <1>3 DEF ProbeTells, Tells, FirstFiles
<1>. QED  BY <1>1, <1>3, <1>4, <1>5, <1>6, <1>7 DEF FitsNow, Late

\* Every move and every step of the one inspection keeps FitInv.
LEMMA FitStep ==
    ASSUME GitAssumption, OnlyForward, ChunkInv, IdentityInv, NEW b, NEW cfg, OneBuilder(b, cfg),
           FitInv(b, cfg), [Next]_vars
    PROVE  FitInv(b, cfg)'
<1>0. b \in Builders /\ Framed /\ TreeInv /\ RepoInv /\ Shaped(build[b])
  BY DEF OneBuilder, ChunkInv, IdentityInv
<1>1. torn => torn'
  BY DEF Next, Work, BuildStep, TakeFingerprint, TakeSnapshot, ReadFiles, WriteManifest, WritePayload,
         WriteMetadata, DropPayload, Finish, Kill, vars
<1> SUFFICES ASSUME ~torn, ~torn'
             PROVE  FitsNow(b, cfg)'
  BY <1>1 DEF FitInv
<1>2. FitsNow(b, cfg)
  BY DEF FitInv
<1>3. CASE Work
  BY <1>0, <1>2, <1>3, FitWork
<1>4. CASE UNCHANGED vars
  <2>1. UNCHANGED <<tree, work, listing, payload, meta, answer, build>>
    BY <1>4 DEF vars, gitVars, repo, cacheVars
  <2>2. AllListed' /\ ManifestFits(cfg)'
    BY <1>2, <2>1, FilesKept DEF FitsNow
  <2>3. PayloadFits(b)' /\ MetadataFits(b)'
    BY <1>2, <2>1 DEF PayloadFits, MetadataFits, FitsNow, Describes, Shows, Names
  <2>. QED  BY <1>2, <2>1, <2>2, <2>3 DEF FitsNow, Works, ProbeTells, LateFits, Describes, Shows, Names, FirstFiles
<1>5. ASSUME NEW c \in Configs, TakeFingerprint(b, c)
      PROVE  FitsNow(b, cfg)'
  <2>1. c = cfg
    BY DEF OneBuilder
  <2>. QED  BY <1>0, <1>2, <1>5, <2>1, FitBegin
<1>6. CASE TakeSnapshot(b)
  <2>1. /\ Return(b, Restored(build[b])) /\ UNCHANGED <<gitVars, cacheVars>>
        /\ build[b].pc = "probe" /\ SnapshotHit(build[b])
    BY <1>6 DEF TakeSnapshot, Local, At
  <2>2. Probing(b, cfg)
    BY <1>0, <1>2, <2>1 DEF Probing
  <2>3. Restored(build[b]) = build[b].tree
    BY <2>1, <2>2, RestoredIsTree, ProbeFits DEF Works
  <2>. QED  BY <1>0, <1>2, <2>1, <2>3, FitReturn
<1>7. CASE ReadFiles(b)
  <2>1. build[b].pc = "probe"
    BY <1>0, <1>7, ReadFilesIs
  <2>2. Probing(b, cfg)
    BY <1>0, <1>2, <2>1 DEF Probing
  <2>3. /\ AllListed' /\ build'[b].pc = "manifest" /\ LateFits(build[b])' /\ Works(build[b], cfg)'
        /\ UNCHANGED <<repo, manifest, work, payload, meta, answer, torn>>
    BY <1>0, <1>7, <2>2, ReadingFits
  <2>4. tree' = tree /\ work' = work /\ payload' = payload /\ meta' = meta /\ answer' = answer
    BY <2>3 DEF repo
  <2>5. ManifestFits(cfg)'
    BY <1>2, <2>4 DEF FitsNow, ManifestFits, KeptFor, Past, Describes, Shows, Names, HasFiles, Files, Trees
  <2>6. PayloadFits(b)' /\ MetadataFits(b)'
    BY <1>2, <2>1, <2>3, <2>4 DEF PayloadFits, MetadataFits, FitsNow, Describes, Shows, Names
  <2>. QED  BY <1>2, <2>3, <2>4, <2>5, <2>6 DEF FitsNow
<1>8. CASE Finish(b)
  <2>1. Return(b, build[b].chunks) /\ UNCHANGED <<gitVars, cacheVars>> /\ build[b].pc = "done"
    BY <1>8 DEF Finish, Local, At
  <2>2. build[b].chunks = build[b].tree
    BY <1>2, <2>1 DEF FitsNow, LateFits, Works, Late
  <2>. QED  BY <1>0, <1>2, <2>1, <2>2, FitReturn
<1>9. CASE WriteManifest(b) \/ WritePayload(b) \/ WriteMetadata(b) \/ DropPayload(b)
  BY <1>0, <1>2, <1>9, FitWrite
<1>10. CASE Kill(b)
  BY <1>0, <1>2, <1>10, FitKill
<1>11. ASSUME BuildStep(b)
       PROVE  FitsNow(b, cfg)'
  BY <1>11, <1>5, <1>6, <1>7, <1>8, <1>9, <1>10 DEF BuildStep
<1>. QED  BY <1>3, <1>4, <1>11 DEF Next, OneBuilder

\* One inspection at a time, of one configuration, killed anywhere, cold or
\* warm, with or without the fast paths: while files are only written, created,
\* touched and staged, what the cache holds is of trees its fingerprints
\* describe.
THEOREM FitInvariant ==
    ASSUME OnlyForward, NEW one, NEW cfg, OneBuilder(one, cfg)
    PROVE  Spec => []FitInv(one, cfg)
<1>1. Init => FitInv(one, cfg)
  BY FitInit, GitAssumption
<1>2. ChunkInv /\ IdentityInv /\ FitInv(one, cfg) /\ [Next]_vars => FitInv(one, cfg)'
  BY FitStep, GitAssumption
<1>. QED  BY <1>1, <1>2, ChunkInvariant, IdentityInvariant, PTL DEF Spec

\* Then the chunks a build returns are those of the tree it took the
\* fingerprint of, unless one was killed between two writes of its files.
THEOREM ChunksAreOfTheTree ==
    ASSUME OnlyForward, NEW one, NEW cfg, OneBuilder(one, cfg)
    PROVE  Spec => []ChunksMatchTree
<1>1. FitInv(one, cfg) => ChunksMatchTree
  BY DEF FitInv, FitsNow, ChunksMatchTree, Answers, OneBuilder
<1>. QED  BY <1>1, FitInvariant, PTL
=============================================================================
