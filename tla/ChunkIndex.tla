------------------------------ MODULE ChunkIndex ------------------------------
(***************************************************************************)
(* The chunks an inspection works on: build_syntax_chunks of               *)
(* workers/rag-compression/inspection_index.py, for the fingerprint that   *)
(* GitFingerprint describes.                                               *)
(*                                                                         *)
(* A build takes a snapshot of the cache directory when it finds one for   *)
(* the fingerprint; otherwise it lists the files, takes the chunks of the  *)
(* files it holds for unchanged from the working manifest of the previous  *)
(* build, reads the others, and writes manifest, snapshot and the          *)
(* metadata of the snapshot, one file after the other.  A step ends where  *)
(* a file of the cache is replaced or the working tree is read.            *)
(*                                                                         *)
(* Abstractions.  The chunks of a file stand for its content; their ids,   *)
(* the per-file signatures and bundles, all computed from the content, for *)
(* the content as well, so that an entry of the manifest is a content and  *)
(* a file that was once chunked has its bundle.  No shared cache.  What a  *)
(* process remembers of the files of the cache is looked up by their stat  *)
(* signature and is left out.                                              *)
(***************************************************************************)
EXTENDS GitFingerprint

CONSTANTS
    Builders,    \* inspections that share the cache directory
    Configs,     \* build configurations: inputs and exclusions
    Faults,      \* {"kill"}: an inspection may be killed
    MaxBuilds    \* bound: builds

ASSUME ChunkAssumption ==
    /\ Faults \subseteq {"kill"} /\ MaxBuilds \in Nat
    /\ Warm => Cardinality(Builders) = 1

VARIABLES
    work,      \* the working manifest: fingerprint, configuration, entries
    payload,   \* the snapshot
    meta,      \* the metadata of the snapshot
    listing,   \* the discovery manifest, and the listings by fingerprint
    bundles,   \* the chunk bundles: the files once chunked, as they were
    build,     \* the builds under way
    answer,    \* what the last build of each builder returned
    seen,      \* history: the fingerprints and the trees they were taken of
    built,     \* history: the chunks that builds found, by fingerprint
    torn,      \* history: a build was killed between its first and last write
    builds

cacheVars == <<work, payload, meta, listing, bundles>>
vars == <<gitVars, cacheVars, build, answer, seen, built, torn, builds>>

NoFp == <<>>
NoChunks == [p \in Paths |-> Absent]
NoWork == [fp |-> NoFp, cfg |-> 0, files |-> NoChunks]
NoSnapshot == [kind |-> "none"]
NoRecord == [kind |-> "none"]
NoAnswer == [kind |-> "none"]
Idle == [pc |-> "idle"]

Init ==
    /\ GitInit
    /\ work = NoWork /\ payload = NoSnapshot /\ meta = NoSnapshot
    /\ listing = [last |-> NoRecord, exact |-> {}] /\ bundles = {}
    /\ build = [b \in Builders |-> Idle] /\ answer = [b \in Builders |-> NoAnswer]
    /\ seen = {} /\ built = {} /\ torn = FALSE /\ builds = 0

-----------------------------------------------------------------------------
(* What a build finds in the cache directory.                              *)

Files(ch) == {p \in Paths : ch[p] # Absent}
HasFiles(w) == Files(w.files) # {}

\* _snapshot_matches_metadata
Matches == payload.chunks = meta.ids /\ Cardinality(Files(payload.chunks)) = meta.count

\* load_cached_chunk_snapshot
Loadable(fp, cfg) ==
    /\ payload # NoSnapshot
    /\ \/ meta # NoSnapshot /\ meta.fp = fp /\ meta.cfg = cfg /\ Matches
       \/ payload.fp = fp /\ payload.cfg = cfg

\* The snapshot for the fingerprint; if the manifest is of this fingerprint,
\* also whatever snapshot there is, or the bundles the manifest names.  Here
\* and below l is the build: its fingerprint fp, its configuration cfg.
Own(l) == work.fp = l.fp /\ work.cfg = l.cfg
SnapshotHit(l) ==
    \/ (Own(l) \/ ~HasFiles(work)) /\ Loadable(l.fp, l.cfg)
    \/ Own(l) /\ HasFiles(work)
Restored(l) ==
    IF Loadable(l.fp, l.cfg) \/ payload # NoSnapshot THEN payload.chunks ELSE work.files

-----------------------------------------------------------------------------
(* The files of a build.                                                   *)

\* The paths the fingerprint calls dirty, or else those of the last state of
\* the process; and the files of a clean tree.
Touched(l) ==
    IF l.state.dirty = {} /\ l.proc.fast # NoFast THEN l.proc.fast.state.dirty ELSE l.state.dirty
CleanHint(l) == IF Touched(l) = {} THEN l.state.clean ELSE {}

\* The previous manifest is of another state, and can be brought up to date.
Partial(l) == HasFiles(work) /\ work.fp # l.fp
\* Mutant: a new file is not added.
MutantUpdate(files, touched) == files \ (touched \ Present)
Update(files, touched) == (files \ touched) \cup (touched \cap Present)

FromManifest(l) ==
    IF Partial(l) /\ Touched(l) # {}
    THEN Update(Files(work.files), Touched(l)) \cap (IF work.cfg = l.cfg THEN Paths ELSE Present)
    ELSE {}

\* discover_source_files: a listing of this fingerprint, or the last listing
\* when touched paths or a status of "M" alone vouch for it.
InventoryKept == \A c \in Status : c[1] = "M"
KnownListing(l) ==
    LET last == listing.last
        exact == {r \in listing.exact : r.fp = l.fp /\ r.cfg = l.cfg}
    IN IF exact # {} THEN CHOOSE r \in exact : TRUE
       ELSE IF last = NoRecord \/ last.cfg # l.cfg THEN NoRecord
       ELSE IF last.fp = l.fp /\ ~Partial(l) THEN last
       ELSE IF Touched(l) # {} THEN [last EXCEPT !.fp = l.fp, !.files = Update(@, Touched(l))]
       ELSE IF Partial(l) /\ InventoryKept THEN [last EXCEPT !.fp = l.fp]
       ELSE NoRecord

\* Otherwise the last listing and git status, if the tree of HEAD is the
\* same, or git ls-files.
Record(files, l, oid) == [kind |-> "file", files |-> files, fp |-> l.fp, cfg |-> l.cfg, oid |-> oid]
HeadTree(l) == IF l.proc.oid # 0 THEN l.proc.oid ELSE head
ByHead(l) ==
    LET last == listing.last IN
    Record(IF last = NoRecord THEN Present
           ELSE IF last.oid # HeadTree(l) THEN Present
           ELSE Update(last.files, StatusPaths) \cap (IF last.cfg = l.cfg THEN Paths ELSE Present),
           l, HeadTree(l))

FilesOf(l) ==
    IF CleanHint(l) # {} THEN CleanHint(l)
    ELSE IF FromManifest(l) # {} THEN FromManifest(l)
    ELSE IF KnownListing(l) # NoRecord THEN KnownListing(l).files ELSE ByHead(l).files

\* The record of a clean hint names no tree.
ListingAfter(l) ==
    LET r == IF CleanHint(l) # {} THEN Record(CleanHint(l), l, 0)
             ELSE IF KnownListing(l) # NoRecord THEN KnownListing(l) ELSE ByHead(l)
    IN IF CleanHint(l) = {} /\ FromManifest(l) # {} THEN listing
       ELSE [last |-> r, exact |-> {q \in listing.exact : q.fp # r.fp \/ q.cfg # r.cfg} \cup {r}]
AsksHead(l) == CleanHint(l) = {} /\ FromManifest(l) = {} /\ KnownListing(l) = NoRecord

-----------------------------------------------------------------------------
(* The chunks of each file.                                                *)

\* _git_dirty_manifest_entry_keys; a build of another configuration asks for
\* none.
\* Mutant: what is staged is forgotten.
MutantDirty(l) ==
    IF ~Partial(l) \/ work.cfg # l.cfg THEN {}
    ELSE PathsOf(UnstagedEntries) \cup PathsOf(UntrackedEntries)
Dirty(l) ==
    IF ~Partial(l) \/ work.cfg # l.cfg THEN {}
    ELSE IF Touched(l) # {} THEN Touched(l) ELSE StatusPaths

WarmSnapshot(l) == Partial(l) /\ work.cfg = l.cfg /\ Loadable(work.fp, l.cfg)

\* A file with an entry that is not dirty is not looked at.
Reused(p, l) ==
    /\ p \in Files(work.files) \ Dirty(l)
    /\ WarmSnapshot(l) => payload.chunks[p] # Absent

\* The chunks of such a file, those of a dirty file that is as it was chunked,
\* or those of what the file contains.
ChunkOf(p, l) ==
    IF Reused(p, l) THEN IF WarmSnapshot(l) THEN payload.chunks[p] ELSE work.files[p]
    ELSE IF WarmSnapshot(l) /\ work.files[p] = tree[p] /\ payload.chunks[p] # Absent
    THEN payload.chunks[p]
    ELSE tree[p]
\* Mutant: the entry is taken from the index.
MutantEntryOf(p, l) == IF Reused(p, l) THEN work.files[p] ELSE index[p]
EntryOf(p, l) == IF Reused(p, l) THEN work.files[p] ELSE tree[p]

Over(files, f) == [p \in Paths |-> IF p \in files THEN f[p] ELSE Absent]

\* What of the snapshot is written, decided before the manifest is.
Plan(l, entries, rebuilt) ==
    LET sameChunks == work.cfg = l.cfg /\ work.files = entries
    IN IF sameChunks /\ work.fp = l.fp /\ ~rebuilt THEN "nothing"
       ELSE IF HasFiles(work) /\ (IF rebuilt THEN WarmSnapshot(l) ELSE ~sameChunks) THEN "meta_only"
       ELSE IF ~rebuilt /\ sameChunks /\ work.fp \notin {NoFp, l.fp} THEN "reuse"
       ELSE "full"

-----------------------------------------------------------------------------
(* A build, step by step.                                                  *)

At(b, pc) == build[b].pc = pc
Goto(b, pc) == build' = [build EXCEPT ![b].pc = pc]
Local(b) == build[b]

Return(b, chunks) ==
    /\ build' = [build EXCEPT ![b] = Idle]
    /\ answer' = [answer EXCEPT ![b] =
           [kind |-> "chunks", chunks |-> chunks, fp |-> Local(b).fp, cfg |-> Local(b).cfg,
            tree |-> Local(b).tree, dirty |-> Local(b).dirty, at |-> Local(b).at]]

\* repository_fingerprint; a process of its own starts with empty caches.
TakeFingerprint(b, cfg) ==
    /\ At(b, "idle") /\ builds < MaxBuilds
    /\ builds' = builds + 1
    /\ LET r == Fingerprint(process) IN
       /\ manifest' = r.manifest
       /\ process' = IF Warm THEN r.process ELSE NoProcess
       /\ seen' = seen \cup {<<Digest(r.state), tree>>}
       /\ build' = [build EXCEPT ![b] =
              [pc |-> "probe", state |-> r.state, proc |-> r.process, fp |-> Digest(r.state), cfg |-> cfg,
               tree |-> tree, at |-> moves, dirty |-> StatusPaths \cap Present]]
    /\ UNCHANGED <<repo, cacheVars, answer, built, torn>>

TakeSnapshot(b) ==
    /\ At(b, "probe") /\ SnapshotHit(Local(b))
    /\ Return(b, Restored(Local(b)))
    /\ UNCHANGED <<gitVars, cacheVars, seen, built, torn, builds>>

ReadFiles(b) ==
    LET l == Local(b)
        files == FilesOf(l)
        chunks == Over(files, [p \in files |-> ChunkOf(p, l)])
        entries == Over(files, [p \in files |-> EntryOf(p, l)])
        read == {p \in files : ~Reused(p, l) /\ tree[p] # Absent}
        rebuilt == \E p \in read : <<p, tree[p]>> \notin bundles \/ ~HasFiles(work)
    IN /\ At(b, "probe") /\ ~SnapshotHit(l)
       /\ listing' = ListingAfter(l)
       /\ process' = IF Warm /\ AsksHead(l) THEN [process EXCEPT !.oid = HeadTree(l)] ELSE process
       /\ bundles' = bundles \cup {<<p, tree[p]>> : p \in read}
       /\ built' = built \cup {<<l.fp, l.cfg, chunks>>}
       /\ build' = [build EXCEPT ![b] =
              [pc |-> "manifest", fp |-> l.fp, cfg |-> l.cfg, tree |-> l.tree, at |-> l.at, dirty |-> l.dirty,
               chunks |-> chunks, entries |-> entries, plan |-> Plan(l, entries, rebuilt)]]
       /\ UNCHANGED <<repo, manifest, work, payload, meta, answer, seen, torn, builds>>

\* _write_preferred_file_chunk_working_manifest
WriteManifest(b) ==
    /\ At(b, "manifest")
    /\ work' = [fp |-> Local(b).fp, cfg |-> Local(b).cfg, files |-> Local(b).entries]
    /\ Goto(b, IF Local(b).plan = "full" THEN "payload"
               ELSE IF Local(b).plan = "nothing" THEN "done" ELSE "metadata")
    /\ UNCHANGED <<gitVars, payload, meta, listing, bundles, answer, seen, built, torn, builds>>

WritePayload(b) ==
    /\ At(b, "payload")
    /\ payload' = [kind |-> "file", fp |-> Local(b).fp, cfg |-> Local(b).cfg, chunks |-> Local(b).chunks]
    /\ Goto(b, "metadata")
    /\ UNCHANGED <<gitVars, work, meta, listing, bundles, answer, seen, built, torn, builds>>

\* Mutant: the outdated snapshot is kept.
MutantWriteMetadata(b) ==
    /\ At(b, "metadata")
    /\ meta' = [kind |-> "file", fp |-> Local(b).fp, cfg |-> Local(b).cfg,
                count |-> Cardinality(Files(Local(b).chunks)),
                ids |-> IF Local(b).plan = "full" \/ meta = NoSnapshot THEN Local(b).chunks ELSE meta.ids]
    /\ Goto(b, "done")
    /\ UNCHANGED <<gitVars, work, payload, listing, bundles, answer, seen, built, torn, builds>>

\* Metadata written without the snapshot repeats the lists of the metadata
\* it replaces, under the new fingerprint.
WriteMetadata(b) ==
    /\ At(b, "metadata")
    /\ meta' = [kind |-> "file", fp |-> Local(b).fp, cfg |-> Local(b).cfg,
                count |-> Cardinality(Files(Local(b).chunks)),
                ids |-> IF Local(b).plan = "full" \/ meta = NoSnapshot THEN Local(b).chunks ELSE meta.ids]
    /\ Goto(b, IF Local(b).plan = "meta_only" THEN "drop" ELSE "done")
    /\ UNCHANGED <<gitVars, work, payload, listing, bundles, answer, seen, built, torn, builds>>

\* _drop_file_chunk_snapshot_payload
DropPayload(b) ==
    /\ At(b, "drop")
    /\ payload' = NoSnapshot
    /\ Goto(b, "done")
    /\ UNCHANGED <<gitVars, work, meta, listing, bundles, answer, seen, built, torn, builds>>

Finish(b) ==
    /\ At(b, "done")
    /\ Return(b, Local(b).chunks)
    /\ UNCHANGED <<gitVars, cacheVars, seen, built, torn, builds>>

Kill(b) ==
    /\ "kill" \in Faults /\ ~At(b, "idle")
    /\ build' = [build EXCEPT ![b] = Idle]
    /\ process' = NoProcess
    /\ torn' = (torn \/ build[b].pc \in {"payload", "metadata", "drop"})
    /\ UNCHANGED <<repo, manifest, cacheVars, answer, seen, built, builds>>

BuildStep(b) ==
    \/ \E cfg \in Configs : TakeFingerprint(b, cfg)
    \/ TakeSnapshot(b) \/ ReadFiles(b) \/ WriteManifest(b) \/ WritePayload(b)
    \/ WriteMetadata(b) \/ DropPayload(b) \/ Finish(b) \/ Kill(b)

\* The user works between inspections.
Work ==
    /\ \A b \in Builders : At(b, "idle")
    /\ UserMove
    /\ UNCHANGED <<cacheVars, build, answer, seen, built, torn, builds>>

Next == Work \/ \E b \in Builders : BuildStep(b)
Spec == Init /\ [][Next]_vars
-----------------------------------------------------------------------------
(* Properties.                                                             *)

Answers == {answer[b] : b \in {c \in Builders : answer[c] # NoAnswer}}

\* Everything has the shape the code gives it, and what the working manifest
\* names can be rebuilt from the bundles.
ChunkTypeOK ==
    /\ tree \in [Paths -> Contents \cup {Absent}] /\ index \in [Paths -> Contents \cup {Absent}]
    /\ head \in DOMAIN log /\ stat \in [Paths -> 0 .. moves]
    /\ \A b \in Builders :
          build[b].pc \in {"idle", "probe", "manifest", "payload", "metadata", "drop", "done"}
    /\ \A p \in Files(work.files) : <<p, work.files[p]>> \in bundles

\* Two working trees never have the same fingerprint.
IdentityCoversTree == \A s, t \in seen : s[1] = t[1] => s[2] = t[2]

\* The chunks are those of the tree that was fingerprinted.
ChunksMatchTree == torn \/ \A a \in Answers : a.chunks = a.tree

\* Whatever the history, a file git calls dirty is served as it is, unless an
\* inspection was killed: the fingerprint it took stays remembered, and a later
\* clean tree is given it.
DirtyIsFresh == ~torn => \A a \in Answers : \A p \in a.dirty : a.chunks[p] = a.tree[p]

\* A snapshot is only restored for the fingerprint its chunks were built for.
SnapshotIsOwn == \A a \in Answers : <<a.fp, a.cfg, a.chunks>> \in built

\* A repeated inspection of an untouched tree returns the same chunks.
RepeatIsStable ==
    [][\A b \in Builders :
          /\ answer[b] # NoAnswer /\ answer'[b] # answer[b]
          /\ answer'[b].at = answer[b].at /\ answer'[b].cfg = answer[b].cfg
          => torn \/ answer'[b].chunks = answer[b].chunks]_vars
=============================================================================
