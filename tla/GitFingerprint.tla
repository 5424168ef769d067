---------------------------- MODULE GitFingerprint ----------------------------
(***************************************************************************)
(* The fingerprint of a Git working tree: repository_fingerprint and       *)
(* _git_fingerprint of workers/rag-compression/inspection_index.py, which  *)
(* answer from git status, or, to save the call, from the file times       *)
(* (stat signatures) remembered in the fingerprint manifest of the cache   *)
(* directory and in the memory of the process.                             *)
(*                                                                         *)
(* The repository is the environment: a user edits, stages, commits.  A    *)
(* move of the user has a number, and the number of the last move that     *)
(* touched a file, the directory or .git/index is its stat signature.      *)
(* A commit stands for its object id.  One input, the root of the          *)
(* repository, one directory, no links, no ignored files, no shared cache. *)
(***************************************************************************)
EXTENDS Naturals, Sequences, FiniteSets

CONSTANTS
    Paths,       \* the source files there may be
    Contents,    \* what a file may contain
    FirstTree,   \* the first commit, which is checked out
    Small,       \* at most SMALL_GIT_FINGERPRINT_FASTPATH_FILE_THRESHOLD files
    Warm,        \* one process serves all inspections (the warm daemon)
    Moves,       \* the kinds of moves the user makes
    MaxMoves     \* bound: moves

Absent == 0

ASSUME GitAssumption ==
    /\ Contents \subseteq Nat \ {Absent}
    /\ FirstTree \in [Paths -> Contents \cup {Absent}]
    /\ Small \in BOOLEAN /\ Warm \in BOOLEAN /\ MaxMoves \in Nat
    /\ Moves \subseteq {"edit", "create", "delete", "restore", "touch", "stage",
                        "commit", "checkout"}

VARIABLES
    tree,      \* the working tree: the content of each file
    stat,      \* the stat signature of each file, 0 for none
    dstat,     \* of the directory
    index,     \* the content of each file in the index
    istat,     \* of .git/index
    log,       \* the trees of the commits
    head,      \* the commit that is checked out
    moves,     \* moves so far
    manifest,  \* the fingerprint manifest in the cache directory
    process    \* _DEFAULT_GIT_PROBE_CACHE: head, its tree, the last state

repo == <<tree, stat, dstat, index, istat, log, head, moves>>
gitVars == <<repo, manifest, process>>

NoManifest == [kind |-> "none"]
NoAux == [kind |-> "none"]
NoFast == [kind |-> "none"]
NoProcess == [head |-> 0, oid |-> 0, fast |-> NoFast]

GitInit ==
    /\ tree = FirstTree /\ index = FirstTree /\ log = <<FirstTree>> /\ head = 1
    /\ stat = [p \in Paths |-> IF FirstTree[p] = Absent THEN 0 ELSE 1]
    /\ dstat = 1 /\ istat = 1 /\ moves = 1
    /\ manifest = NoManifest /\ process = NoProcess

-----------------------------------------------------------------------------
(* The user.                                                               *)

Now == moves + 1
Move(kind) == kind \in Moves /\ moves <= MaxMoves /\ moves' = Now

\* A file is written in place, created, removed, or written as it was.
Write(p, c) ==
    /\ c # tree[p]
    /\ Move(IF c = log[head][p] THEN "restore"
            ELSE IF c = Absent THEN "delete"
            ELSE IF tree[p] = Absent THEN "create" ELSE "edit")
    /\ tree' = [tree EXCEPT ![p] = c]
    /\ stat' = [stat EXCEPT ![p] = IF c = Absent THEN 0 ELSE Now]
    /\ dstat' = IF Absent \in {c, tree[p]} THEN Now ELSE dstat
    /\ UNCHANGED <<index, istat, log, head>>

\* A file is saved unchanged and git status refreshes the index.
Touch(p) ==
    /\ Move("touch")
    /\ tree[p] # Absent
    /\ stat' = [stat EXCEPT ![p] = Now] /\ istat' = Now
    /\ UNCHANGED <<tree, dstat, index, log, head>>

Stage(p) ==
    /\ Move("stage")
    /\ index[p] # tree[p]
    /\ index' = [index EXCEPT ![p] = tree[p]] /\ istat' = Now
    /\ UNCHANGED <<tree, stat, dstat, log, head>>

Commit ==
    /\ Move("commit")
    /\ index # log[head]
    /\ log' = Append(log, index) /\ head' = Len(log) + 1 /\ istat' = Now
    /\ UNCHANGED <<tree, stat, dstat, index>>

Checkout(k) ==
    /\ Move("checkout")
    /\ k # head /\ tree = log[head] /\ index = log[head]
    /\ tree' = log[k] /\ index' = log[k] /\ head' = k
    /\ stat' = [p \in Paths |-> IF log[k][p] = Absent THEN 0
                                ELSE IF log[k][p] = tree[p] THEN stat[p] ELSE Now]
    /\ dstat' = Now /\ istat' = Now
    /\ UNCHANGED log

UserMove ==
    /\ \/ \E p \in Paths, c \in Contents \cup {Absent} : Write(p, c)
       \/ \E p \in Paths : Touch(p) \/ Stage(p)
       \/ Commit
       \/ \E k \in DOMAIN log : Checkout(k)
    /\ UNCHANGED <<manifest, process>>

-----------------------------------------------------------------------------
(* git status and git diff-index: what is staged, unstaged, untracked.     *)

Present == {p \in Paths : tree[p] # Absent}

StagedEntry(p) ==
    [path |-> p, blob |-> index[p],
     code |-> IF log[head][p] = Absent THEN "A" ELSE IF index[p] = Absent THEN "D" ELSE "M"]
StagedEntries == {StagedEntry(p) : p \in {q \in Paths : index[q] # log[head][q]}}
Entry(code, p) == [code |-> code, path |-> p, content |-> tree[p]]
UnstagedEntries ==
    {Entry(IF tree[p] = Absent THEN "D" ELSE "M", p) :
        p \in {q \in Paths : index[q] # Absent /\ tree[q] # index[q]}}
UntrackedEntries == {Entry("?", p) : p \in {q \in Present : index[q] = Absent}}

PathsOf(entries) == {e.path : e \in entries}
Codes(entries) == {<<e.code, e.path>> : e \in entries}
Status == Codes(StagedEntries) \cup Codes(UnstagedEntries) \cup Codes(UntrackedEntries)
StatusPaths == {s[2] : s \in Status}

-----------------------------------------------------------------------------
(* The state that is fingerprinted.  The fast paths name the scope in it,  *)
(* git status at the root does not.  dirty and clean are hints beside it.  *)

State(h, staged, unstaged, untracked, scoped, dirty, clean) ==
    [head |-> h, staged |-> staged, unstaged |-> unstaged, untracked |-> untracked,
     scoped |-> scoped, dirty |-> dirty, clean |-> clean]
\* Mutant: an untracked file is known by its name alone.
MutantDigest(s) == <<s.head, s.staged, s.unstaged, Codes(s.untracked), s.scoped>>
Digest(s) == <<s.head, s.staged, s.unstaged, s.untracked, s.scoped>>
IsClean(s) == s.staged = {} /\ s.unstaged = {} /\ s.untracked = {}

\* What the manifest keeps of a clean tree; the files only when they are few.
CleanAux ==
    [kind |-> "clean", files |-> IF Small THEN stat ELSE [p \in Paths |-> 0],
     content |-> tree, dirs |-> dstat, istat |-> istat, head |-> head, staged |-> {}]
Base(aux) == {p \in Paths : aux.files[p] # 0}
HasBase(aux) == aux # NoAux /\ Base(aux) # {}

\* _git_clean_fastpath_match_state
MatchesClean(aux) ==
    /\ HasBase(aux)
    /\ aux.dirs = dstat
    /\ \A p \in Base(aux) : stat[p] = aux.files[p]

\* _git_unstaged_only_fastpath_state
Changed(aux, p) == stat[p] # aux.files[p] /\ tree[p] # aux.content[p]
UnstagedApplies(aux) == HasBase(aux) /\ Small /\ aux.istat = istat
UnstagedFast(h, aux) ==
    LET changed == {p \in Base(aux) : Changed(aux, p)}
        added == Present \ Base(aux)
    IN State(h, {}, {Entry(IF tree[p] = Absent THEN "D" ELSE "M", p) : p \in changed},
             {Entry("?", p) : p \in added}, TRUE, changed \cup added, {})

\* The two fast paths with staged entries; only the cached one looks for
\* files that are gone.
StagedFast(h, aux, staged, looksForGone) ==
    LET known == Present \cup Base(aux)
        inIndex == PathsOf(staged)
        blob(p) == (CHOOSE e \in staged : e.path = p).blob
        differs == {p \in known \cap inIndex :
                      tree[p] \notin {Absent, IF blob(p) = Absent THEN aux.content[p] ELSE blob(p)}}
        gone == IF looksForGone THEN Base(aux) \ (Present \cup inIndex) ELSE {}
        added == (Present \ Base(aux)) \ inIndex
        changed == {p \in (Present \cap Base(aux)) \ inIndex : Changed(aux, p)}
    IN State(h, staged,
             {Entry("M", p) : p \in differs \cup changed} \cup {Entry("D", p) : p \in gone},
             {Entry("?", p) : p \in added}, TRUE,
             (known \cap inIndex) \cup gone \cup added \cup changed, {})
StagedSmall(h, aux) == StagedFast(h, aux, StagedEntries, FALSE)
StagedCached(h, aux) == StagedFast(h, aux, aux.staged, TRUE)
StagedSmallApplies(aux) == HasBase(aux) /\ Small /\ aux.istat # istat
StagedCachedApplies(fast, h) ==
    /\ fast # NoFast /\ fast.head = h /\ fast.state.staged # {}
    /\ HasBase(fast.aux) /\ Small /\ fast.aux.istat = istat

\* The state that git status shows.
SlowState(h) ==
    LET s == State(h, StagedEntries, UnstagedEntries, UntrackedEntries, FALSE, StatusPaths, {})
    IN IF IsClean(s) /\ Small THEN [s EXCEPT !.clean = Present] ELSE s
SlowAux(s) == IF IsClean(s) THEN CleanAux ELSE NoAux

-----------------------------------------------------------------------------
(* _git_fingerprint: the state, and the manifest and process cache after.  *)

Result(s, m, proc) == [state |-> s, manifest |-> m, process |-> proc]

\* The head named by the manifest for the HEAD file as it is, or the identity
\* the process has seen, or HEAD.
KnownHead == manifest # NoManifest /\ manifest.aux # NoAux /\ manifest.aux.head = head
HeadId(proc) ==
    IF KnownHead THEN manifest.head ELSE IF proc.head # 0 THEN proc.head ELSE head

Slow(h, proc) ==
    IF Status = {} /\ manifest # NoManifest /\ manifest.head = h
    THEN Result(manifest.state, manifest, proc)
    ELSE LET s == SlowState(h) IN
         Result(s, [kind |-> "file", head |-> h, status |-> Status, state |-> s, aux |-> SlowAux(s)],
                [proc EXCEPT !.fast = [kind |-> "fast", head |-> h, state |-> s, aux |-> NoAux]])

Fast(h, proc, s, aux) ==
    Result(s, manifest, [proc EXCEPT !.fast = [kind |-> "fast", head |-> h, state |-> s, aux |-> aux]])

Fingerprint(before) ==
    LET h == HeadId(before)
        proc == IF KnownHead THEN before ELSE [before EXCEPT !.head = h]
        aux == manifest.aux
        fast == proc.fast
        cachedClean == /\ manifest # NoManifest /\ manifest.head = h
                       /\ manifest.status = {} /\ IsClean(manifest.state)
        fromProcess == Fast(h, proc, StagedCached(h, fast.aux), fast.aux)
    IN IF ~cachedClean
       THEN IF StagedCachedApplies(fast, h) THEN fromProcess ELSE Slow(h, proc)
       ELSE IF MatchesClean(aux) THEN Result(manifest.state, manifest, proc)
       ELSE IF UnstagedApplies(aux) THEN Fast(h, proc, UnstagedFast(h, aux), aux)
       ELSE IF StagedCachedApplies(fast, h) THEN fromProcess
       ELSE IF StagedSmallApplies(aux)
       THEN Fast(h, proc, StagedSmall(h, aux),
                 [aux EXCEPT !.istat = istat, !.staged = StagedEntries])
       ELSE Slow(h, proc)
=============================================================================
