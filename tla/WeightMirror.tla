---------------------------- MODULE WeightMirror ----------------------------
(***************************************************************************)
(* "lab mirror": the laptop's local copy of the desktop's Hugging Face     *)
(* cache (src/bin/lab, lines 1438-1792, docs/weight-mirror-plan.md).       *)
(*                                                                         *)
(* A path is a model value.  Blobs are the content-named files, Links the  *)
(* entries of snapshots/<revision>/ (each a symbolic link to one blob),    *)
(* a member of Repos stands for that repo's refs/main, and Adapters are    *)
(* the files under adapters/.  Three parties act on them: the desktop,     *)
(* which owns the source; one "lab mirror sync", which flock makes unique  *)
(* (a second one leaves at line 1623 having changed nothing); and one      *)
(* "lab mirror prune --apply", which takes no lock.                        *)
(***************************************************************************)
EXTENDS Naturals

CONSTANTS
    Repos, Revs, Blobs, Links, Adapters,  \* the paths, by kind, and the revisions
    AdapterGroup,   \* adapters/, synced after the repos
    Group,          \* path or revision |-> its repo, or AdapterGroup
    RevOf, Target,  \* link |-> its revision and the blob it points to
    NoRev, NoGroup, \* "none"
    RotKinds, Rottable, \* how, and which, files can change on the desktop
    Lockable,       \* blobs that can become unreadable on the desktop
    Asked,          \* the sets of groups a sync may be asked for
    HandPaths,      \* paths a person may copy into the mirror
    Moving,         \* may the desktop's cache change while a command runs?
    NetFails,       \* may ssh and rsync fail part-way?
    Kills,          \* may a command be killed, or the power go?
    Prunes          \* is "prune --apply" used?

Groups == Repos \cup {AdapterGroup}
Paths  == Blobs \cup Links \cup Repos \cup Adapters

Files  == Blobs \cup Adapters   \* the paths whose content matters

\* What a blob's file holds: the bytes its name promises, as many other
\* bytes ("rotten"), or a different number of bytes ("short").  An adapter
\* has no hash for a name: for it these are three versions of the file.
Contents == {"good", "rotten", "short"}

ASSUME PathsAssumption ==
    /\ Blobs \cap (Links \cup Repos \cup Adapters) = {}
    /\ Links \cap (Repos \cup Adapters) = {}
    /\ Repos \cap Adapters = {}
    /\ AdapterGroup \notin Repos /\ NoGroup \notin Groups /\ NoRev \notin Revs

ASSUME ShapeAssumption ==
    /\ Group \in [Paths \cup Revs -> Groups]
    /\ \A p \in Paths : (p \in Adapters) <=> (Group[p] = AdapterGroup)
    /\ \A r \in Repos : Group[r] = r
    /\ \A v \in Revs : Group[v] \in Repos
    /\ RevOf \in [Links -> Revs] /\ Target \in [Links -> Blobs]
    /\ \A l \in Links : Group[Target[l]] = Group[l] /\ Group[RevOf[l]] = Group[l]

ASSUME FaultsAssumption ==
    /\ RotKinds \subseteq {"rotten", "short"}
    /\ Rottable \subseteq Files /\ Lockable \subseteq Blobs
    /\ HandPaths \subseteq Adapters /\ Asked \subseteq SUBSET Groups
    /\ {Moving, NetFails, Kills, Prunes} \subseteq BOOLEAN

VARIABLES
    \* the desktop's /srv/model-cache
    src,         \* the paths it holds
    srcData,     \* file |-> its content
    srcRef,      \* repo |-> the revision refs/main names
    unreadable,  \* blobs rsync may not read
    \* the mirror
    have,        \* the paths a loader can open
    data,        \* file |-> its content, meaningful for files in have
    refAt,       \* repo |-> the revision refs/main names
    manifest, manifestNew, manifestTmp,  \* the files of those names, as sets
    \* the sync
    pc,
    skip,        \* $MIRROR_STATE/unreadable: what this run excludes
    todo, cur,   \* the groups still to do and the one in hand
    ran,         \* the groups this run was asked for
    pending,     \* what the running rsync has still to transfer
    new,         \* $new: the blobs this repo's rsync transferred
    rc,          \* has the running rsync failed?
    failed,      \* failed[]
    last,        \* the result in $MIRROR_STATE/last-sync
    \* the prune
    ppc, remote, ours, doomed,
    \* history, read by no command
    hashed,      \* blobs checked against their name since they arrived
    written,     \* paths a sync ever wrote
    pruned       \* blobs a prune removed and no sync brought back and checked

source  == <<src, srcData, srcRef, unreadable>>
mirror  == <<have, data, refAt>>
records == <<manifest, manifestNew, manifestTmp>>
run     == <<skip, todo, ran>>
copying == <<cur, pending, new, rc>>
outcome == <<failed, last>>
prune   == <<ppc, remote, ours, doomed>>
history == <<hashed, written, pruned>>
vars == <<source, mirror, records, pc, run, copying, outcome, prune, history>>

LinksOf(v) == {l \in Links : RevOf[l] = v}
Of(g, S)   == {p \in S : Group[p] = g}

\* manifest.tmp before anyone writes it; no set of paths.
NoFile == {NoGroup}

Init ==
    /\ src = Adapters \ HandPaths /\ srcData = [f \in Files |-> "good"]
    /\ srcRef = [r \in Repos |-> NoRev] /\ unreadable = {}
    /\ have = {} /\ data = [f \in Files |-> "good"] /\ refAt = [r \in Repos |-> NoRev]
    /\ manifest = {} /\ manifestNew = {} /\ manifestTmp = NoFile
    /\ pc = "idle" /\ skip = {} /\ todo = {} /\ cur = NoGroup /\ ran = {}
    /\ pending = {} /\ new = {} /\ rc = FALSE /\ failed = {} /\ last = "never"
    /\ ppc = "idle" /\ remote = {} /\ ours = {} /\ doomed = {}
    /\ hashed = {} /\ written = {} /\ pruned = {}

-----------------------------------------------------------------------------
(* The desktop.  Its cache is written by the Hugging Face tools, outside    *)
(* this repository; each operation below is what a sync can find changed.   *)

DesktopMayMove == Moving \/ (pc = "idle" /\ ppc = "idle")

DesktopOnly ==
    /\ DesktopMayMove
    /\ UNCHANGED <<mirror, records, pc, run, copying, outcome, prune, history>>

\* A download of revision v completes and refs/main moves to it.
Publish(v) ==
    /\ srcRef[Group[v]] # v
    /\ src' = src \cup LinksOf(v) \cup {Target[l] : l \in LinksOf(v)} \cup {Group[v]}
    /\ srcRef' = [srcRef EXCEPT ![Group[v]] = v]
    /\ DesktopOnly /\ UNCHANGED <<srcData, unreadable>>

\* A superseded revision is deleted, with the blobs no other one uses.
DeleteRevision(v) ==
    /\ srcRef[Group[v]] # v /\ LinksOf(v) \cap src # {}
    /\ LET kept == (src \cap Links) \ LinksOf(v)
       IN  src' = (src \ (Links \cup Blobs)) \cup kept \cup {Target[l] : l \in kept}
    /\ DesktopOnly /\ UNCHANGED <<srcData, srcRef, unreadable>>

\* A file goes bad on the desktop's disk or is repaired; an adapter is retrained.
ChangeContent(f) ==
    /\ f \in Rottable
    /\ \E c \in RotKinds \cup {"good"} : srcData' = [srcData EXCEPT ![f] = c]
    /\ DesktopOnly /\ UNCHANGED <<src, srcRef, unreadable>>

ChangeMode(b) ==
    /\ b \in Lockable
    /\ unreadable' = (unreadable \ {b}) \cup ({b} \ unreadable)
    /\ DesktopOnly /\ UNCHANGED <<src, srcData, srcRef>>

\* Training writes an adapter, or someone deletes one.
ChangeAdapters(a) ==
    /\ src' = (src \ {a}) \cup ({a} \ src)
    /\ DesktopOnly /\ UNCHANGED <<srcData, srcRef, unreadable>>

Desktop ==
    \/ \E v \in Revs : Publish(v) \/ DeleteRevision(v)
    \/ \E f \in Files : ChangeContent(f) \/ ChangeMode(f)
    \/ \E a \in Adapters : ChangeAdapters(a)

\* A person copies a file of their own into the mirror.
HandPut(p) ==
    /\ p \in HandPaths \ have
    /\ have' = have \cup {p} /\ data' = [data EXCEPT ![p] = "rotten"]
    /\ UNCHANGED <<source, refAt, records, pc, run, copying, outcome, prune, history>>

-----------------------------------------------------------------------------
(* cmd_mirror_sync.                                                         *)

\* Every way a run ends without publishing its manifest: nothing of the
\* script's own variables survives it, and flock lets go.
Gone ==
    /\ pc' = "idle" /\ skip' = {} /\ todo' = {} /\ cur' = NoGroup /\ ran' = {}
    /\ pending' = {} /\ new' = {} /\ rc' = FALSE /\ failed' = {}

SyncLock ==
    /\ pc = "idle"
    /\ pc' = "locked"
    /\ UNCHANGED <<source, mirror, records, run, copying, outcome, prune, history>>

\* No ssh, too little disk, or no listing of the desktop's hub/: exit 1.
SyncRefuse ==
    /\ pc = "locked"
    /\ Gone
    /\ UNCHANGED <<source, mirror, records, last, prune, history>>

\* The unreadable files, the groups to copy, and a manifest.new emptied.
SyncPlan(gs) ==
    /\ pc = "locked" /\ \A g \in gs \ {AdapterGroup} : Of(g, src) # {}
    /\ pc' = "next" /\ skip' = unreadable \cap src
    /\ todo' = gs /\ ran' = gs /\ manifestNew' = {}
    /\ UNCHANGED <<source, mirror, manifest, manifestTmp, copying, outcome, prune, history>>

\* "rsync -a --size-only" copies a blob whose name is new or whose size differs.
SameSize(c, d) == (c = "short") <=> (d = "short")
BlobsBehind(r) ==
    {b \in Of(r, src \cap Blobs) : b \notin have \/ ~SameSize(srcData[b], data[b])}

\* Plain "rsync -a", on what is not a blob.
OthersBehind(g) ==
    {p \in Of(g, src \ Blobs) :
        \/ p \notin have
        \/ p \in Repos /\ srcRef[p] # refAt[p]
        \/ p \in Adapters /\ srcData[p] # data[p]}

\* (Mutant: the pointers are copied without the blobs.)
StartPointersFirst(r) ==
    /\ pc = "next" /\ r \in todo \cap Repos
    /\ pc' = "others" /\ cur' = r /\ todo' = todo \ {r}
    /\ pending' = OthersBehind(r) /\ new' = {} /\ rc' = FALSE
    /\ UNCHANGED <<source, mirror, records, skip, ran, outcome, prune, history>>

StartBlobs(r) ==
    /\ pc = "next" /\ r \in todo \cap Repos
    /\ pc' = "blobs" /\ cur' = r /\ todo' = todo \ {r}
    /\ pending' = BlobsBehind(r) \ skip /\ new' = {} /\ rc' = FALSE
    /\ UNCHANGED <<source, mirror, records, skip, ran, outcome, prune, history>>

StartAdapters ==
    /\ pc = "next" /\ AdapterGroup \in todo
    /\ pc' = "others" /\ cur' = AdapterGroup /\ todo' = todo \ {AdapterGroup}
    /\ pending' = OthersBehind(AdapterGroup) /\ new' = {} /\ rc' = FALSE
    /\ UNCHANGED <<source, mirror, records, skip, ran, outcome, prune, history>>

\* A blob arrives under its final name, whole.
CopyBlob(b) ==
    /\ pc = "blobs" /\ b \in pending \cap src /\ b \notin unreadable
    /\ have' = have \cup {b} /\ data' = [data EXCEPT ![b] = srcData[b]]
    /\ pending' = pending \ {b} /\ new' = new \cup {b}
    /\ hashed' = hashed \ {b} /\ written' = written \cup {b}
    /\ UNCHANGED <<source, refAt, records, pc, run, cur, rc, outcome, prune, pruned>>

\* refs/ sorts before snapshots/, so the repo's ref is the first of its
\* pointers to move; each path goes to manifest.new as it is written.
CopyOther(p) ==
    /\ pc = "others" /\ p \in pending \cap src
    /\ p \in Links => pending \cap Repos = {}
    /\ have' = have \cup {p}
    /\ refAt' = IF p \in Repos THEN [refAt EXCEPT ![p] = srcRef[p]] ELSE refAt
    /\ data' = IF p \in Adapters THEN [data EXCEPT ![p] = srcData[p]] ELSE data
    /\ pending' = pending \ {p} /\ manifestNew' = manifestNew \cup {p}
    /\ written' = written \cup {p}
    /\ UNCHANGED <<source, manifest, manifestTmp, pc, run, cur, new, rc, outcome,
                   prune, hashed, pruned>>

\* A file that vanished or can no longer be read: rsync goes on, and exits 23 or 24.
CannotRead(p) ==
    /\ pc \in {"blobs", "others"} /\ p \in pending
    /\ p \notin src \/ p \in unreadable
    /\ pending' = pending \ {p} /\ rc' = TRUE
    /\ UNCHANGED <<source, mirror, records, pc, run, cur, new, outcome, prune, history>>

\* The connection drops: rsync exits with what had arrived in place.
Disconnect ==
    /\ NetFails /\ pc \in {"blobs", "others"} /\ pending # {}
    /\ pending' = {} /\ rc' = TRUE
    /\ UNCHANGED <<source, mirror, records, pc, run, cur, new, outcome, prune, history>>

NextGroup ==
    /\ pc' = "next" /\ cur' = NoGroup /\ new' = {} /\ rc' = FALSE /\ pending' = {}

\* (Mutant: the repo is put back in the list to be tried again.)
BlobsFailedRetries ==
    /\ pc = "blobs" /\ pending = {} /\ rc
    /\ NextGroup /\ todo' = todo \cup {cur}
    /\ UNCHANGED <<source, mirror, records, skip, ran, failed, last, prune, history>>

\* The blobs' rsync failed: continue, with the repo's pointers as they were.
BlobsFailed ==
    /\ pc = "blobs" /\ pending = {} /\ rc
    /\ NextGroup /\ failed' = failed \cup {cur}
    /\ UNCHANGED <<source, mirror, records, run, last, prune, history>>

BadBlobs == {b \in new : data[b] # "good"}

\* Every blob that just arrived matches its name: on to the pointers.
HashGood ==
    /\ pc = "blobs" /\ pending = {} /\ ~rc /\ BadBlobs = {}
    /\ pc' = "others" /\ pending' = OthersBehind(cur) /\ hashed' = hashed \cup new
    /\ pruned' = pruned \ new /\ manifestNew' = manifestNew \cup new
    /\ UNCHANGED <<source, mirror, manifest, manifestTmp, run, cur, new, rc,
                   outcome, prune, written>>

\* (Mutant: the quarantine does not stop the repo.)
HashBadGoesOn ==
    /\ pc = "blobs" /\ pending = {} /\ ~rc /\ BadBlobs # {}
    /\ have' = have \ BadBlobs /\ hashed' = hashed \cup (new \ BadBlobs)
    /\ pc' = "others" /\ pending' = OthersBehind(cur) /\ failed' = failed \cup {cur}
    /\ UNCHANGED <<source, data, refAt, records, run, cur, new, rc, last, prune,
                   written, pruned>>

\* One does not: quarantine it and leave the pointers as they were.
HashBad ==
    /\ pc = "blobs" /\ pending = {} /\ ~rc /\ BadBlobs # {}
    /\ have' = have \ BadBlobs /\ hashed' = hashed \cup (new \ BadBlobs)
    /\ NextGroup /\ failed' = failed \cup {cur}
    /\ UNCHANGED <<source, data, refAt, records, run, last, prune, written, pruned>>

\* (Mutant: a failure among the pointers is not recorded.)
OthersDoneSilent ==
    /\ pc = "others" /\ pending = {}
    /\ NextGroup /\ failed' = failed
    /\ UNCHANGED <<source, mirror, records, run, last, prune, history>>

OthersDone ==
    /\ pc = "others" /\ pending = {}
    /\ NextGroup /\ failed' = IF rc THEN failed \cup {cur} ELSE failed
    /\ UNCHANGED <<source, mirror, records, run, last, prune, history>>

\* sort manifest.new manifest > manifest.tmp
MergeManifest ==
    /\ pc = "next" /\ todo = {}
    /\ pc' = "merged" /\ manifestTmp' = manifest \cup manifestNew
    /\ UNCHANGED <<source, mirror, manifest, manifestNew, run, copying, outcome,
                   prune, history>>

\* mv manifest.tmp manifest, and the result.
PublishManifest ==
    /\ pc = "merged" /\ manifestTmp # NoFile
    /\ manifest' = manifestTmp /\ manifestTmp' = NoFile /\ manifestNew' = {}
    /\ last' = IF failed = {} THEN "ok" ELSE "FAILED"
    /\ Gone
    /\ UNCHANGED <<source, mirror, prune, history>>

\* A prune moved manifest.tmp away first: mv fails and set -e ends the run.
LostManifest ==
    /\ pc = "merged" /\ manifestTmp = NoFile
    /\ Gone
    /\ UNCHANGED <<source, mirror, records, last, prune, history>>

\* SIGKILL, Ctrl-C or a power cut.
KillSync ==
    /\ Kills /\ pc # "idle"
    /\ Gone
    /\ UNCHANGED <<source, mirror, records, last, prune, history>>

SyncStep ==
    \/ SyncLock \/ SyncRefuse
    \/ \E gs \in Asked : SyncPlan(gs)
    \/ \E r \in Repos : StartBlobs(r)
    \/ StartAdapters
    \/ \E p \in Paths : CopyBlob(p) \/ CopyOther(p) \/ CannotRead(p)
    \/ BlobsFailed \/ HashGood \/ HashBad \/ OthersDone
    \/ MergeManifest \/ PublishManifest \/ LostManifest

Sync == SyncStep \/ Disconnect \/ KillSync

-----------------------------------------------------------------------------
(* cmd_mirror_prune --apply.  Without --apply it changes nothing.           *)

SyncUntouched ==
    UNCHANGED <<source, data, refAt, manifestNew, pc, run, copying, outcome,
                hashed, written>>

PruneOver == ppc' = "idle" /\ remote' = {} /\ ours' = {} /\ doomed' = {}

\* The desktop's list; an empty hub/ is not believed.
PruneList ==
    /\ Prunes /\ ppc = "idle" /\ src \ Adapters # {}
    /\ ppc' = "listed" /\ remote' = src
    /\ SyncUntouched /\ UNCHANGED <<have, manifest, manifestTmp, ours, doomed, pruned>>

\* (Mutant: whatever is stale is deleted, recorded or not.)
PruneMarkAll ==
    /\ ppc = "listed" /\ have \ remote # {}
    /\ ppc' = "delete" /\ ours' = have \ remote /\ doomed' = ours'
    /\ SyncUntouched /\ UNCHANGED <<have, manifest, manifestTmp, remote, pruned>>

\* What the mirror has and that list has not, and the part of it a sync recorded.
PruneMark ==
    /\ ppc = "listed" /\ have \ remote # {}
    /\ ppc' = "delete" /\ ours' = (have \ remote) \cap manifest /\ doomed' = ours'
    /\ SyncUntouched /\ UNCHANGED <<have, manifest, manifestTmp, remote, pruned>>

NothingStale ==
    /\ ppc = "listed" /\ have \ remote = {}
    /\ PruneOver /\ SyncUntouched /\ UNCHANGED <<have, manifest, manifestTmp, pruned>>

\* The list is sorted: adapters/, then within a repo blobs/, refs/, snapshots/.
Rank(p) == CASE p \in Adapters -> 0 [] p \in Blobs -> 1 [] p \in Repos -> 2 [] OTHER -> 3
SortsBefore(p, q) == (p \in Adapters \/ Group[p] = Group[q]) /\ Rank(p) < Rank(q)

PruneDelete(p) ==
    /\ ppc = "delete" /\ p \in doomed
    /\ \A q \in doomed : ~SortsBefore(q, p)
    /\ have' = have \ {p} /\ doomed' = doomed \ {p} /\ pruned' = pruned \cup ({p} \cap Blobs)
    /\ SyncUntouched /\ UNCHANGED <<manifest, manifestTmp, ppc, remote, ours>>

PruneManifest ==
    /\ ppc = "delete" /\ doomed = {}
    /\ ppc' = "merged" /\ manifestTmp' = manifest \ ours
    /\ SyncUntouched /\ UNCHANGED <<have, manifest, remote, ours, doomed, pruned>>

\* (Mutant: manifest.tmp is taken to be there.)
PrunePublishBlind ==
    /\ ppc = "merged"
    /\ manifest' = manifestTmp /\ manifestTmp' = NoFile
    /\ PruneOver /\ SyncUntouched /\ UNCHANGED <<have, pruned>>

\* mv manifest.tmp manifest, which fails when a sync moved it away first.
PrunePublish ==
    /\ ppc = "merged"
    /\ manifest' = IF manifestTmp = NoFile THEN manifest ELSE manifestTmp
    /\ manifestTmp' = NoFile
    /\ PruneOver /\ SyncUntouched /\ UNCHANGED <<have, pruned>>

KillPrune ==
    /\ Kills /\ ppc # "idle"
    /\ PruneOver /\ SyncUntouched /\ UNCHANGED <<have, manifest, manifestTmp, pruned>>

Prune ==
    \/ PruneList \/ PruneMark \/ NothingStale \/ PruneManifest \/ PrunePublish \/ KillPrune
    \/ \E p \in Paths : PruneDelete(p)

Next == Desktop \/ (\E p \in HandPaths : HandPut(p)) \/ Sync \/ Prune

Spec == Init /\ [][Next]_vars

\* A sync that runs is a shell script of bounded loops: it goes on, or is killed.
\* Nothing obliges anyone to start one, and a dead connection ends rsync in the
\* end (Disconnect), so no step of it waits for ever.
FairSpec == Spec /\ WF_vars(pc # "idle" /\ SyncStep)

-----------------------------------------------------------------------------
(* Properties.                                                              *)

DesktopType ==
    /\ src \subseteq Paths /\ srcData \in [Files -> Contents]
    /\ srcRef \in [Repos -> Revs \cup {NoRev}] /\ unreadable \subseteq Blobs

MirrorType ==
    /\ have \subseteq Paths /\ data \in [Files -> Contents]
    /\ refAt \in [Repos -> Revs \cup {NoRev}]
    /\ manifest \subseteq Paths /\ manifestNew \subseteq Paths
    /\ manifestTmp \subseteq Paths \/ manifestTmp = NoFile

SyncType ==
    /\ pc \in {"idle", "locked", "next", "blobs", "others", "merged"}
    /\ skip \subseteq Blobs /\ todo \subseteq Groups /\ ran \subseteq Groups
    /\ cur \in Groups \cup {NoGroup} /\ pending \subseteq Paths /\ new \subseteq Blobs
    /\ pc \in {"blobs", "others"} => cur \in Groups
    /\ pc = "blobs" => pending \subseteq Blobs
    /\ pc = "others" => pending \cap Blobs = {}
    /\ rc \in BOOLEAN /\ failed \subseteq Groups /\ last \in {"never", "ok", "FAILED"}

PruneType ==
    /\ ppc \in {"idle", "listed", "delete", "merged"}
    /\ remote \subseteq Paths /\ ours \subseteq Paths /\ doomed \subseteq Paths

HistoryType == hashed \subseteq Blobs /\ written \subseteq Paths /\ pruned \subseteq Blobs

TypeOK == DesktopType /\ MirrorType /\ SyncType /\ PruneType /\ HistoryType

\* No snapshot entry in the mirror points to a blob that is not there: the
\* pointers are copied only after every blob (bin/lab 1703-1711).
LinksResolve == \A l \in have \cap Links : Target[l] \in have

\* With a prune about, the only missing targets are blobs the prune removed
\* and no later sync has brought back and checked (bin/lab 1775).
DanglingOnlyByPrune == \A l \in have \cap Links : Target[l] \in have \cup pruned

\* A snapshot entry written in a run never exposes a blob that the same run
\* transferred and did not find matching its name (bin/lab 1691-1711).
NewLinksHashed ==
    [][\A l \in Links : (l \in have' \ have /\ Target[l] \in new) => Target[l] \in hashed]_vars

\* Every blob a snapshot entry reaches has been checked since it arrived:
\* "every blob that arrives is checked against its name before any pointer
\* that reaches it is copied" (bin/lab 1441-1443).
ReachableIsHashed == \A l \in have \cap Links : Target[l] \in have => Target[l] \in hashed

\* refs/main names a revision whose every file is there and right: "a loader
\* sees the old revision or the complete, verified new one" (bin/lab
\* 1442-1444, docs/weight-mirror-plan.md 98-99).
LoaderSeesWhole ==
    \A r \in Repos \cap have : \A l \in LinksOf(refAt[r]) :
        l \in have /\ Target[l] \in have /\ data[Target[l]] = "good"

\* What "lab mirror status" calls behind in one group: rsync's dry run, which
\* opens no file and excludes none (bin/lab 1546-1548).
Behind(g) == OthersBehind(g) \cup (IF g \in Repos THEN BlobsBehind(g) ELSE {})

\* "sync: ok" is written only when status would find nothing behind in any
\* group the run was asked for (bin/lab 1539-1540, 1723-1725).
OkMeansCurrent ==
    [][(pc = "merged" /\ pc' = "idle" /\ manifestTmp # manifestTmp' /\ last' = "ok")
        => \A g \in ran : Behind(g) = {}]_vars

\* No command ever removes from the mirror a path that no sync wrote: "it
\* cannot touch anything a person put here" (bin/lab 1715-1716).  What a sync
\* wrote is a path, for ever: a person's own file put there later is not told
\* apart from it, nor by the code.
RemovesOnlyWritten == [][have \ have' \subseteq written]_vars

\* Between commands, whatever in the mirror a sync wrote is in the manifest:
\* "every path this command ever wrote" (bin/lab 1715).
WrittenIsRecorded == pc = "idle" /\ ppc = "idle" => written \cap have \subseteq manifest

\* A sync that starts comes to an end, whatever the desktop does meanwhile.
SyncEnds == (pc # "idle") ~> (pc = "idle")
=============================================================================
