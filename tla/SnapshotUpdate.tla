--------------------------- MODULE SnapshotUpdate ----------------------------
(***************************************************************************)
(* The refresh of the vendored basis-schemas snapshot                      *)
(* (src/scripts/update_basis_schemas_snapshot.py): a process that reads a  *)
(* source tree, deletes the vendored files, copies the planned ones and    *)
(* writes manifest.json last.  It can be killed, or fail with an I/O       *)
(* error, at any point; its user runs it again on the same destination;    *)
(* the source tree may be switched to another checkout meanwhile; and      *)
(* somebody may put a symbolic link in the place of a directory that the   *)
(* process is about to copy into.                                          *)
(*                                                                         *)
(* A file is a name and a content, and a digest is the content itself: two *)
(* contents with one SHA-256 are not considered.  Names are                *)
(* <<area, directory, file>>; of the directories of the destination only   *)
(* the links are kept, since mkdir(exist_ok=True) makes what is missing.   *)
(***************************************************************************)
EXTENDS Naturals, Sequences, SequencesExt

CONSTANTS
  Approved,      \* the allowlist: the names to copy, in the order of the script
  Excluded,      \* KNOWN_EXCLUDED_SCHEMA_CONTRACTS, as directories
  Published,     \* Published[r][f]: the content of file f in release r
  Sources,       \* what --source may hold
  Requests,      \* the command lines: release, commit, an explicit captured_at
  Destinations,  \* what the destination may hold at first
  Absent, Torn,  \* no value; a file written in part
  MaxRuns, MaxFaults, MaxSwitches  \* bounds

Areas == {"schemas", "compatibility"}
DirectoryOf(f) == <<f[1], f[2]>>
ApprovedIn(area) == {f \in Range(Approved) : f[1] = area}
Releases == DOMAIN Published

\* A function from names to contents, and nothing else.
IsFileMap(m) == m = [f \in DOMAIN m |-> m[f]]

\* A source tree: the versions it declares, its directories, its files and
\* which of them are symbolic links, and whether git can date its commit.
IsSource(s) ==
  /\ s.version \in Releases \cup {Absent} /\ s.initVersion \in Releases \cup {Absent}
  /\ {DirectoryOf(f) : f \in DOMAIN s.files} \subseteq s.directories
  /\ s.links \subseteq DOMAIN s.files \cup s.directories
  /\ s.git \in BOOLEAN

\* The area of s holds exactly the approved directories, `ignored` ones apart,
\* each with exactly its approved files, and nothing approved is a link.
HoldsExactly(s, area, ignored) ==
  LET approved == ApprovedIn(area)
      wanted == {DirectoryOf(f) : f \in approved}
      FilesUnder(d) == {f \in DOMAIN s.files : DirectoryOf(f) = d}
  IN /\ {d \in s.directories : d[1] = area} \ ignored = wanted
     /\ \A d \in wanted : FilesUnder(d) = {f \in approved : DirectoryOf(f) = d}
     /\ s.links \cap (wanted \cup approved) = {}

Vendorable(s) == HoldsExactly(s, "schemas", Excluded) /\ HoldsExactly(s, "compatibility", {})

ASSUME SourcesAssumption == \A s \in Sources : IsSource(s)
ASSUME ApprovedAssumption ==
  Approved \in Seq(Range(Approved)) /\ \A f \in Range(Approved) : f[1] \in Areas
ASSUME PublishedAssumption == \A r \in Releases : IsFileMap(Published[r])

\* --release has no default.
ASSUME RequestsAssumption == Absent \notin Releases /\ \A r \in Requests : r.release # Absent

\* Releases are immutable: a tree that declares one has that one's files, and
\* misses none of them if it holds exactly the approved files.
ASSUME CheckoutsAssumption ==
  \A s \in Sources : s.version \in Releases =>
    /\ \A f \in DOMAIN s.files \cap DOMAIN Published[s.version] :
         s.files[f] = Published[s.version][f]
    /\ Vendorable(s) => DOMAIN Published[s.version] = Range(Approved)

\* The destination holds what earlier releases of the script left there.
ASSUME DestinationsAssumption ==
  \A d \in Destinations :
    /\ IsFileMap(d.tree) /\ \A f \in DOMAIN d.tree : f[1] \in Areas
    /\ d.manifest.readable => d.manifest.files = Published[d.manifest.release]

VARIABLES
  source,      \* the tree that --source names
  tree,        \* the vendored files of the destination, name -> content
  linked,      \* its directories that are symbolic links, to empty places elsewhere
  manifest,    \* its manifest.json; not readable if missing or torn
  run,         \* the process: its step, its arguments, what it keeps in memory
  before,      \* history: the destination when the process started
  disturbed,   \* history: this run was hit by a fault, or its source changed
  switched,    \* history: a source has changed under some run
  runs, faults, switches  \* counters, for the bounds

vars == <<source, tree, linked, manifest, run, before, disturbed, switched, runs, faults, switches>>

Running == {"validate", "planSchemas", "planCompatibility", "capture",
            "clearSchemas", "clearCompatibility", "copy"}
Checking == {"validate", "planSchemas", "planCompatibility", "capture"}
Ended == {"none", "done", "refused", "failed"}

Without(d, names) == [f \in DOMAIN d \ names |-> d[f]]
With(d, f, content) == [g \in DOMAIN d \cup {f} |-> IF g = f THEN content ELSE d[g]]
NoFiles == [f \in {} |-> Absent]
Unreadable == [readable |-> FALSE]

NoRun == [at |-> "none", request |-> Absent, planned |-> <<>>, files |-> NoFiles,
          capturedAt |-> Absent]

Init ==
  /\ source \in Sources
  /\ \E d \in Destinations : tree = d.tree /\ manifest = d.manifest
  /\ linked = {}
  /\ run = NoRun
  /\ before = [tree |-> NoFiles, manifest |-> Unreadable]
  /\ disturbed = FALSE /\ switched = FALSE
  /\ runs = 0 /\ faults = 0 /\ switches = 0

history == <<before, disturbed, switched, runs, faults, switches>>
-----------------------------------------------------------------------------
\* The user starts the script.
Start ==
  /\ run.at \in Ended /\ runs < MaxRuns
  /\ \E r \in Requests : run' = [NoRun EXCEPT !.at = "validate", !.request = r]
  /\ before' = [tree |-> tree, manifest |-> manifest]
  /\ disturbed' = FALSE
  /\ runs' = runs + 1
  /\ UNCHANGED <<source, tree, linked, manifest, switched, faults, switches>>

\* A SnapshotUpdateError: exit status 1.
Refuse == run' = [run EXCEPT !.at = "refused"]

Proceed(step) == run' = [run EXCEPT !.at = step]

\* A plausible bug: the declared version is not compared with --release.
ReleaseMatches_NotCompared(r) == source.version # Absent /\ source.initVersion # Absent

\* The tree declares the release that is asked for, wherever it declares one.
ReleaseMatches(r) ==
  /\ source.version = r.release
  /\ source.initVersion \in {r.release, Absent}

Validate ==
  /\ run.at = "validate"
  /\ IF run.request.wellFormed /\ ReleaseMatches(run.request)
     THEN Proceed("planSchemas") ELSE Refuse
  /\ UNCHANGED <<source, tree, linked, manifest, history>>

\* A plausible bug: the old files are removed before the plan is known to be good.
PlanSchemas_ClearsFirst ==
  /\ run.at = "planSchemas"
  /\ IF HoldsExactly(source, "schemas", Excluded) THEN Proceed("planCompatibility") ELSE Refuse
  /\ tree' = Without(tree, {f \in DOMAIN tree : f[1] = "schemas"})
  /\ UNCHANGED <<source, linked, manifest, history>>

PlanSchemas ==
  /\ run.at = "planSchemas"
  /\ IF HoldsExactly(source, "schemas", Excluded) THEN Proceed("planCompatibility") ELSE Refuse
  /\ UNCHANGED <<source, tree, linked, manifest, history>>

PlanCompatibility ==
  /\ run.at = "planCompatibility"
  /\ IF HoldsExactly(source, "compatibility", {})
     THEN run' = [run EXCEPT !.at = "capture", !.planned = Approved] ELSE Refuse
  /\ UNCHANGED <<source, tree, linked, manifest, history>>

\* captured_at: the explicit value, the date of the source's commit, or the clock.
CapturedAt ==
  IF run.request.capturedAt # Absent THEN run.request.capturedAt
  ELSE IF source.git THEN [by |-> "commit", of |-> source.version] ELSE [by |-> "clock"]

ResolveCapturedAt ==
  /\ run.at = "capture"
  /\ run' = [run EXCEPT !.at = "clearSchemas", !.capturedAt = CapturedAt]
  /\ UNCHANGED <<source, tree, linked, manifest, history>>

\* rmtree removes a link it finds, and not what it leads to.
LinksOutside(area) == {d \in linked : d[1] # area}


\* A plausible bug: only the files about to be copied are removed.
Clear_Merges(area, next) ==
  /\ Proceed(next)
  /\ tree' = Without(tree, {f \in ApprovedIn(area) : f \in DOMAIN tree})
  /\ linked' = LinksOutside(area)
  /\ UNCHANGED <<source, manifest, history>>

Clear(area, next) ==
  /\ Proceed(next)
  /\ tree' = Without(tree, {f \in DOMAIN tree : f[1] = area})
  /\ linked' = LinksOutside(area)
  /\ UNCHANGED <<source, manifest, history>>

ClearSchemas == run.at = "clearSchemas" /\ Clear("schemas", "clearCompatibility")
ClearCompatibility == run.at = "clearCompatibility" /\ Clear("compatibility", "copy")

Copied == [run EXCEPT !.planned = Tail(@),
                      !.files = With(@, Head(run.planned), tree'[Head(run.planned)])]

\* The directory that the next file goes to is a link.
MeetsLink == DirectoryOf(Head(run.planned)) \in linked

\* One file: its directory is no link; copied, then hashed at the destination.
Copy ==
  /\ run.at = "copy" /\ run.planned # <<>> /\ ~MeetsLink
  /\ Head(run.planned) \in DOMAIN source.files
  /\ tree' = With(tree, Head(run.planned), source.files[Head(run.planned)])
  /\ run' = Copied
  /\ UNCHANGED <<source, linked, manifest, history>>

\* reject_unsafe_path: the run refuses, with its destination cleared and copied
\* in part.
CopyMeetsLink ==
  /\ run.at = "copy" /\ run.planned # <<>> /\ MeetsLink
  /\ Refuse
  /\ UNCHANGED <<source, tree, linked, manifest, history>>

\* A plausible bug: a planned file that is gone is skipped.
CopyFindsNothing_Skips ==
  /\ run.at = "copy" /\ run.planned # <<>> /\ ~MeetsLink
  /\ Head(run.planned) \notin DOMAIN source.files
  /\ run' = [run EXCEPT !.planned = Tail(@)]
  /\ UNCHANGED <<source, tree, linked, manifest, history>>

\* The file was in the plan and is gone: copyfile raises.
CopyFindsNothing ==
  /\ run.at = "copy" /\ run.planned # <<>> /\ ~MeetsLink
  /\ Head(run.planned) \notin DOMAIN source.files
  /\ Proceed("failed")
  /\ UNCHANGED <<source, tree, linked, manifest, history>>

WriteManifest ==
  /\ run.at = "copy" /\ run.planned = <<>>
  /\ manifest' = [readable |-> TRUE, release |-> run.request.release,
                  commit |-> run.request.commit, capturedAt |-> run.capturedAt,
                  files |-> run.files]
  /\ Proceed("done")
  /\ UNCHANGED <<source, tree, linked, history>>

Step ==
  \/ Validate \/ PlanSchemas \/ PlanCompatibility \/ ResolveCapturedAt
  \/ ClearSchemas \/ ClearCompatibility
  \/ Copy \/ CopyMeetsLink \/ CopyFindsNothing \/ WriteManifest
-----------------------------------------------------------------------------
\* The process is killed or meets an I/O error: what it was doing is done in
\* part.  rmtree removes file by file, copyfile and write_text truncate first.
PartOfClear(area) ==
  /\ \E gone \in SUBSET {f \in DOMAIN tree : f[1] = area} : tree' = Without(tree, gone)
  /\ linked' \in {linked, LinksOutside(area)}
  /\ UNCHANGED manifest

PartOfCopy ==
  /\ run.planned # <<>>
  /\ tree' = tree \/ (~MeetsLink /\ tree' = With(tree, Head(run.planned), Torn))
  /\ UNCHANGED <<linked, manifest>>

PartOfManifest ==
  /\ run.planned = <<>>
  /\ manifest' \in {manifest, Unreadable}
  /\ UNCHANGED <<tree, linked>>

Interrupted ==
  /\ run.at \in Running /\ faults < MaxFaults
  /\ CASE run.at = "clearSchemas" -> PartOfClear("schemas")
       [] run.at = "clearCompatibility" -> PartOfClear("compatibility")
       [] run.at = "copy" -> PartOfCopy \/ PartOfManifest
       [] OTHER -> UNCHANGED <<tree, linked, manifest>>
  /\ Proceed("failed")
  /\ disturbed' = TRUE
  /\ faults' = faults + 1
  /\ UNCHANGED <<source, before, switched, runs, switches>>

\* Another release is checked out in the source directory.
SwitchSource ==
  /\ switches < MaxSwitches
  /\ source' \in Sources \ {source}
  /\ switches' = switches + 1
  /\ disturbed' = (disturbed \/ run.at \in Running)
  /\ switched' = (switched \/ run.at \in Running)
  /\ UNCHANGED <<tree, linked, manifest, run, before, runs, faults>>

\* Somebody replaces a vendored directory by a link, which hides its files.
\* Outside the copy that is an edit of the destination like any other.
LinkDestination ==
  /\ run.at = "copy"
  /\ \E d \in {DirectoryOf(f) : f \in Range(Approved)} \ linked :
       /\ linked' = linked \cup {d}
       /\ tree' = Without(tree, {f \in DOMAIN tree : DirectoryOf(f) = d})
  /\ UNCHANGED <<source, manifest, run, history>>

Next == Start \/ Step \/ Interrupted \/ SwitchSource \/ LinkDestination

\* A started process goes on until it ends; nobody has to start one.
Fairness == WF_vars(Step)

Spec == Init /\ [][Next]_vars /\ Fairness
-----------------------------------------------------------------------------
\* What tests/test_basis_schemas_snapshot_integrity.py accepts: a manifest that
\* can be read, and names exactly the files that are there, with their digests;
\* and no links.
IntegrityPasses == manifest.readable /\ manifest.files = tree /\ linked = {}

(***************************************************************************)
(* A refresh that refuses its arguments or its source (exit status 1) has  *)
(* not touched the destination: those checks, also of the second area, all *)
(* come before the first deletion (lines 46-48, 520-537).  The one refusal *)
(* that comes after it is that of a link where the next file should go     *)
(* (lines 436-440), and it leaves the old manifest.                        *)
(***************************************************************************)
RefusalTouchesNothing ==
  run.at = "refused" =>
    /\ manifest = before.manifest
    /\ tree = before.tree \/ (run.planned # <<>> /\ MeetsLink)

(***************************************************************************)
(* A refresh that reports success leaves a complete snapshot: exactly the  *)
(* approved files, nothing stale, and a manifest of their digests - even   *)
(* if the source changed while it copied, because the digest is taken at   *)
(* the destination (lines 432-444).  If it did not change, the files are   *)
(* the asked release's.  What was replaced by a link behind its back is    *)
(* left to the integrity test.                                             *)
(***************************************************************************)
SuccessIsComplete ==
  (run.at = "done" /\ linked = {}) =>
    /\ IntegrityPasses
    /\ DOMAIN tree = Range(Approved)
    /\ ~disturbed => /\ tree = Published[run.request.release]
                     /\ manifest.release = run.request.release

(***************************************************************************)
(* Whatever was interrupted, and however often: a destination that passes  *)
(* the integrity test holds exactly the files of the release its manifest  *)
(* names, never a mixture of two, as long as no source was switched under  *)
(* a running refresh (clear, copy, manifest last: lines 537-545).          *)
(***************************************************************************)
VerifiedTreeIsOneRelease ==
  (IntegrityPasses /\ ~switched) => tree = Published[manifest.release]

-----------------------------------------------------------------------------
\* The invariant behind the three, in parts.
IsRun(r) ==
  /\ r = [at |-> r.at, request |-> r.request, planned |-> r.planned, files |-> r.files,
          capturedAt |-> r.capturedAt]
  /\ r.at \in Running \cup Ended
  /\ r.at # "none" => r.request \in Requests
  /\ r.planned \in Seq(Range(Approved))
  /\ r.files = NoFiles \/ r.at \notin Checking \cup {"clearSchemas", "clearCompatibility"}
  /\ IsFileMap(r.files)

NothingDeleted ==
  /\ run.at \in Checking \cup {"clearSchemas"} =>
       before = [tree |-> tree, manifest |-> manifest]
  /\ run.at \in Running => manifest = before.manifest
  /\ RefusalTouchesNothing

StillChecked ==
  (run.at \in Running /\ ~disturbed) =>
    /\ run.at # "validate" => ReleaseMatches(run.request)
    /\ run.at \notin {"validate", "planSchemas"} => HoldsExactly(source, "schemas", Excluded)
    /\ run.at \notin {"validate", "planSchemas", "planCompatibility"} => Vendorable(source)

TreeIsTheCopy ==
  /\ \A f \in DOMAIN tree : f[1] \in Areas /\ DirectoryOf(f) \notin linked
  /\ run.at \in {"capture", "clearSchemas", "clearCompatibility"} => run.planned = Approved
  /\ run.at = "clearCompatibility" => \A f \in DOMAIN tree : f[1] # "schemas"
  /\ run.at = "copy" =>
       /\ linked = {} => tree = run.files
       /\ Range(Approved) = DOMAIN run.files \cup Range(run.planned)
       /\ ~disturbed => \A f \in DOMAIN run.files :
                           f \in DOMAIN source.files /\ run.files[f] = source.files[f]

ManifestIsOneRelease ==
  /\ (run.at \in Running /\ disturbed) => switched
  /\ (manifest.readable /\ ~switched) => manifest.files = Published[manifest.release]

(***************************************************************************)
(* At every step of a refresh: nothing is deleted before everything is     *)
(* checked; what was checked still holds unless the source was switched;   *)
(* the tree is what has been copied, from that source, less what a link    *)
(* hides, and nothing is written through a link; and a manifest that can   *)
(* be read was written by a run that got to its end (lines 432-444,        *)
(* 520-545).                                                               *)
(***************************************************************************)
SnapshotInv ==
  /\ source \in Sources /\ IsFileMap(tree) /\ IsRun(run)
  /\ NothingDeleted /\ StillChecked /\ TreeIsTheCopy /\ ManifestIsOneRelease
  /\ SuccessIsComplete

GoodRequest ==
  run.request.wellFormed /\ ReleaseMatches(run.request) /\ Vendorable(source)

=============================================================================
