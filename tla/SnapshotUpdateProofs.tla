------------------------- MODULE SnapshotUpdateProofs --------------------------
(***************************************************************************)
(* Proofs about SnapshotUpdate, for any allowlist, releases, sources,      *)
(* command lines and destinations, and any number of runs, faults,         *)
(* switches of the source and links in the destination: what a refusal, a  *)
(* success and a destination that passes the integrity test guarantee.     *)
(*                                                                         *)
(* None of the three is inductive.  SnapshotInv is: it adds what a run has *)
(* established before it deletes anything, and what it has copied since.   *)
(***************************************************************************)
EXTENDS SnapshotUpdate, TLAPS

\* A process that only goes to its next step keeps its arguments and memory.
LEMMA RunProceeds ==
  ASSUME IsRun(run), run.at # "none", NEW s \in Running \cup Ended, Proceed(s),
         run.files = NoFiles \/ s \notin Checking \cup {"clearSchemas", "clearCompatibility"}
  PROVE  /\ IsRun(run)'
         /\ run'.at = s /\ run'.request = run.request /\ run'.planned = run.planned
         /\ run'.files = run.files
<1>1. PICK a, q, p, f, c : run = [at |-> a, request |-> q, planned |-> p, files |-> f,
                                 capturedAt |-> c]
  BY DEF IsRun
<1>2. run' = [at |-> s, request |-> run.request, planned |-> run.planned,
              files |-> run.files, capturedAt |-> run.capturedAt]
  BY <1>1 DEF Proceed
<1> QED BY <1>2 DEF IsRun

\* What is said of a source is said of it as long as it is not switched.
LEMMA SameSource ==
  ASSUME source' = source, run'.request = run.request
  PROVE  /\ ReleaseMatches(run.request)' <=> ReleaseMatches(run.request)
         /\ HoldsExactly(source, "schemas", Excluded)' <=> HoldsExactly(source, "schemas", Excluded)
         /\ Vendorable(source)' <=> Vendorable(source)
BY DEF ReleaseMatches, Vendorable

\* No files, what is left when some are removed, and what is there when one is
\* written: each a function from names to contents.
LEMMA NoFilesIsFileMap == IsFileMap(NoFiles) /\ DOMAIN NoFiles = {}
BY DEF IsFileMap, NoFiles

LEMMA FilesRemoved ==
  ASSUME NEW names, tree' = Without(tree, names)
  PROVE  IsFileMap(tree)' /\ DOMAIN tree' = DOMAIN tree \ names
BY DEF IsFileMap, Without

LEMMA FileWritten ==
  ASSUME NEW f, NEW content, tree' = With(tree, f, content)
  PROVE  IsFileMap(tree)' /\ DOMAIN tree' = DOMAIN tree \cup {f}
BY DEF IsFileMap, With

-----------------------------------------------------------------------------
\* Nothing runs at first, and the destination is one that an earlier release left.
LEMMA SnapshotInvInit == Init => SnapshotInv
<1> SUFFICES ASSUME Init PROVE SnapshotInv
  OBVIOUS
<1>1. /\ run.at = "none" /\ run.planned = <<>> /\ run.files = NoFiles
      /\ run = [at |-> run.at, request |-> run.request, planned |-> run.planned,
                files |-> run.files, capturedAt |-> run.capturedAt]
  BY DEF Init, NoRun
<1>2. IsRun(run)
  BY <1>1, NoFilesIsFileMap DEF IsRun, Ended
<1>3. PICK d \in Destinations : tree = d.tree /\ manifest = d.manifest /\ linked = {}
  BY DEF Init
<1>4. IsFileMap(tree) /\ TreeIsTheCopy /\ ManifestIsOneRelease
  BY <1>1, <1>3, DestinationsAssumption DEF TreeIsTheCopy, ManifestIsOneRelease, Running
<1> QED BY <1>1, <1>2, <1>4 DEF Init, SnapshotInv, NothingDeleted, RefusalTouchesNothing,
             StillChecked, SuccessIsComplete, Running, Checking

LEMMA StartKeepsSnapshotInv ==
  ASSUME SnapshotInv, Start
  PROVE  SnapshotInv'
<1>1. PICK r \in Requests : run' = [NoRun EXCEPT !.at = "validate", !.request = r]
  BY DEF Start
<1>2. run' = [at |-> "validate", request |-> r, planned |-> <<>>, files |-> NoFiles,
              capturedAt |-> Absent]
  BY <1>1 DEF NoRun
<1>3. IsRun(run)'
  BY <1>2, NoFilesIsFileMap DEF IsRun, Running
<1>4. NothingDeleted' /\ StillChecked' /\ SuccessIsComplete'
  BY <1>2 DEF Start, NothingDeleted, RefusalTouchesNothing, StillChecked, SuccessIsComplete
<1>5. TreeIsTheCopy' /\ ManifestIsOneRelease'
  BY <1>2 DEF Start, SnapshotInv, TreeIsTheCopy, ManifestIsOneRelease, Running
<1> QED BY <1>3, <1>4, <1>5 DEF Start, SnapshotInv, IsFileMap

\* A run that has done nothing but check may stop.
LEMMA RefusingKeepsSnapshotInv ==
  ASSUME SnapshotInv, run.at \in Checking, Refuse,
         UNCHANGED <<source, tree, linked, manifest, history>>
  PROVE  SnapshotInv'
<1>1. /\ IsRun(run)' /\ run'.at = "refused" /\ run'.request = run.request
  BY RunProceeds DEF SnapshotInv, Refuse, Proceed, IsRun, Checking, Running, Ended
<1>2. NothingDeleted' /\ StillChecked' /\ SuccessIsComplete'
  BY <1>1 DEF SnapshotInv, history, NothingDeleted, RefusalTouchesNothing, StillChecked,
              SuccessIsComplete, Running
<1>3. TreeIsTheCopy' /\ ManifestIsOneRelease'
  BY <1>1 DEF SnapshotInv, history, TreeIsTheCopy, ManifestIsOneRelease, Running
<1> QED BY <1>1, <1>2, <1>3 DEF SnapshotInv, history, IsFileMap

LEMMA ValidateKeepsSnapshotInv ==
  ASSUME SnapshotInv, Validate
  PROVE  SnapshotInv'
<1>1. CASE Refuse
  BY <1>1, RefusingKeepsSnapshotInv DEF Validate, Checking
<1>2. CASE ReleaseMatches(run.request) /\ Proceed("planSchemas")
  <2>1. /\ IsRun(run)' /\ run'.at = "planSchemas" /\ run'.request = run.request
    BY <1>2, RunProceeds DEF SnapshotInv, Validate, IsRun, Checking, Running, Ended
  <2>2. StillChecked'
    BY <1>2, <2>1, SameSource DEF Validate, StillChecked
  <2>3. NothingDeleted' /\ SuccessIsComplete' /\ TreeIsTheCopy' /\ ManifestIsOneRelease'
    BY <2>1 DEF Validate, SnapshotInv, history, NothingDeleted, RefusalTouchesNothing,
                SuccessIsComplete, Checking, TreeIsTheCopy, ManifestIsOneRelease, Running
  <2> QED BY <2>1, <2>2, <2>3 DEF Validate, SnapshotInv, IsFileMap
<1> QED BY <1>1, <1>2 DEF Validate

LEMMA PlanSchemasKeepsSnapshotInv ==
  ASSUME SnapshotInv, PlanSchemas
  PROVE  SnapshotInv'
<1>1. CASE Refuse
  BY <1>1, RefusingKeepsSnapshotInv DEF PlanSchemas, Checking
<1>2. CASE HoldsExactly(source, "schemas", Excluded) /\ Proceed("planCompatibility")
  <2>1. /\ IsRun(run)' /\ run'.at = "planCompatibility" /\ run'.request = run.request
    BY <1>2, RunProceeds DEF SnapshotInv, PlanSchemas, IsRun, Checking, Running, Ended
  <2>2. StillChecked'
    BY <1>2, <2>1, SameSource DEF PlanSchemas, SnapshotInv, history, StillChecked, Running
  <2>3. NothingDeleted' /\ SuccessIsComplete' /\ TreeIsTheCopy' /\ ManifestIsOneRelease'
    BY <2>1 DEF PlanSchemas, SnapshotInv, history, NothingDeleted, RefusalTouchesNothing,
                SuccessIsComplete, Checking, TreeIsTheCopy, ManifestIsOneRelease, Running
  <2> QED BY <2>1, <2>2, <2>3 DEF PlanSchemas, SnapshotInv, IsFileMap
<1> QED BY <1>1, <1>2 DEF PlanSchemas

LEMMA PlanCompatibilityKeepsSnapshotInv ==
  ASSUME SnapshotInv, PlanCompatibility
  PROVE  SnapshotInv'
<1>1. CASE Refuse
  BY <1>1, RefusingKeepsSnapshotInv DEF PlanCompatibility, Checking
<1>2. CASE /\ HoldsExactly(source, "compatibility", {})
           /\ run' = [run EXCEPT !.at = "capture", !.planned = Approved]
  <2>1. PICK a, q, p, f, c : run = [at |-> a, request |-> q, planned |-> p, files |-> f,
                                   capturedAt |-> c]
    BY DEF SnapshotInv, IsRun
  <2>2. run' = [at |-> "capture", request |-> run.request, planned |-> Approved,
                files |-> run.files, capturedAt |-> run.capturedAt]
    BY <1>2, <2>1
  <2>3. IsRun(run)'
    BY <2>2, ApprovedAssumption DEF PlanCompatibility, SnapshotInv, IsRun, Checking, Running
  <2>4. StillChecked'
    BY <1>2, <2>2, SameSource
    DEF PlanCompatibility, SnapshotInv, history, StillChecked, Vendorable, Running
  <2>5. NothingDeleted' /\ SuccessIsComplete' /\ TreeIsTheCopy' /\ ManifestIsOneRelease'
    BY <2>2 DEF PlanCompatibility, SnapshotInv, history, NothingDeleted,
                RefusalTouchesNothing, SuccessIsComplete, Checking, TreeIsTheCopy,
                ManifestIsOneRelease, Running
  <2> QED BY <2>3, <2>4, <2>5 DEF PlanCompatibility, SnapshotInv, IsFileMap
<1> QED BY <1>1, <1>2 DEF PlanCompatibility

LEMMA ResolveKeepsSnapshotInv ==
  ASSUME SnapshotInv, ResolveCapturedAt
  PROVE  SnapshotInv'
<1>1. PICK a, q, p, f, c : run = [at |-> a, request |-> q, planned |-> p, files |-> f,
                                 capturedAt |-> c]
  BY DEF SnapshotInv, IsRun
<1>2. run' = [at |-> "clearSchemas", request |-> run.request, planned |-> run.planned,
              files |-> run.files, capturedAt |-> CapturedAt]
  BY <1>1 DEF ResolveCapturedAt
<1>3. IsRun(run)'
  BY <1>2 DEF ResolveCapturedAt, SnapshotInv, IsRun, Checking, Running
<1>4. StillChecked'
  BY <1>2, SameSource DEF ResolveCapturedAt, SnapshotInv, history, StillChecked, Running
<1>5. NothingDeleted' /\ SuccessIsComplete' /\ TreeIsTheCopy' /\ ManifestIsOneRelease'
  BY <1>2 DEF ResolveCapturedAt, SnapshotInv, history, NothingDeleted,
              RefusalTouchesNothing, SuccessIsComplete, Checking, TreeIsTheCopy,
              ManifestIsOneRelease, Running
<1> QED BY <1>3, <1>4, <1>5 DEF ResolveCapturedAt, SnapshotInv, IsFileMap

\* The schemas go first: everything is checked, and nothing is copied yet.
LEMMA ClearSchemasKeepsSnapshotInv ==
  ASSUME SnapshotInv, ClearSchemas
  PROVE  SnapshotInv'
<1>1. /\ IsRun(run)' /\ run'.at = "clearCompatibility" /\ run'.request = run.request
      /\ run'.planned = run.planned /\ run'.files = run.files
  BY RunProceeds DEF SnapshotInv, ClearSchemas, Clear, IsRun, Running, Ended
<1>2. StillChecked'
  BY <1>1, SameSource DEF ClearSchemas, Clear, SnapshotInv, history, StillChecked, Running
<1>3. IsFileMap(tree)' /\ DOMAIN tree' = {f \in DOMAIN tree : f[1] # "schemas"}
  BY FilesRemoved DEF ClearSchemas, Clear
<1>4. TreeIsTheCopy'
  <2>1. linked' \subseteq linked
    BY DEF ClearSchemas, Clear, LinksOutside
  <2> QED BY <1>1, <1>3, <2>1 DEF ClearSchemas, SnapshotInv, TreeIsTheCopy
<1>5. NothingDeleted' /\ SuccessIsComplete' /\ ManifestIsOneRelease'
  BY <1>1 DEF ClearSchemas, Clear, SnapshotInv, history, NothingDeleted,
              RefusalTouchesNothing, SuccessIsComplete, ManifestIsOneRelease, Checking,
              Running
<1> QED BY <1>1, <1>2, <1>3, <1>4, <1>5 DEF ClearSchemas, Clear, SnapshotInv

\* Then the compatibility artifacts: nothing is left, as nothing is copied.
LEMMA ClearCompatibilityKeepsSnapshotInv ==
  ASSUME SnapshotInv, ClearCompatibility
  PROVE  SnapshotInv'
<1>1. /\ IsRun(run)' /\ run'.at = "copy" /\ run'.request = run.request
      /\ run'.planned = run.planned /\ run'.files = run.files
  BY RunProceeds DEF SnapshotInv, ClearCompatibility, Clear, IsRun, Running, Ended
<1>2. StillChecked'
  BY <1>1, SameSource DEF ClearCompatibility, Clear, SnapshotInv, history, StillChecked,
                          Running
<1>3. DOMAIN tree = {f \in DOMAIN tree : f[1] = "compatibility"}
  BY DEF ClearCompatibility, SnapshotInv, TreeIsTheCopy, Areas
<1>4. IsFileMap(tree)' /\ DOMAIN tree' = {}
  BY <1>3, FilesRemoved DEF ClearCompatibility, Clear
<1>5. tree' = NoFiles /\ run.files = NoFiles /\ DOMAIN NoFiles = {}
  BY <1>4 DEF ClearCompatibility, SnapshotInv, IsRun, IsFileMap, NoFiles
<1>6. TreeIsTheCopy'
  BY <1>1, <1>5 DEF ClearCompatibility, SnapshotInv, TreeIsTheCopy
<1>7. NothingDeleted' /\ SuccessIsComplete' /\ ManifestIsOneRelease'
  BY <1>1 DEF ClearCompatibility, Clear, SnapshotInv, history, NothingDeleted,
              RefusalTouchesNothing, SuccessIsComplete, ManifestIsOneRelease, Checking, Running
<1> QED BY <1>1, <1>2, <1>4, <1>6, <1>7 DEF ClearCompatibility, Clear, SnapshotInv

\* The first of the planned files, and the others.
LEMMA HeadAndTail ==
  ASSUME NEW S, NEW p \in Seq(S), p # <<>>
  PROVE  Head(p) \in S /\ Tail(p) \in Seq(S) /\ Range(p) = {Head(p)} \cup Range(Tail(p))
<1>1. /\ Head(p) \in S /\ Tail(p) \in Seq(S) /\ Head(p) = p[1] /\ 1 \in DOMAIN p
      /\ DOMAIN p = 1 .. Len(p) /\ DOMAIN Tail(p) = 1 .. Len(p) - 1 /\ Len(p) \in Nat
      /\ \A i \in 1 .. Len(p) - 1 : Tail(p)[i] = p[i + 1]
  OBVIOUS
<1>2. Range(p) \subseteq {Head(p)} \cup Range(Tail(p))
  <2> SUFFICES ASSUME NEW i \in DOMAIN p PROVE p[i] \in {Head(p)} \cup Range(Tail(p))
    BY DEF Range
  <2>1. CASE i = 1
    BY <1>1, <2>1
  <2>2. CASE i # 1
    <3>1. i - 1 \in DOMAIN Tail(p) /\ Tail(p)[i - 1] = p[i]
      BY <1>1, <2>2
    <3> QED BY <3>1 DEF Range
  <2> QED BY <2>1, <2>2
<1>3. {Head(p)} \cup Range(Tail(p)) \subseteq Range(p)
  <2>1. Head(p) \in Range(p)
    BY <1>1 DEF Range
  <2>2. ASSUME NEW i \in DOMAIN Tail(p) PROVE Tail(p)[i] \in Range(p)
    <3>1. i + 1 \in DOMAIN p /\ Tail(p)[i] = p[i + 1]
      BY <1>1
    <3> QED BY <3>1 DEF Range
  <2> QED BY <2>1, <2>2 DEF Range
<1> QED BY <1>1, <1>2, <1>3

LEMMA CopyKeepsSnapshotInv ==
  ASSUME SnapshotInv, Copy
  PROVE  SnapshotInv'
<1> DEFINE h == Head(run.planned)
<1>1. /\ run.planned \in Seq(Range(Approved)) /\ h \in Range(Approved)
      /\ Tail(run.planned) \in Seq(Range(Approved))
      /\ Range(run.planned) = {h} \cup Range(Tail(run.planned))
  BY HeadAndTail DEF Copy, SnapshotInv, IsRun
<1>2. PICK a, q, p, f, c : run = [at |-> a, request |-> q, planned |-> p, files |-> f,
                                 capturedAt |-> c]
  BY DEF SnapshotInv, IsRun
<1>3. run' = [at |-> "copy", request |-> run.request, planned |-> Tail(run.planned),
              files |-> With(run.files, h, tree'[h]), capturedAt |-> run.capturedAt]
  BY <1>2 DEF Copy, Copied
<1>4. IsRun(run)'
  <2>1. run'.files = With(run.files, h, tree'[h])
    BY <1>3
  <2>2. IsFileMap(run'.files)
    BY <2>1 DEF IsFileMap, With
  <2> QED BY <1>1, <1>3, <2>2 DEF Copy, SnapshotInv, IsRun, Checking, Running
<1>5. StillChecked'
  BY <1>3, SameSource DEF Copy, SnapshotInv, history, StillChecked, Running
<1>6. /\ tree' = With(tree, h, source.files[h]) /\ h \in DOMAIN source.files
      /\ run'.files = With(run.files, h, tree'[h]) /\ run'.planned = Tail(run.planned)
      /\ linked' = linked /\ (linked = {} => tree = run.files)
      /\ \A g \in DOMAIN tree : g[1] \in Areas /\ DirectoryOf(g) \notin linked
      /\ DirectoryOf(h) \notin linked
      /\ Range(Approved) = DOMAIN run.files \cup Range(run.planned)
      /\ source' = source /\ disturbed' = disturbed
      /\ ~disturbed => \A g \in DOMAIN run.files : /\ g \in DOMAIN source.files
                                                  /\ run.files[g] = source.files[g]
  BY <1>3 DEF Copy, SnapshotInv, history, TreeIsTheCopy, MeetsLink
<1> HIDE DEF h
<1>7. /\ linked' = {} => tree' = run'.files
      /\ DOMAIN run'.files = DOMAIN run.files \cup {h}
      /\ run'.files[h] = source.files[h]
      /\ \A g \in DOMAIN run.files \ {h} : run'.files[g] = run.files[g]
  <2>1. tree'[h] = source.files[h]
    BY <1>6 DEF With
  <2> QED BY <1>6, <2>1 DEF With
<1>8. TreeIsTheCopy'
  <2>1. \A g \in DOMAIN tree' : g[1] \in Areas /\ DirectoryOf(g) \notin linked'
    BY <1>1, <1>6, FileWritten, ApprovedAssumption
  <2>2. Range(Approved) = DOMAIN run'.files \cup Range(run'.planned)
    BY <1>1, <1>6, <1>7
  <2>3. ~disturbed' => \A g \in DOMAIN run'.files : /\ g \in DOMAIN source'.files
                                                   /\ run'.files[g] = source'.files[g]
    BY <1>6, <1>7
  <2> QED BY <1>3, <1>7, <2>1, <2>2, <2>3 DEF TreeIsTheCopy
<1>9. IsFileMap(tree)'
  BY <1>6, FileWritten
<1>10. NothingDeleted' /\ SuccessIsComplete' /\ ManifestIsOneRelease'
  BY <1>3 DEF Copy, SnapshotInv, history, NothingDeleted, RefusalTouchesNothing,
              SuccessIsComplete, ManifestIsOneRelease, Checking, Running
<1> QED BY <1>4, <1>5, <1>8, <1>9, <1>10 DEF Copy, SnapshotInv

\* A link where the next file should go: the one refusal after the deletion.
LEMMA CopyMeetsLinkKeepsSnapshotInv ==
  ASSUME SnapshotInv, CopyMeetsLink
  PROVE  SnapshotInv'
<1>1. /\ IsRun(run)' /\ run'.at = "refused" /\ run'.planned = run.planned
  BY RunProceeds
  DEF CopyMeetsLink, SnapshotInv, Refuse, Proceed, IsRun, Checking, Running, Ended
<1>2. NothingDeleted' /\ StillChecked' /\ SuccessIsComplete'
  BY <1>1 DEF CopyMeetsLink, SnapshotInv, history, NothingDeleted, RefusalTouchesNothing,
              MeetsLink, StillChecked, SuccessIsComplete, Checking, Running
<1>3. TreeIsTheCopy' /\ ManifestIsOneRelease'
  BY <1>1 DEF CopyMeetsLink, SnapshotInv, history, TreeIsTheCopy, ManifestIsOneRelease,
              Running
<1> QED BY <1>1, <1>2, <1>3 DEF CopyMeetsLink, SnapshotInv, history, IsFileMap

\* A run that fails leaves a part of its work, and a manifest that is the one
\* of before or cannot be read.
LEMMA FailingKeepsSnapshotInv ==
  ASSUME SnapshotInv, run.at \in Running, Proceed("failed"), UNCHANGED <<source, switched>>,
         manifest' \in {manifest, Unreadable}, IsFileMap(tree)',
         \A f \in DOMAIN tree' : f[1] \in Areas /\ DirectoryOf(f) \notin linked'
  PROVE  SnapshotInv'
<1>1. IsRun(run)' /\ run'.at = "failed"
  BY RunProceeds DEF SnapshotInv, IsRun, Checking, Running, Ended
<1>2. NothingDeleted' /\ StillChecked' /\ TreeIsTheCopy' /\ SuccessIsComplete'
  BY <1>1 DEF NothingDeleted, RefusalTouchesNothing, StillChecked, TreeIsTheCopy,
              SuccessIsComplete, Checking, Running
<1>3. ManifestIsOneRelease'
  BY <1>1 DEF SnapshotInv, ManifestIsOneRelease, Running, Unreadable
<1> QED BY <1>1, <1>2, <1>3 DEF SnapshotInv

LEMMA CopyFindsNothingKeepsSnapshotInv ==
  ASSUME SnapshotInv, CopyFindsNothing
  PROVE  SnapshotInv'
<1>1. /\ run.at \in Running /\ IsFileMap(tree)'
      /\ \A f \in DOMAIN tree' : f[1] \in Areas /\ DirectoryOf(f) \notin linked'
  BY DEF CopyFindsNothing, SnapshotInv, TreeIsTheCopy, IsFileMap, Running
<1> QED BY <1>1, FailingKeepsSnapshotInv DEF CopyFindsNothing, history

\* A source that declares a release and holds exactly the approved files gives a
\* complete copy of that release.
LEMMA CopiedRelease ==
  ASSUME SnapshotInv, run.at = "copy", run.planned = <<>>, ~disturbed
  PROVE  run.files = Published[run.request.release]
<1> DEFINE rel == run.request.release
<1>1. DOMAIN run.files = Range(Approved) /\ IsFileMap(run.files)
  BY DEF SnapshotInv, TreeIsTheCopy, IsRun, Range
<1>2. source.version = rel /\ Vendorable(source)
  BY DEF SnapshotInv, StillChecked, ReleaseMatches, Running
<1>3. rel \in Releases
  BY <1>2, SourcesAssumption, RequestsAssumption DEF SnapshotInv, IsRun, IsSource
<1>4. DOMAIN Published[rel] = Range(Approved) /\ IsFileMap(Published[rel])
  BY <1>2, <1>3, CheckoutsAssumption, PublishedAssumption DEF SnapshotInv
<1>5. \A f \in DOMAIN run.files : f \in DOMAIN source.files /\ run.files[f] = source.files[f]
  BY DEF SnapshotInv, TreeIsTheCopy
<1>6. \A f \in DOMAIN run.files : run.files[f] = Published[rel][f]
  BY <1>1, <1>2, <1>3, <1>4, <1>5, CheckoutsAssumption DEF SnapshotInv
<1> QED BY <1>1, <1>4, <1>6 DEF IsFileMap

LEMMA WriteManifestKeepsSnapshotInv ==
  ASSUME SnapshotInv, WriteManifest
  PROVE  SnapshotInv'
<1>1. /\ IsRun(run)' /\ run'.at = "done" /\ run'.request = run.request
      /\ run'.planned = run.planned /\ run'.files = run.files
  BY RunProceeds DEF SnapshotInv, WriteManifest, IsRun, Checking, Running, Ended
<1>2. /\ manifest'.readable /\ manifest'.release = run.request.release
      /\ manifest'.files = run.files /\ (linked = {} => run.files = tree)
  BY DEF WriteManifest, SnapshotInv, TreeIsTheCopy
<1>3. DOMAIN run.files = Range(Approved)
  BY DEF WriteManifest, SnapshotInv, TreeIsTheCopy, Range
<1>4. ~disturbed => run.files = Published[run.request.release]
  BY CopiedRelease DEF WriteManifest
<1>5. SuccessIsComplete'
  BY <1>1, <1>2, <1>3, <1>4 DEF WriteManifest, history, SuccessIsComplete, IntegrityPasses
<1>6. ManifestIsOneRelease'
  BY <1>1, <1>2, <1>4 DEF WriteManifest, SnapshotInv, history, ManifestIsOneRelease, Running
<1>7. NothingDeleted' /\ StillChecked' /\ TreeIsTheCopy'
  BY <1>1 DEF WriteManifest, SnapshotInv, NothingDeleted, RefusalTouchesNothing,
              StillChecked, TreeIsTheCopy, Checking, Running
<1> QED BY <1>1, <1>5, <1>6, <1>7 DEF WriteManifest, SnapshotInv, IsFileMap

LEMMA InterruptedKeepsSnapshotInv ==
  ASSUME SnapshotInv, Interrupted
  PROVE  SnapshotInv'
<1>1. /\ IsFileMap(tree)
      /\ \A f \in DOMAIN tree : f[1] \in Areas /\ DirectoryOf(f) \notin linked
  BY DEF SnapshotInv, TreeIsTheCopy
<1>2. /\ manifest' \in {manifest, Unreadable} /\ IsFileMap(tree)'
      /\ \A f \in DOMAIN tree' : f[1] \in Areas /\ DirectoryOf(f) \notin linked'
  <2>1. CASE UNCHANGED <<tree, linked, manifest>>
    BY <1>1, <2>1 DEF IsFileMap
  <2>2. CASE PartOfClear("schemas") \/ PartOfClear("compatibility")
    <3>1. PICK gone : tree' = Without(tree, gone)
      BY <2>2 DEF PartOfClear
    <3>2. IsFileMap(tree)' /\ DOMAIN tree' \subseteq DOMAIN tree
      BY <3>1, FilesRemoved
    <3>3. linked' \subseteq linked
      BY <2>2 DEF PartOfClear, LinksOutside
    <3> QED BY <1>1, <2>2, <3>2, <3>3 DEF PartOfClear
  <2>3. CASE run.at = "copy" /\ PartOfCopy
    <3>1. Head(run.planned) \in Range(Approved)
      BY <2>3, HeadAndTail DEF PartOfCopy, SnapshotInv, IsRun
    <3>2. CASE tree' = tree
      BY <1>1, <2>3, <3>2 DEF PartOfCopy, IsFileMap
    <3>3. CASE ~MeetsLink /\ tree' = With(tree, Head(run.planned), Torn)
      <4>1. IsFileMap(tree)' /\ DOMAIN tree' = DOMAIN tree \cup {Head(run.planned)}
        BY <3>3, FileWritten
      <4>2. DirectoryOf(Head(run.planned)) \notin linked /\ linked' = linked
        BY <2>3, <3>3 DEF PartOfCopy, MeetsLink
      <4>3. manifest' = manifest
        BY <2>3 DEF PartOfCopy
      <4> QED BY <1>1, <3>1, <4>1, <4>2, <4>3, ApprovedAssumption
    <3> QED BY <2>3, <3>2, <3>3 DEF PartOfCopy
  <2>4. CASE PartOfManifest
    BY <1>1, <2>4 DEF PartOfManifest, IsFileMap
  <2> QED BY <2>1, <2>2, <2>3, <2>4 DEF Interrupted
<1> QED BY <1>2, FailingKeepsSnapshotInv DEF Interrupted

\* A link hides files, and neither what has been copied nor what is still planned.
LEMMA LinkDestinationKeepsSnapshotInv ==
  ASSUME SnapshotInv, LinkDestination
  PROVE  SnapshotInv'
<1>1. PICK d : /\ linked' = linked \cup {d}
               /\ tree' = Without(tree, {f \in DOMAIN tree : DirectoryOf(f) = d})
  BY DEF LinkDestination
<1>2. /\ IsFileMap(tree)' /\ linked' # {}
      /\ DOMAIN tree' = DOMAIN tree \ {f \in DOMAIN tree : DirectoryOf(f) = d}
  BY <1>1, FilesRemoved
<1>3. run' = run /\ run.at = "copy" /\ source' = source /\ IsRun(run)'
  BY DEF LinkDestination, SnapshotInv, IsRun
<1>4. NothingDeleted' /\ SuccessIsComplete' /\ ManifestIsOneRelease'
  BY <1>3 DEF LinkDestination, SnapshotInv, history, NothingDeleted, RefusalTouchesNothing,
              SuccessIsComplete, ManifestIsOneRelease, Checking
<1>5. StillChecked'
  BY <1>3, SameSource DEF LinkDestination, SnapshotInv, history, StillChecked
<1>6. TreeIsTheCopy'
  BY <1>1, <1>2, <1>3 DEF LinkDestination, SnapshotInv, history, TreeIsTheCopy
<1> QED BY <1>2, <1>3, <1>4, <1>5, <1>6 DEF SnapshotInv

\* A switch under a running refresh is a disturbance, and one between two is none.
LEMMA SwitchSourceKeepsSnapshotInv ==
  ASSUME SnapshotInv, SwitchSource
  PROVE  SnapshotInv'
<1>1. source' \in Sources /\ IsFileMap(tree)' /\ IsRun(run)'
  BY DEF SwitchSource, SnapshotInv, IsFileMap, IsRun
<1>2. NothingDeleted' /\ ManifestIsOneRelease' /\ SuccessIsComplete'
  BY DEF SwitchSource, SnapshotInv, NothingDeleted, RefusalTouchesNothing, MeetsLink,
         ManifestIsOneRelease, SuccessIsComplete, IntegrityPasses, Running
<1>3. StillChecked'
  BY DEF SwitchSource, StillChecked
<1>4. TreeIsTheCopy'
  BY DEF SwitchSource, SnapshotInv, TreeIsTheCopy, Running
<1> QED BY <1>1, <1>2, <1>3, <1>4 DEF SnapshotInv
-----------------------------------------------------------------------------
\* The invariant on every step.
LEMMA SnapshotInvStep == SnapshotInv /\ [Next]_vars => SnapshotInv'
<1> SUFFICES ASSUME SnapshotInv, [Next]_vars PROVE SnapshotInv'
  OBVIOUS
<1>1. CASE Start
  BY <1>1, StartKeepsSnapshotInv
<1>2. CASE Step
  BY <1>2, ValidateKeepsSnapshotInv, PlanSchemasKeepsSnapshotInv,
     PlanCompatibilityKeepsSnapshotInv, ResolveKeepsSnapshotInv, ClearSchemasKeepsSnapshotInv,
     ClearCompatibilityKeepsSnapshotInv, CopyKeepsSnapshotInv,
     CopyMeetsLinkKeepsSnapshotInv, CopyFindsNothingKeepsSnapshotInv,
     WriteManifestKeepsSnapshotInv
  DEF Step
<1>3. CASE Interrupted
  BY <1>3, InterruptedKeepsSnapshotInv
<1>4. CASE SwitchSource
  BY <1>4, SwitchSourceKeepsSnapshotInv
<1>5. CASE LinkDestination
  BY <1>5, LinkDestinationKeepsSnapshotInv
<1>6. CASE UNCHANGED vars
  <2>1. IsFileMap(tree)' /\ IsRun(run)' /\ NothingDeleted' /\ SuccessIsComplete'
    BY <1>6 DEF vars, SnapshotInv, IsFileMap, IsRun, NothingDeleted, RefusalTouchesNothing,
                MeetsLink, SuccessIsComplete, IntegrityPasses
  <2>2. StillChecked'
    BY <1>6, SameSource DEF vars, SnapshotInv, StillChecked
  <2>3. TreeIsTheCopy' /\ ManifestIsOneRelease'
    BY <1>6 DEF vars, SnapshotInv, TreeIsTheCopy, ManifestIsOneRelease
  <2> QED BY <1>6, <2>1, <2>2, <2>3 DEF vars, SnapshotInv
<1> QED BY <1>1, <1>2, <1>3, <1>4, <1>5, <1>6 DEF Next

(***************************************************************************)
(* What a refresh has checked, deleted and copied at each of its steps,    *)
(* whatever interrupts it and whoever switches the source (lines 501-545). *)
(***************************************************************************)
THEOREM SnapshotInvariant == Spec => []SnapshotInv
<1> QED BY SnapshotInvInit, SnapshotInvStep, PTL DEF Spec

(***************************************************************************)
(* A refresh that refuses its arguments or its source has not touched the  *)
(* destination (lines 520-537); one that meets a link has left the         *)
(* manifest alone (lines 436-440).                                         *)
(***************************************************************************)
THEOREM RefusalsTouchNothing == Spec => []RefusalTouchesNothing
<1>1. SnapshotInv => RefusalTouchesNothing
  BY DEF SnapshotInv, NothingDeleted, RefusalTouchesNothing
<1> QED BY <1>1, SnapshotInvariant, PTL

(***************************************************************************)
(* A refresh that reports success leaves a complete snapshot, and the      *)
(* asked release's if nothing disturbed it (lines 432-444).                *)
(***************************************************************************)
THEOREM SuccessesAreComplete == Spec => []SuccessIsComplete
<1>1. SnapshotInv => SuccessIsComplete
  BY DEF SnapshotInv
<1> QED BY <1>1, SnapshotInvariant, PTL

(***************************************************************************)
(* A destination that passes the integrity test holds exactly one          *)
(* release, whatever was interrupted (lines 537-545).                      *)
(***************************************************************************)
THEOREM VerifiedTreesAreOneRelease == Spec => []VerifiedTreeIsOneRelease
<1>1. SnapshotInv => VerifiedTreeIsOneRelease
  BY DEF SnapshotInv, ManifestIsOneRelease, VerifiedTreeIsOneRelease, IntegrityPasses
<1> QED BY <1>1, SnapshotInvariant, PTL
=============================================================================
