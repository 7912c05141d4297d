-------------------------- MODULE MCSnapshotUpdate ---------------------------
(***************************************************************************)
(* A TLC instance of SnapshotUpdate: one contract and one scenario of two  *)
(* artifacts.  v1 and v2 share the contract and one artifact and differ in *)
(* the other, as the releases in the repository do; v0 also has a contract *)
(* that is no longer vendored.                                             *)
(***************************************************************************)
EXTENDS SnapshotUpdate, TLC

CONSTANTS v0, v1, v2, old, same, new, gone, sha

Rule == <<"schemas", "rule", "rule">>
Stale == <<"schemas", "stale", "stale">>
Action == <<"schemas", "action", "action">>
Input == <<"compatibility", "basic", "input">>
Expected == <<"compatibility", "basic", "expected">>

MCApproved == <<Rule, Input, Expected>>
MCExcluded == {DirectoryOf(Action)}

Files0 == (Rule :> same) @@ (Stale :> gone) @@ (Input :> same) @@ (Expected :> old)
Files1 == (Rule :> same) @@ (Input :> same) @@ (Expected :> old)
Files2 == (Rule :> same) @@ (Input :> same) @@ (Expected :> new)
MCPublished == (v0 :> Files0) @@ (v1 :> Files1) @@ (v2 :> Files2)

Checkout(v, files) ==
  [version |-> v, initVersion |-> v, files |-> files, links |-> {}, git |-> TRUE,
   directories |-> {DirectoryOf(f) : f \in DOMAIN files}]

Good1 == Checkout(v1, Files1 @@ (Action :> same))
Good2 == [Checkout(v2, Files2) EXCEPT !.initVersion = Absent, !.git = FALSE]
WrongInit == [Checkout(v2, Files2) EXCEPT !.initVersion = v1]
NoScenarioFile == Checkout(v2, Without(Files2, {Input}))
ExtraContract == Checkout(v2, Files2 @@ (Stale :> new))
Linked == [Checkout(v2, Files2) EXCEPT !.links = {Expected}]
MCSources == {Good1, Good2, WrongInit, NoScenarioFile, ExtraContract, Linked}

Ask(v) == [release |-> v, commit |-> sha, capturedAt |-> Absent, wellFormed |-> TRUE]
Ask1 == Ask(v1)
Ask2 == [Ask(v2) EXCEPT !.capturedAt = [by |-> "user"]]
Malformed == [Ask(v2) EXCEPT !.wellFormed = FALSE]
MCRequests == {Ask1, Ask2, Malformed}

Empty == [tree |-> NoFiles, manifest |-> Unreadable]
VendoredV0 ==
  [tree |-> Files0,
   manifest |-> [readable |-> TRUE, release |-> v0, commit |-> sha,
                 capturedAt |-> [by |-> "user"], files |-> Files0]]
MCDestinations == {Empty, VendoredV0}

Terminated == run.at \in Ended /\ runs = MaxRuns /\ switches = MaxSwitches /\ UNCHANGED vars

MCSpec == Init /\ [][Next \/ Terminated]_vars /\ Fairness
=============================================================================
