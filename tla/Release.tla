------------------------------ MODULE Release -------------------------------
(***************************************************************************)
(* The release pipeline, .github/workflows/release.yml: what runs of it do *)
(* to the tag, the release branch and the published assets of one version. *)
(*                                                                         *)
(* A consumer resolves the tag, and downloads the asset that Package.swift *)
(* on that commit names and pins by checksum.  Tag and assets are written  *)
(* by separate steps, a run may die between any two of them, and any run   *)
(* that has ended, the last or an earlier one, may be run again, wholly or *)
(* from its publish job on.  Builds are reproducible or they are not: a    *)
(* rebuild of a commit always gives the checksum it had before, or always  *)
(* a new one.                                                              *)
(*                                                                         *)
(* gh is external: "release create" makes a draft, uploads the assets to   *)
(* it and publishes it, "release view" and "release upload" take a draft   *)
(* for a release, and "--clobber" deletes an asset before it uploads it.   *)
(***************************************************************************)
EXTENDS Naturals, Sequences

CONSTANTS
  None,
  Commit,        \* source commits
  Green,         \* those that pass the checks
  MaxRuns,       \* bound: pushes of the tag
  MaxIncidents   \* bound: runs that die, and reruns that nothing called for

ASSUME ReleaseAssumption ==
  /\ Green \subseteq Commit
  /\ None \notin Commit \cup Nat \cup [{"tgz", "zip"} -> Nat \cup {None}]
                 \cup [source : Commit, pin : Nat \cup {None}]
  /\ MaxRuns \in Nat /\ MaxIncidents \in Nat

VARIABLES
  tag,        \* the commit of the tag: its source, and the checksum pinned there
  branch,     \* that of the branch release/<tag>
  release,    \* per asset, the build it is from, or None; None if there is no release
  draft,      \* it is no draft, one that a run is "making", or one "left" by a dead run
  runs,       \* the runs, in the order the tag was pushed
  built,      \* per build, the source it is of
  reproducible,
  disturbed,    \* history: since the tag was last pushed, with no run in progress,
                \* two runs have overlapped or an earlier run was run again
  incidents

vars == <<tag, branch, release, draft, runs, built, reproducible, disturbed, incidents>>

\* What only the start of a run and an incident change.
events == <<reproducible, disturbed, incidents>>

-----------------------------------------------------------------------------
\* Each stands for itself and its .sha256.
Asset == {"tgz", "zip"}

Stage ==
  {"check", "build", "pin", "push_branch", "move_tag", "publish", "create",
   "fill", "announce", "upload", "done", "failed"}

Run == DOMAIN runs

Active(r) == runs[r].at \notin {"done", "failed"}

Resting == \A r \in Run : ~Active(r)

Latest == runs[Len(runs)]

Init ==
  /\ tag = None
  /\ branch = None
  /\ release = None /\ draft = "no"
  /\ runs = <<>>
  /\ built = <<>>
  /\ reproducible \in BOOLEAN
  /\ disturbed = FALSE
  /\ incidents = 0

Goto(r, at) == runs' = [runs EXCEPT ![r].at = at]

\* Mutant: the outcome of the checks holds nothing up.
CheckIgnored(r) ==
  /\ runs[r].at = "check"
  /\ Goto(r, "build")
  /\ UNCHANGED <<tag, branch, release, draft, built, events>>

Check(r) ==
  /\ runs[r].at = "check"
  /\ Goto(r, IF runs[r].from.source \in Green THEN "build" ELSE "failed")
  /\ UNCHANGED <<tag, branch, release, draft, built, events>>

\* The jobs wasm and xcframework.
Build(r) ==
  /\ runs[r].at = "build"
  /\ LET source == runs[r].from.source
         before == {n \in DOMAIN built : reproducible /\ built[n] = source}
     IN  \E b \in IF before = {} THEN {Len(built) + 1} ELSE before :
           /\ built' = IF b \in before THEN built ELSE Append(built, source)
           /\ runs' = [runs EXCEPT ![r].at = "pin", ![r].build = b]
  /\ UNCHANGED <<tag, branch, release, draft, events>>

\* Mutant: replaces the path of a development checkout only.
PinUnpinnedOnly(r) ==
  /\ runs[r].at = "pin"
  /\ LET from   == runs[r].from
         pinned == [source |-> from.source,
                    pin |-> IF from.pin = None THEN runs[r].build ELSE from.pin]
     IN  runs' = [runs EXCEPT
           ![r].commit = pinned,
           ![r].at = IF pinned = from THEN "publish" ELSE "push_branch"]
  /\ UNCHANGED <<tag, branch, release, draft, built, events>>

\* Mutant: commits on the release branch as it finds it.
PinOnOldBranch(r) ==
  /\ runs[r].at = "pin"
  /\ LET source == IF branch = None THEN runs[r].from.source ELSE branch.source
         pinned == [source |-> source, pin |-> runs[r].build]
     IN  runs' = [runs EXCEPT
           ![r].commit = pinned,
           ![r].at = IF pinned = runs[r].from THEN "publish" ELSE "push_branch"]
  /\ UNCHANGED <<tag, branch, release, draft, built, events>>

\* Rewrites Package.swift, pinned or not, on a branch reset to the checkout;
\* if that changes nothing, the tag is where it should be.
Pin(r) ==
  /\ runs[r].at = "pin"
  /\ LET pinned == [source |-> runs[r].from.source, pin |-> runs[r].build]
     IN  runs' = [runs EXCEPT
           ![r].commit = pinned,
           ![r].at = IF pinned = runs[r].from THEN "publish" ELSE "push_branch"]
  /\ UNCHANGED <<tag, branch, release, draft, built, events>>

PushBranch(r) ==
  /\ runs[r].at = "push_branch"
  /\ branch' = runs[r].commit
  /\ Goto(r, "move_tag")
  /\ UNCHANGED <<tag, release, draft, built, events>>

MoveTag(r) ==
  /\ runs[r].at = "move_tag"
  /\ tag' = runs[r].commit
  /\ Goto(r, "publish")
  /\ UNCHANGED <<branch, release, draft, built, events>>

\* Mutant: does not look whether there is a release.
PublishCreates(r) ==
  /\ runs[r].at = "publish"
  /\ Goto(r, "create")
  /\ UNCHANGED <<tag, branch, release, draft, built, events>>

Publish(r) ==
  /\ runs[r].at = "publish"
  /\ runs' = [runs EXCEPT ![r].at = IF release = None THEN "create" ELSE "upload",
                          ![r].todo = Asset]
  /\ UNCHANGED <<tag, branch, release, draft, built, events>>

\* Mutant: leaves out the npm tarball.
CreateBare(r) ==
  /\ runs[r].at = "create"
  /\ release' = [a \in {"zip"} |-> None]
  /\ draft' = "making"
  /\ Goto(r, "fill")
  /\ UNCHANGED <<tag, branch, built, events>>

\* gh release create makes an empty draft, and fails if there is a release by now.
Create(r) ==
  /\ runs[r].at = "create"
  /\ \/ /\ release = None
        /\ release' = [a \in Asset |-> None]
        /\ draft' = "making"
        /\ Goto(r, "fill")
     \/ /\ release # None
        /\ Goto(r, "failed")
        /\ UNCHANGED <<release, draft>>
  /\ UNCHANGED <<tag, branch, built, events>>

\* gh release create or upload: one asset after the other.
Upload(r) ==
  /\ runs[r].at \in {"fill", "upload"}
  /\ \E a \in runs[r].todo :
       /\ release' = [release EXCEPT ![a] = runs[r].build]
       /\ runs' = [runs EXCEPT
            ![r].todo = @ \ {a},
            ![r].at = IF runs[r].todo # {a} THEN @
                      ELSE IF @ = "fill" THEN "announce" ELSE "done"]
  /\ UNCHANGED <<tag, branch, draft, built, events>>

\* gh release create publishes the draft it made.
Announce(r) ==
  /\ runs[r].at = "announce"
  /\ draft' = "no"
  /\ Goto(r, "done")
  /\ UNCHANGED <<tag, branch, release, built, events>>

Step(r) ==
  \/ Check(r) \/ Build(r) \/ Pin(r) \/ PushBranch(r) \/ MoveTag(r)
  \/ Publish(r) \/ Create(r) \/ Upload(r) \/ Announce(r)

-----------------------------------------------------------------------------
(* Maintainers and GitHub (external).                                      *)

\* The tag is pushed, on a source commit or on the release branch.  No run waits
\* for another: there is no concurrency group.
PushTag(c) ==
  /\ Len(runs) < MaxRuns
  /\ disturbed' = ~Resting
  /\ tag' = c
  /\ runs' = Append(runs, [from |-> c, at |-> "check", build |-> None,
                           commit |-> None, todo |-> {}])
  /\ UNCHANGED <<branch, release, draft, built, reproducible, incidents>>

\* A run dies, or a step of it fails: a draft it was making stays, and of the
\* assets it was replacing some may be deleted and not uploaded yet.
Die(r) ==
  /\ Active(r)
  /\ incidents < MaxIncidents
  /\ incidents' = incidents + 1
  /\ Goto(r, "failed")
  /\ draft' = IF runs[r].at \in {"fill", "announce"} THEN "left" ELSE draft
  /\ \E gone \in SUBSET (IF runs[r].at = "upload" THEN runs[r].todo ELSE {}) :
       release' = IF gone = {} THEN release
                  ELSE [a \in DOMAIN release |-> IF a \in gone THEN None ELSE release[a]]
  /\ UNCHANGED <<tag, branch, built, reproducible, disturbed>>

\* All jobs again, or those that failed: the builds are kept then.  A rerun
\* checks out the commit the run began with.
Again(r) ==
  /\ disturbed' = (disturbed \/ ~Resting \/ r # Len(runs))
  /\ \/ Goto(r, "check")
     \/ runs[r].build # None /\ Goto(r, "pin")
  /\ UNCHANGED <<tag, branch, release, draft, built, reproducible>>

\* The last run failed, and is run again.
Rerun(r) ==
  /\ r = Len(runs)
  /\ runs[r].at = "failed"
  /\ Again(r)
  /\ UNCHANGED incidents

\* Any run that has ended is run again, whether it failed or not.
RerunAny(r) ==
  /\ ~Active(r)
  /\ incidents < MaxIncidents
  /\ incidents' = incidents + 1
  /\ Again(r)

Taggable ==
  [source : Commit, pin : {None}] \cup (IF branch = None THEN {} ELSE {branch})

Next ==
  \/ \E c \in Taggable : PushTag(c)
  \/ \E r \in Run : Step(r) \/ Die(r) \/ Rerun(r) \/ RerunAny(r)

Spec == Init /\ [][Next]_vars

\* Runs proceed, and maintainers run the last one again when it has failed.
Fairness ==
  /\ WF_vars(\E r \in Run : Step(r))
  /\ WF_vars(\E r \in Run : Rerun(r))

FairSpec == Spec /\ Fairness
=============================================================================
