------------------------- MODULE ReleaseProperties --------------------------
(* What must hold of Release.                                              *)
EXTENDS Release

CommitOf == [source : Commit, pin : DOMAIN built \cup {None}]

\* Type invariant.
TypeOK ==
  /\ {tag, branch} \subseteq CommitOf \cup {None}
  /\ release # None => release \in [Asset -> DOMAIN built \cup {None}]
  /\ draft \in {"no", "making", "left"}
  /\ \A r \in Run :
       /\ runs[r].from \in CommitOf
       /\ runs[r].at \in Stage
       /\ runs[r].build \in DOMAIN built \cup {None}
       /\ runs[r].commit \in CommitOf \cup {None}
       /\ runs[r].todo \subseteq Asset
  /\ built \in Seq(Commit)
  /\ incidents \in 0 .. MaxIncidents

\* Nothing is in progress, and the last run went well.
Settled == Resting /\ runs # <<>> /\ Latest.at = "done"

Pinned ==
  /\ release # None
  /\ \A a \in Asset : release[a] = tag.pin

\* "The tag has to end up on a commit whose Package.swift points at the
\* uploaded zip" (release.yml): when the run of the last push has finished, after
\* whatever died and was run again before it, the tag pins the checksum of the
\* very zip that was uploaded, and every asset is of that build.  Provided that,
\* since that push, no two runs have overlapped and no earlier run was run again;
\* what was disturbed before it does no harm.  And a release that a run creates
\* it publishes too: only one that a run died over is still a draft.
TagPinsTheAsset == Settled => draft # "making" /\ (~disturbed => Pinned)

\* The same without the proviso, when every run has finished.
TagAlwaysPinsTheAsset ==
  Settled /\ (\A r \in Run : runs[r].at = "done") => Pinned

\* "A tag must not be able to ship a red commit": what is published, or pinned
\* by the tag, was built from a commit that passed the checks.
NoRedRelease ==
  /\ release # None =>
       \A a \in DOMAIN release : release[a] # None => built[release[a]] \in Green
  /\ tag # None /\ tag.pin # None => tag.source \in Green

\* A run moves the tag onto a commit that adds the pin to the tagged source,
\* never onto another source.  Provided that, since the last push, no two runs
\* have overlapped and no earlier run was run again: that run would move the tag
\* back to its own source.
TagKeepsItsSource ==
  [][tag # None /\ tag'.source # tag.source /\ ~disturbed =>
       Len(runs') > Len(runs)]_vars

LatestGreen == runs # <<>> /\ Latest.from.source \in Green

\* However often the last run dies, on a green commit, running it again completes
\* it, whatever earlier runs do meanwhile.  Complete is not public: a draft that a
\* dead run left is filled, and stays a draft.
RerunCompletes == LatestGreen ~> Settled \/ ~LatestGreen
=============================================================================
