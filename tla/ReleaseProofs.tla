---------------------------- MODULE ReleaseProofs ----------------------------
(***************************************************************************)
(* Theorems about Release, for any commits, pushes of the tag, runs that   *)
(* die and reruns.                                                         *)
(***************************************************************************)
EXTENDS ReleaseProperties, SequenceTheorems, TLAPS

Pins == Nat \cup {None}

Commits == [source : Commit, pin : Pins]

RunRecord ==
  [from : Commits, at : Stage, build : Pins, commit : Commits \cup {None},
   todo : SUBSET Asset]

\* A commit with a checksum is green.
GreenIfPinned(c) == c \in CommitOf /\ (c.pin # None => c.source \in Green)

ReleaseGreen ==
  /\ release \in [Asset -> DOMAIN built \cup {None}]
  /\ \A a \in Asset : release[a] # None => built[release[a]] \in Green

\* What a run has built and committed is of the green commit it began with.
RunSound(run) ==
  /\ GreenIfPinned(run.from)
  /\ run.build \in DOMAIN built \cup {None}
  /\ run.build # None => built[run.build] = run.from.source /\ run.from.source \in Green
  /\ run.at = "build" => run.from.source \in Green
  /\ run.at \in {"pin", "push_branch", "move_tag", "publish", "create", "fill",
                "announce", "upload"} => run.build # None
  /\ run.commit = None \/ (GreenIfPinned(run.commit) /\ run.commit.source \in Green)
  /\ run.at \in {"push_branch", "move_tag"} => run.commit # None
  /\ run.at \in {"fill", "upload"} => ReleaseGreen

\* The inductive invariant of what is built, whether or not runs overlap.
GreenInv ==
  /\ built \in Seq(Commit) /\ runs \in Seq(RunRecord)
  /\ incidents \in 0 .. MaxIncidents
  /\ \A r \in Run : RunSound(runs[r])
  /\ tag = None \/ GreenIfPinned(tag)
  /\ branch = None \/ (GreenIfPinned(branch) /\ branch.source \in Green)
  /\ release = None \/ ReleaseGreen

\* Builds are added, and what is green stays so.
Grows ==
  /\ built' \in Seq(Commit)
  /\ \A n \in DOMAIN built : n \in DOMAIN built' /\ built'[n] = built[n]
  /\ ReleaseGreen => ReleaseGreen'

\* Run r becomes this run, the others stay as they are.
Turns(r, run) ==
  /\ runs' \in Seq(RunRecord) /\ Len(runs') = Len(runs) /\ DOMAIN runs' = DOMAIN runs
  /\ runs'[r] = run
  /\ \A q \in Run \ {r} : runs'[q] = runs[q]

-----------------------------------------------------------------------------
(* What was built.                                                         *)

\* Changing one run of the sequence.
LEMMA Turn ==
  ASSUME runs \in Seq(RunRecord), NEW r \in Run, NEW run \in RunRecord,
         runs' = [runs EXCEPT ![r] = run]
  PROVE  Turns(r, run)
<1>1. r \in 1 .. Len(runs) /\ DOMAIN runs = 1 .. Len(runs)
  BY LenProperties DEF Run
<1>2. runs' \in Seq(RunRecord) /\ Len(runs') = Len(runs)
  BY <1>1, ExceptSeq
<1>3. DOMAIN runs' = 1 .. Len(runs')
  BY <1>2, LenProperties
<1> QED
  BY <1>1, <1>2, <1>3 DEF Turns, Run

\* What was sound stays so while builds are added.
LEMMA GrowsKeeps ==
  ASSUME Grows
  PROVE  /\ \A c : GreenIfPinned(c) => GreenIfPinned(c)'
         /\ \A run : RunSound(run) => RunSound(run)'
<1>1. ASSUME NEW c, GreenIfPinned(c)
      PROVE  GreenIfPinned(c)'
  BY <1>1 DEF GreenIfPinned, CommitOf, Grows
<1>2. ASSUME NEW run, RunSound(run)
      PROVE  RunSound(run)'
  <2>1. GreenIfPinned(run.from)'
    BY <1>1, <1>2 DEF RunSound
  <2>2. run.commit = None \/ (GreenIfPinned(run.commit)' /\ run.commit.source \in Green)
    BY <1>1, <1>2 DEF RunSound
  <2> QED
    BY <1>2, <2>1, <2>2 DEF RunSound, Grows
<1> QED
  BY <1>1, <1>2

\* A step of one run keeps the invariant if it leaves the run, the tag, the
\* branch and the release sound.
LEMMA TurnKeeps ==
  ASSUME GreenInv, Grows, NEW r \in Run, NEW run, Turns(r, run), RunSound(run)',
         tag' = tag \/ GreenIfPinned(tag)',
         branch' = branch \/ (GreenIfPinned(branch)' /\ branch'.source \in Green),
         release' = release \/ ReleaseGreen', incidents' \in 0 .. MaxIncidents
  PROVE  GreenInv'
<1>1. \A q \in Run' : RunSound(runs[q])'
  <2> SUFFICES ASSUME NEW q \in Run' PROVE RunSound(runs[q])'
    OBVIOUS
  <2>1. q \in Run
    BY DEF Turns, Run
  <2>2. CASE q = r
    BY <2>2 DEF Turns, RunSound
  <2>3. CASE q # r
    <3> PICK old : old = runs[q]
      OBVIOUS
    <3>1. RunSound(old)'
      BY <2>1, GrowsKeeps DEF GreenInv
    <3> QED
      BY <2>1, <2>3, <3>1 DEF Turns, RunSound
  <2> QED
    BY <2>2, <2>3
<1>2. tag' = None \/ GreenIfPinned(tag)'
  BY GrowsKeeps DEF GreenInv, GreenIfPinned
<1>3. branch' = None \/ (GreenIfPinned(branch)' /\ branch'.source \in Green)
  BY GrowsKeeps DEF GreenInv, GreenIfPinned
<1>4. release' = None \/ ReleaseGreen'
  BY DEF Grows, GreenInv
<1> QED
  BY <1>1, <1>2, <1>3, <1>4 DEF GreenInv, Grows, Turns


\* The run of a step is a run that is sound.
LEMMA RunOf ==
  ASSUME GreenInv, NEW r \in Run
  PROVE  runs[r] \in RunRecord /\ RunSound(runs[r])
<1>1. r \in 1 .. Len(runs)
  BY LenProperties DEF GreenInv, Run
<1> QED
  BY <1>1, ElementOfSeq DEF GreenInv

\* A step that leaves the builds and the release as they are.
LEMMA StillGrows ==
  ASSUME GreenInv, UNCHANGED <<built, release>>
  PROVE  Grows
BY DEF GreenInv, Grows, ReleaseGreen

\* A run only goes on, to a stage that asks no more than what it has.
LEMMA GotoKeeps ==
  ASSUME GreenInv, NEW r \in Run, NEW at \in Stage, Goto(r, at), Grows,
         NEW run, run = [runs[r] EXCEPT !.at = at], RunSound(run),
         tag' = tag \/ GreenIfPinned(tag)',
         branch' = branch \/ (GreenIfPinned(branch)' /\ branch'.source \in Green),
         release' = release \/ ReleaseGreen', incidents' \in 0 .. MaxIncidents
  PROVE  GreenInv'
<1>1. run \in RunRecord
  BY RunOf DEF RunRecord
<1>2. runs' = [runs EXCEPT ![r] = run]
  BY DEF Goto
<1>3. Turns(r, run)
  BY <1>1, <1>2, Turn DEF GreenInv
<1>4. RunSound(run)'
  BY GrowsKeeps
<1> QED
  BY <1>3, <1>4, TurnKeeps

LEMMA CheckGreen ==
  ASSUME GreenInv, NEW r \in Run, Check(r)
  PROVE  GreenInv'
<1>1. PICK at \in {"build", "failed"} :
        Goto(r, at) /\ (at = "build" => runs[r].from.source \in Green)
  BY DEF Check
<1>2. PICK run : run = [runs[r] EXCEPT !.at = at]
  OBVIOUS
<1>3. RunSound(run)
  BY <1>1, <1>2, RunOf DEF RunSound, RunRecord
<1>4. Grows
  BY StillGrows DEF Check
<1> QED
  BY <1>1, <1>2, <1>3, <1>4, GotoKeeps DEF Check, events, GreenInv, Stage

\* A green commit is built, and given the build it had before or a new one.
LEMMA BuildGreen ==
  ASSUME GreenInv, NEW r \in Run, Build(r)
  PROVE  GreenInv'
<1> DEFINE source == runs[r].from.source
           before == {n \in DOMAIN built : reproducible /\ built[n] = source}
<1>1. runs[r] \in RunRecord /\ RunSound(runs[r]) /\ runs[r].at = "build"
  BY RunOf DEF Build
<1>2. source \in Green /\ source \in Commit
  BY <1>1 DEF RunSound, RunRecord, Commits
<1>3. PICK b \in IF before = {} THEN {Len(built) + 1} ELSE before :
        /\ built' = IF b \in before THEN built ELSE Append(built, source)
        /\ runs' = [runs EXCEPT ![r].at = "pin", ![r].build = b]
  BY DEF Build
<1> HIDE DEF source, before
<1>4. built \in Seq(Commit) /\ Len(built) \in Nat /\ DOMAIN built = 1 .. Len(built)
  BY LenProperties DEF GreenInv
<1>5. /\ built' \in Seq(Commit) /\ b \in Nat /\ b \in DOMAIN built' /\ built'[b] = source
      /\ \A n \in DOMAIN built : n \in DOMAIN built' /\ built'[n] = built[n]
  <2>1. CASE b \in before
    BY <1>3, <1>4, <2>1 DEF before
  <2>2. CASE b \notin before
    <3>1. before = {} /\ b = Len(built) + 1 /\ built' = Append(built, source)
      BY <1>3, <2>2
    <3>2. /\ built' \in Seq(Commit) /\ Len(built') = Len(built) + 1
          /\ \A n \in 1 .. Len(built) : built'[n] = built[n]
          /\ built'[Len(built) + 1] = source
      BY <1>2, <1>4, <3>1, AppendProperties
    <3>3. DOMAIN built' = 1 .. Len(built')
      BY <3>2, LenProperties
    <3> QED
      BY <1>4, <3>1, <3>2, <3>3
  <2> QED
    BY <2>1, <2>2
<1>6. Grows
  BY <1>5 DEF Grows, ReleaseGreen, Build
<1>7. PICK run : run = [runs[r] EXCEPT !.at = "pin", !.build = b]
  OBVIOUS
<1>8. run \in RunRecord
  BY <1>1, <1>5, <1>7 DEF RunRecord, Stage, Pins
<1>9. runs' = [runs EXCEPT ![r] = run]
  BY <1>3, <1>7
<1>10. Turns(r, run)
  BY <1>8, <1>9, Turn DEF GreenInv
<1>11. RunSound(run)'
  <2>1. RunSound(runs[r])
    BY <1>1
  <2>2. PICK old : old = runs[r]
    OBVIOUS
  <2>3. RunSound(old)'
    BY <2>1, <2>2, <1>6, GrowsKeeps
  <2>4. run.from = old.from /\ run.commit = old.commit /\ run.at = "pin" /\ run.build = b
    BY <1>1, <1>7, <2>2 DEF RunRecord
  <2>5. b # None
    BY <1>5, ReleaseAssumption
  <2>6. built'[b] = old.from.source /\ old.from.source \in Green
    BY <1>2, <1>5, <2>2 DEF source
  <2> QED
    BY <1>5, <2>3, <2>4, <2>5, <2>6 DEF RunSound
<1> QED
  BY <1>6, <1>10, <1>11, TurnKeeps DEF Build, events, GreenInv

LEMMA PinGreen ==
  ASSUME GreenInv, NEW r \in Run, Pin(r)
  PROVE  GreenInv'
<1> DEFINE pinned == [source |-> runs[r].from.source, pin |-> runs[r].build]
<1>1. runs[r] \in RunRecord /\ RunSound(runs[r]) /\ runs[r].at = "pin"
  BY RunOf DEF Pin
<1>2. GreenIfPinned(pinned) /\ pinned.source \in Green /\ pinned \in Commits
  BY <1>1 DEF RunSound, RunRecord, GreenIfPinned, CommitOf, Commits, Pins
<1>3. PICK at \in {"publish", "push_branch"} :
        runs' = [runs EXCEPT ![r].commit = pinned, ![r].at = at]
  BY DEF Pin
<1> HIDE DEF pinned
<1>4. PICK run : run = [runs[r] EXCEPT !.commit = pinned, !.at = at]
  OBVIOUS
<1>5. run \in RunRecord
  BY <1>1, <1>2, <1>4 DEF RunRecord, Stage
<1>6. runs' = [runs EXCEPT ![r] = run]
  BY <1>3, <1>4
<1>7. Turns(r, run)
  BY <1>5, <1>6, Turn DEF GreenInv
<1>8. Grows
  BY StillGrows DEF Pin
<1>9. RunSound(run)
  <2>1. pinned # None
    <3>1. DOMAIN built \subseteq Nat
      BY LenProperties DEF GreenInv
    <3>2. pinned \in [source : Commit, pin : Nat \cup {None}]
      BY <1>2, <3>1 DEF GreenIfPinned, CommitOf
    <3> QED
      BY ReleaseAssumption, <3>2
  <2> QED
    BY <2>1, <1>1, <1>2, <1>4 DEF RunSound, RunRecord
<1> QED
  BY <1>7, <1>8, <1>9, GrowsKeeps, TurnKeeps DEF Pin, events, GreenInv

LEMMA PushBranchGreen ==
  ASSUME GreenInv, NEW r \in Run, PushBranch(r)
  PROVE  GreenInv'
<1>1. runs[r] \in RunRecord /\ RunSound(runs[r]) /\ runs[r].at = "push_branch"
  BY RunOf DEF PushBranch
<1>2. GreenIfPinned(runs[r].commit) /\ runs[r].commit.source \in Green
  BY <1>1 DEF RunSound
<1>3. Grows
  BY StillGrows DEF PushBranch
<1>4. PICK run : run = [runs[r] EXCEPT !.at = "move_tag"]
  OBVIOUS
<1>5. RunSound(run)
  BY <1>1, <1>4 DEF RunSound, RunRecord
<1>6. GreenIfPinned(branch)' /\ branch'.source \in Green
  BY <1>2, <1>3, GrowsKeeps DEF PushBranch, GreenIfPinned
<1> QED
  BY <1>3, <1>4, <1>5, <1>6, GotoKeeps DEF PushBranch, events, GreenInv, Stage

LEMMA MoveTagGreen ==
  ASSUME GreenInv, NEW r \in Run, MoveTag(r)
  PROVE  GreenInv'
<1>1. runs[r] \in RunRecord /\ RunSound(runs[r]) /\ runs[r].at = "move_tag"
  BY RunOf DEF MoveTag
<1>2. GreenIfPinned(runs[r].commit)
  BY <1>1 DEF RunSound
<1>3. Grows
  BY StillGrows DEF MoveTag
<1>4. PICK run : run = [runs[r] EXCEPT !.at = "publish"]
  OBVIOUS
<1>5. RunSound(run)
  BY <1>1, <1>4 DEF RunSound, RunRecord
<1>6. GreenIfPinned(tag)'
  BY <1>2, <1>3, GrowsKeeps DEF MoveTag, GreenIfPinned
<1> QED
  BY <1>3, <1>4, <1>5, <1>6, GotoKeeps DEF MoveTag, events, GreenInv, Stage

LEMMA PublishGreen ==
  ASSUME GreenInv, NEW r \in Run, Publish(r)
  PROVE  GreenInv'
<1>1. runs[r] \in RunRecord /\ RunSound(runs[r]) /\ runs[r].at = "publish"
  BY RunOf DEF Publish
<1>2. PICK at \in {"create", "upload"} :
        /\ runs' = [runs EXCEPT ![r].at = at, ![r].todo = Asset]
        /\ at = "upload" => release # None
  BY DEF Publish
<1>3. PICK run : run = [runs[r] EXCEPT !.at = at, !.todo = Asset]
  OBVIOUS
<1>4. run \in RunRecord
  BY <1>1, <1>2, <1>3 DEF RunRecord, Stage
<1>5. runs' = [runs EXCEPT ![r] = run]
  BY <1>2, <1>3
<1>6. Turns(r, run)
  BY <1>4, <1>5, Turn DEF GreenInv
<1>7. Grows
  BY StillGrows DEF Publish
<1>8. RunSound(run)
  BY <1>1, <1>2, <1>3 DEF RunSound, RunRecord, GreenInv
<1> QED
  BY <1>6, <1>7, <1>8, GrowsKeeps, TurnKeeps DEF Publish, events, GreenInv

LEMMA CreateGreen ==
  ASSUME GreenInv, NEW r \in Run, Create(r)
  PROVE  GreenInv'
<1>1. runs[r] \in RunRecord /\ RunSound(runs[r]) /\ runs[r].at = "create"
  BY RunOf DEF Create
<1>2. UNCHANGED built
  BY DEF Create
<1>3. PICK at \in {"fill", "failed"} :
        Goto(r, at) /\ (at = "fill" => release' = [a \in Asset |-> None])
                    /\ (at = "failed" => release' = release)
  BY DEF Create
<1>4. at = "fill" => ReleaseGreen'
  BY <1>2, <1>3 DEF ReleaseGreen
<1>5. Grows
  BY <1>2, <1>3, <1>4 DEF Grows, ReleaseGreen, GreenInv
<1>6. PICK run : run = [runs[r] EXCEPT !.at = at]
  OBVIOUS
<1>7. run \in RunRecord
  BY <1>1, <1>3, <1>6 DEF RunRecord, Stage
<1>8. Turns(r, run)
  BY <1>3, <1>6, <1>7, Turn DEF GreenInv, Goto
<1>9. RunSound(run)'
  <2>1. PICK old : old = runs[r]
    OBVIOUS
  <2>2. RunSound(old)'
    BY <1>1, <1>5, <2>1, GrowsKeeps
  <2>3. /\ run.from = old.from /\ run.commit = old.commit /\ run.build = old.build
        /\ run.at = at /\ run.build # None
    BY <1>1, <1>6, <2>1 DEF RunRecord, RunSound
  <2> QED
    BY <1>3, <1>4, <2>2, <2>3 DEF RunSound
<1> QED
  BY <1>3, <1>4, <1>5, <1>8, <1>9, TurnKeeps DEF Create, events, GreenInv

LEMMA UploadGreen ==
  ASSUME GreenInv, NEW r \in Run, Upload(r)
  PROVE  GreenInv'
<1>1. runs[r] \in RunRecord /\ RunSound(runs[r]) /\ runs[r].at \in {"fill", "upload"}
  BY RunOf DEF Upload
<1>2. runs[r].build \in DOMAIN built /\ built[runs[r].build] \in Green /\ ReleaseGreen
  BY <1>1 DEF RunSound
<1>3. PICK a \in runs[r].todo, at \in {"done", "announce", "fill", "upload"} :
        /\ release' = [release EXCEPT ![a] = runs[r].build]
        /\ runs' = [runs EXCEPT ![r].todo = @ \ {a}, ![r].at = at]
  BY <1>1 DEF Upload
<1>4. UNCHANGED built
  BY DEF Upload
<1>5. ReleaseGreen'
  BY <1>1, <1>2, <1>3, <1>4 DEF ReleaseGreen, RunRecord
<1>6. Grows
  BY <1>4, <1>5 DEF Grows, GreenInv
<1>7. PICK run : run = [runs[r] EXCEPT !.todo = @ \ {a}, !.at = at]
  OBVIOUS
<1>8. run \in RunRecord
  BY <1>1, <1>3, <1>7 DEF RunRecord, Stage
<1>9. runs' = [runs EXCEPT ![r] = run]
  BY <1>3, <1>7
<1>10. Turns(r, run)
  BY <1>8, <1>9, Turn DEF GreenInv
<1>11. RunSound(run)
  BY <1>1, <1>2, <1>3, <1>7 DEF RunSound, RunRecord
<1> QED
  BY <1>5, <1>6, <1>10, <1>11, GrowsKeeps, TurnKeeps DEF Upload, events, GreenInv

LEMMA AnnounceGreen ==
  ASSUME GreenInv, NEW r \in Run, Announce(r)
  PROVE  GreenInv'
<1>1. PICK run : run = [runs[r] EXCEPT !.at = "done"]
  OBVIOUS
<1>2. RunSound(run)
  BY <1>1, RunOf DEF Announce, RunSound, RunRecord
<1>3. Grows
  BY StillGrows DEF Announce
<1> QED
  BY <1>1, <1>2, <1>3, GotoKeeps DEF Announce, events, GreenInv, Stage

\* An upload that is cut off takes assets away and adds none.
LEMMA DieGreen ==
  ASSUME GreenInv, NEW r \in Run, Die(r)
  PROVE  GreenInv'
<1>1. runs[r] \in RunRecord /\ RunSound(runs[r])
  BY RunOf
<1>2. PICK run : run = [runs[r] EXCEPT !.at = "failed"]
  OBVIOUS
<1>3. RunSound(run)
  BY <1>1, <1>2 DEF RunSound, RunRecord
<1>4. incidents' \in 0 .. MaxIncidents
  BY ReleaseAssumption DEF Die, GreenInv
<1>5. UNCHANGED <<built, tag, branch>> /\ Goto(r, "failed")
  BY DEF Die
<1>6. PICK gone \in SUBSET (IF runs[r].at = "upload" THEN runs[r].todo ELSE {}) :
        release' = IF gone = {} THEN release
                   ELSE [a \in DOMAIN release |-> IF a \in gone THEN None ELSE release[a]]
  BY DEF Die
<1>7. release' = release \/ ReleaseGreen'
  <2>1. CASE gone = {}
    BY <1>6, <2>1
  <2>2. CASE gone # {}
    <3>1. runs[r].at = "upload"
      BY <1>6, <2>2
    <3>2. ReleaseGreen
      BY <1>1, <3>1 DEF RunSound
    <3> QED
      BY <1>5, <1>6, <2>2, <3>2 DEF ReleaseGreen
  <2> QED
    BY <2>1, <2>2
<1>8. ReleaseGreen => ReleaseGreen'
  BY <1>5, <1>7 DEF ReleaseGreen
<1>9. Grows
  BY <1>5, <1>8 DEF Grows, GreenInv
<1> QED
  BY <1>2, <1>3, <1>4, <1>5, <1>7, <1>9, GotoKeeps DEF Stage

\* A run that is run again keeps what it has built.
LEMMA AgainGreen ==
  ASSUME GreenInv, NEW r \in Run, Rerun(r) \/ RerunAny(r)
  PROVE  GreenInv'
<1>1. Again(r)
  BY DEF Rerun, RerunAny
<1>2. PICK at \in {"check", "pin"} :
        Goto(r, at) /\ (at = "pin" => runs[r].build # None)
  BY <1>1 DEF Again
<1>3. PICK run : run = [runs[r] EXCEPT !.at = at]
  OBVIOUS
<1>4. RunSound(run)
  BY <1>2, <1>3, RunOf DEF RunSound, RunRecord
<1>5. incidents' \in 0 .. MaxIncidents
  BY ReleaseAssumption DEF Rerun, RerunAny, GreenInv
<1>6. UNCHANGED <<tag, branch, release, built>>
  BY <1>1 DEF Again
<1>7. Grows
  BY <1>6, StillGrows
<1> QED
  BY <1>2, <1>3, <1>4, <1>5, <1>6, <1>7, GotoKeeps DEF Stage

\* A run that begins is on a source commit, or on the release branch.
LEMMA PushTagGreen ==
  ASSUME GreenInv, NEW c \in Taggable, PushTag(c)
  PROVE  GreenInv'
<1>1. GreenIfPinned(c)
  BY DEF Taggable, GreenInv, GreenIfPinned, CommitOf
<1>2. DOMAIN built \subseteq Nat
  BY LenProperties DEF GreenInv
<1>3. PICK new : new = [from |-> c, at |-> "check", build |-> None,
                        commit |-> None, todo |-> {}]
  OBVIOUS
<1>4. new \in RunRecord
  BY <1>1, <1>2, <1>3 DEF RunRecord, GreenIfPinned, CommitOf, Commits, Pins, Stage
<1>5. runs \in Seq(RunRecord) /\ runs' = Append(runs, new)
  BY <1>3 DEF PushTag, GreenInv
<1>6. /\ runs' \in Seq(RunRecord) /\ Len(runs') = Len(runs) + 1
      /\ \A q \in 1 .. Len(runs) : runs'[q] = runs[q]
      /\ runs'[Len(runs) + 1] = new
  BY <1>4, <1>5, AppendProperties
<1>7. Len(runs) \in Nat /\ DOMAIN runs = 1 .. Len(runs) /\ DOMAIN runs' = 1 .. Len(runs')
  BY <1>5, <1>6, LenProperties
<1>8. Grows
  BY StillGrows DEF PushTag
<1>9. RunSound(new)
  BY <1>1, <1>3 DEF RunSound
<1>10. \A q \in Run' : RunSound(runs[q])'
  <2> SUFFICES ASSUME NEW q \in Run' PROVE RunSound(runs[q])'
    OBVIOUS
  <2>1. q \in 1 .. Len(runs) \/ q = Len(runs) + 1
    BY <1>6, <1>7 DEF Run
  <2>2. PICK run : run = runs'[q]
    OBVIOUS
  <2>3. RunSound(run)
    BY <1>6, <1>7, <1>9, <2>1, <2>2 DEF GreenInv, Run
  <2>4. RunSound(run)'
    BY <1>8, <2>3, GrowsKeeps
  <2> QED
    BY <2>2, <2>4 DEF RunSound
<1>11. UNCHANGED <<branch, release, built, incidents>> /\ tag' = c
  BY DEF PushTag
<1>12. GreenIfPinned(tag)'
  BY <1>1, <1>8, <1>11, GrowsKeeps DEF GreenIfPinned
<1>13. branch' = None \/ (GreenIfPinned(branch)' /\ branch'.source \in Green)
  BY <1>8, <1>11, GrowsKeeps DEF GreenInv, GreenIfPinned
<1>14. release' = None \/ ReleaseGreen'
  BY <1>8, <1>11 DEF Grows, GreenInv
<1> QED
  BY <1>6, <1>8, <1>10, <1>11, <1>12, <1>13, <1>14 DEF GreenInv, Grows

LEMMA GreenInit ==
  ASSUME Init
  PROVE  GreenInv
<1>1. \A S : <<>> \in Seq(S)
  BY EmptySeq
<1>2. DOMAIN runs = {}
  BY DEF Init
<1> QED
  BY <1>1, <1>2, ReleaseAssumption DEF Init, GreenInv, Run

LEMMA GreenNext ==
  ASSUME GreenInv, [Next]_vars
  PROVE  GreenInv'
<1>1. ASSUME NEW c \in Taggable, PushTag(c)
      PROVE  GreenInv'
  BY <1>1, PushTagGreen
<1>2. ASSUME NEW r \in Run, Step(r)
      PROVE  GreenInv'
  BY <1>2, CheckGreen, BuildGreen, PinGreen, PushBranchGreen, MoveTagGreen,
     PublishGreen, CreateGreen, UploadGreen, AnnounceGreen DEF Step
<1>3. ASSUME NEW r \in Run, Die(r) \/ Rerun(r) \/ RerunAny(r)
      PROVE  GreenInv'
  BY <1>3, DieGreen, AgainGreen
<1>4. ASSUME UNCHANGED vars
      PROVE  GreenInv'
  BY <1>4 DEF vars, GreenInv, Run, RunSound, GreenIfPinned, ReleaseGreen, CommitOf
<1> QED
  BY <1>1, <1>2, <1>3, <1>4 DEF Next

LEMMA AlwaysGreen == Spec => []GreenInv
<1> QED
  BY GreenInit, GreenNext, PTL DEF Spec

\* While a release is in the making, some run is making it.
DraftInv ==
  /\ draft \in {"no", "making", "left"}
  /\ draft = "making" => \E r \in Run : runs[r].at \in {"fill", "announce"}

\* What one run does is not seen in the record of another.
LEMMA OtherRunsStay ==
  ASSUME NEW q \in Run, Step(q) \/ Die(q) \/ Rerun(q) \/ RerunAny(q),
         NEW r \in Run, r # q
  PROVE  runs'[r] = runs[r] /\ r \in Run'
BY DEF Step, Check, Build, Pin, PushBranch, MoveTag, Publish, Create, Upload, Announce,
       Die, Rerun, RerunAny, Again, Goto, Run

\* A run that makes a release leaves it public, or dies and leaves a draft.
LEMMA DraftNext ==
  ASSUME GreenInv, DraftInv, [Next]_vars
  PROVE  DraftInv'
<1>1. ASSUME NEW q \in Run, Step(q) \/ Die(q) \/ Rerun(q) \/ RerunAny(q)
      PROVE  DraftInv'
  <2>1. runs[q] \in RunRecord /\ q \in DOMAIN runs
    BY RunOf DEF Run
  <2>2. ASSUME \/ Check(q) \/ Build(q) \/ Pin(q) \/ PushBranch(q) \/ MoveTag(q)
               \/ Publish(q) \/ Upload(q) \/ Rerun(q) \/ RerunAny(q)
        PROVE  draft' = draft
    <3>1. Check(q) \/ Build(q) \/ Pin(q) \/ PushBranch(q) => draft' = draft
      BY DEF Check, Build, Pin, PushBranch
    <3>2. MoveTag(q) \/ Publish(q) \/ Upload(q) => draft' = draft
      BY DEF MoveTag, Publish, Upload
    <3>3. Rerun(q) \/ RerunAny(q) => draft' = draft
      BY DEF Rerun, RerunAny, Again
    <3> QED
      BY <2>2, <3>1, <3>2, <3>3
  <2>3. ASSUME Create(q)
        PROVE  \/ draft' = draft
               \/ draft' = "making" /\ q \in Run' /\ runs'[q].at = "fill"
    <3>1. draft' = draft \/ (draft' = "making" /\ Goto(q, "fill"))
      BY <2>3 DEF Create
    <3>2. Goto(q, "fill") => runs'[q].at = "fill" /\ q \in Run'
      BY <2>1 DEF Goto, Run, RunRecord
    <3> QED
      BY <3>1, <3>2
  <2>4. ASSUME Announce(q) \/ Die(q)
        PROVE  draft' \in {draft, "no", "left"}
    BY <2>4 DEF Announce, Die
  <2>5. \/ draft' = draft
        \/ draft' \in {"no", "left"}
        \/ draft' = "making" /\ q \in Run' /\ runs'[q].at = "fill"
    BY <1>1, <2>2, <2>3, <2>4 DEF Step
  <2>6. CASE draft' = draft /\ draft = "making"
    <3>1. PICK r \in Run : runs[r].at \in {"fill", "announce"}
      BY <2>6 DEF DraftInv
    <3>2. CASE r # q
      BY <1>1, <2>6, <3>1, <3>2, OtherRunsStay DEF DraftInv
    <3>3. CASE r = q
      <4>1. Upload(q) \/ Announce(q) \/ Die(q)
        <5>1. ~Check(q) /\ ~Build(q) /\ ~Pin(q) /\ ~PushBranch(q) /\ ~MoveTag(q)
          BY <3>1, <3>3 DEF Check, Build, Pin, PushBranch, MoveTag
        <5>2. ~Publish(q) /\ ~Create(q) /\ ~Rerun(q) /\ ~RerunAny(q)
          BY <3>1, <3>3 DEF Publish, Create, Rerun, RerunAny, Active
        <5> QED
          BY <1>1, <5>1, <5>2 DEF Step
      <4>2. Upload(q)
        BY <2>6, <3>1, <3>3, <4>1 DEF Announce, Die
      <4>3. q \in Run' /\ runs'[q].at \in {"fill", "announce"}
        BY <2>1, <3>1, <3>3, <4>2 DEF Upload, Run, RunRecord
      <4> QED
        BY <2>6, <4>3 DEF DraftInv
    <3> QED
      BY <3>2, <3>3
  <2>7. CASE draft' = draft /\ draft # "making"
    BY <2>7 DEF DraftInv
  <2> QED
    BY <2>5, <2>6, <2>7 DEF DraftInv
<1>2. ASSUME NEW c \in Taggable, PushTag(c)
      PROVE  DraftInv'
  <2>1. /\ GreenInv' /\ draft' = draft
        /\ runs' = Append(runs, [from |-> c, at |-> "check", build |-> None,
                                 commit |-> None, todo |-> {}])
    BY <1>2, PushTagGreen DEF PushTag
  <2>2. ASSUME NEW r \in Run
        PROVE  r \in Run' /\ runs'[r] = runs[r]
    <3>1. /\ Len(runs) \in Nat /\ DOMAIN runs = 1 .. Len(runs)
          /\ Len(runs') \in Nat /\ DOMAIN runs' = 1 .. Len(runs')
      BY <2>1, LenProperties DEF GreenInv
    <3>2. Len(runs') = Len(runs) + 1 /\ \A q \in 1 .. Len(runs) : runs'[q] = runs[q]
      BY <2>1, <3>1 DEF GreenInv
    <3> QED
      BY <2>2, <3>1, <3>2 DEF Run
  <2> QED
    BY <2>1, <2>2 DEF DraftInv
<1>3. ASSUME UNCHANGED vars
      PROVE  DraftInv'
  BY <1>3 DEF vars, DraftInv, Run
<1> QED
  BY <1>1, <1>2, <1>3 DEF Next

LEMMA AlwaysDraft == Spec => []DraftInv
<1>1. Init => DraftInv
  BY DEF Init, DraftInv
<1>2. GreenInv /\ DraftInv /\ [Next]_vars => DraftInv'
  BY DraftNext
<1> QED
  BY <1>1, <1>2, AlwaysGreen, PTL DEF Spec

\* The types of Release: the tag, the branch and the runs name commits and
\* builds that exist, and a release has all its assets.
THEOREM ReleaseTypes == Spec => []TypeOK
<1>1. GreenInv /\ DraftInv => TypeOK
  <2> SUFFICES ASSUME GreenInv, DraftInv PROVE TypeOK
    OBVIOUS
  <2>1. {tag, branch} \subseteq CommitOf \cup {None}
    BY DEF GreenInv, GreenIfPinned
  <2>2. /\ release # None => release \in [Asset -> DOMAIN built \cup {None}]
        /\ draft \in {"no", "making", "left"}
    BY DEF GreenInv, ReleaseGreen, DraftInv
  <2>3. ASSUME NEW r \in Run
        PROVE  /\ runs[r].from \in CommitOf
               /\ runs[r].at \in Stage
               /\ runs[r].build \in DOMAIN built \cup {None}
               /\ runs[r].commit \in CommitOf \cup {None}
               /\ runs[r].todo \subseteq Asset
    <3>1. runs[r] \in RunRecord /\ RunSound(runs[r])
      BY RunOf
    <3> QED
      BY <3>1 DEF RunRecord, RunSound, GreenIfPinned
  <2> QED
    BY <2>1, <2>2, <2>3 DEF TypeOK, GreenInv
<1> QED
  BY <1>1, AlwaysGreen, AlwaysDraft, PTL

\* "A tag must not be able to ship a red commit" (release.yml:11): whatever is
\* published, or pinned by the tag, is built from a commit that passed the
\* checks, however runs overlap, die and are run again.
THEOREM NothingRedIsReleased == Spec => []NoRedRelease
<1>1. GreenInv => NoRedRelease
  BY DEF GreenInv, NoRedRelease, ReleaseGreen, GreenIfPinned
<1> QED
  BY <1>1, AlwaysGreen, PTL

-----------------------------------------------------------------------------
(* Where the tag stays, and what it pins, when runs do not overlap.        *)

Distinct == \A m, n \in DOMAIN built : built[m] = built[n] => m = n

PinOf(run) == [source |-> run.from.source, pin |-> run.build]

\* The tag is where the last run found it or on a build of that source; as the
\* run goes on, on what it built, and so are the assets.  A release that the run
\* is about to create is not there yet.  Whether the release is a draft, or lacks
\* assets, where the run began, makes no difference.
LastSound(run) ==
  /\ tag \in CommitOf /\ tag.source = run.from.source
  /\ tag = run.from \/ (tag.pin \in DOMAIN built /\ built[tag.pin] = tag.source)
  /\ ~reproducible /\ run.build # None => run.build # run.from.pin
  /\ run.at \in {"push_branch", "move_tag"} => run.commit = PinOf(run)
  /\ run.at \in {"publish", "create", "fill", "announce", "upload", "done"} =>
       tag = PinOf(run)
  /\ run.at = "create" => release = None /\ run.todo = Asset
  /\ run.at \in {"fill", "upload"} => \A a \in Asset \ run.todo : release[a] = run.build
  /\ run.at \in {"announce", "done"} =>
       release # None /\ \A a \in Asset : release[a] = run.build

\* With GreenInv, inductive; the last run is the only one in progress.
QuietInv ==
  /\ reproducible => Distinct
  /\ ~disturbed =>
       /\ \A r \in Run : r # Len(runs) => ~Active(r)
       /\ runs # <<>> => LastSound(Latest)

\* The domains of a step that changes one run or none.
LEMMA SameLength ==
  ASSUME GreenInv, GreenInv', DOMAIN runs' = DOMAIN runs
  PROVE  /\ Len(runs') = Len(runs) /\ Len(runs) \in Nat
         /\ Run = 1 .. Len(runs) /\ (runs = <<>> <=> Len(runs) = 0)
         /\ (runs # <<>> => Len(runs) \in Run)
<1>1. /\ Len(runs) \in Nat /\ DOMAIN runs = 1 .. Len(runs)
      /\ Len(runs') \in Nat /\ DOMAIN runs' = 1 .. Len(runs')
  BY LenProperties DEF GreenInv
<1>2. Len(runs') = Len(runs)
  BY <1>1
<1>3. runs = <<>> <=> Len(runs) = 0
  BY EmptySeq DEF GreenInv
<1> QED
  BY <1>1, <1>2, <1>3 DEF Run

\* A step of the last run keeps the invariant if it leaves that run sound.
LEMMA LastTurn ==
  ASSUME GreenInv, GreenInv', QuietInv, NEW r \in Run,
         Active(r) \/ r = Len(runs),
         DOMAIN runs' = DOMAIN runs, \A q \in Run \ {r} : runs'[q] = runs[q],
         reproducible' = reproducible, reproducible => Distinct',
         disturbed => disturbed',
         NEW run, run = runs'[r], LastSound(runs[r]) => LastSound(run)'
  PROVE  QuietInv'
<1> SUFFICES ASSUME ~disturbed'
             PROVE  /\ \A q \in Run' : q # Len(runs') => ~Active(q)'
                    /\ runs' # <<>> => LastSound(Latest)'
  BY DEF QuietInv
<1>1. ~disturbed /\ r = Len(runs) /\ runs # <<>>
  BY SameLength DEF QuietInv
<1>2. LastSound(run)'
  BY <1>1 DEF QuietInv, Latest
<1>3. Latest' = run /\ Run' = Run
  BY <1>1, SameLength DEF Latest, Run
<1>4. LastSound(Latest)'
  BY <1>2, <1>3 DEF LastSound
<1>5. ASSUME NEW q \in Run', q # Len(runs')
      PROVE  ~Active(q)'
  <2>1. q \in Run \ {r} /\ ~Active(q)
    BY <1>1, <1>3, <1>5, SameLength DEF QuietInv
  <2> QED
    BY <2>1 DEF Active
<1> QED
  BY <1>4, <1>5

LEMMA CheckQuiet ==
  ASSUME GreenInv, GreenInv', QuietInv, NEW r \in Run, Check(r)
  PROVE  QuietInv'
<1>1. PICK at \in {"build", "failed"} : runs' = [runs EXCEPT ![r].at = at]
  BY DEF Check, Goto
<1>2. PICK run : run = runs'[r]
  OBVIOUS
<1>3. /\ run.from = runs[r].from /\ run.build = runs[r].build
      /\ run.at \in {"build", "failed"}
  BY <1>1, <1>2, RunOf DEF RunRecord, Run
<1>4. LastSound(runs[r]) => LastSound(run)'
  BY <1>3 DEF Check, events, LastSound, CommitOf
<1>5. Active(r) /\ (reproducible => Distinct')
  BY DEF Check, Active, QuietInv, Distinct
<1> QED
  BY <1>1, <1>2, <1>4, <1>5, LastTurn DEF Check, events

\* A rebuild is of a checksum that the source had, or of one that no commit
\* pins yet.
LEMMA BuildQuiet ==
  ASSUME GreenInv, GreenInv', QuietInv, NEW r \in Run, Build(r)
  PROVE  QuietInv'
<1> DEFINE source == runs[r].from.source
           before == {n \in DOMAIN built : reproducible /\ built[n] = source}
<1>1. PICK b \in IF before = {} THEN {Len(built) + 1} ELSE before :
        /\ built' = IF b \in before THEN built ELSE Append(built, source)
        /\ runs' = [runs EXCEPT ![r].at = "pin", ![r].build = b]
  BY DEF Build
<1>2. runs[r] \in RunRecord /\ RunSound(runs[r])
  BY RunOf
<1>3. source \in Commit
  BY <1>2 DEF RunRecord, Commits
<1>4. built \in Seq(Commit) /\ Len(built) \in Nat /\ DOMAIN built = 1 .. Len(built)
  BY LenProperties DEF GreenInv
<1>5. \/ b \in before /\ built' = built
      \/ /\ before = {} /\ b = Len(built) + 1
         /\ DOMAIN built' = 1 .. (Len(built) + 1) /\ built'[b] = source
         /\ \A n \in DOMAIN built : built'[n] = built[n]
  <2>1. CASE b \in before
    BY <1>1, <2>1
  <2>2. CASE b \notin before
    <3>1. before = {} /\ b = Len(built) + 1 /\ built' = Append(built, source)
      BY <1>1, <2>2
    <3>2. /\ built' \in Seq(Commit) /\ Len(built') = Len(built) + 1
          /\ \A n \in 1 .. Len(built) : built'[n] = built[n]
          /\ built'[Len(built) + 1] = source
      BY <1>3, <1>4, <3>1, AppendProperties
    <3>3. DOMAIN built' = 1 .. Len(built')
      BY <3>2, LenProperties
    <3> QED
      BY <1>4, <3>1, <3>2, <3>3
  <2> QED
    BY <2>1, <2>2
<1>6. /\ \A n \in DOMAIN built : n \in DOMAIN built' /\ built'[n] = built[n]
      /\ b \in DOMAIN built'
  BY <1>4, <1>5 DEF before
<1>7. reproducible => Distinct'
  BY <1>4, <1>5 DEF QuietInv, Distinct, before
<1>8. ~reproducible => b \notin DOMAIN built
  BY <1>4, <1>5 DEF before
<1>9. PICK run : run = runs'[r]
  OBVIOUS
<1> HIDE DEF source, before
<1>10. run.from = runs[r].from /\ run.build = b /\ run.at = "pin"
  BY <1>1, <1>2, <1>9 DEF RunRecord, Run
<1>11. UNCHANGED <<tag, branch, release, reproducible, disturbed>>
  BY DEF Build, events
<1>12. runs[r].from.pin \in DOMAIN built \cup {None} /\ b # None
  <2>1. runs[r].from.pin \in DOMAIN built \cup {None}
    BY <1>2 DEF RunSound, GreenIfPinned, CommitOf
  <2>2. b \in Nat
    BY <1>4, <1>5, <1>6
  <2> QED
    BY <2>1, <2>2, ReleaseAssumption
<1>13. ~reproducible => b # runs[r].from.pin
  BY <1>8, <1>12
<1>14. LastSound(runs[r]) => LastSound(run)'
  BY <1>6, <1>10, <1>11, <1>13 DEF LastSound, CommitOf
<1>15. Active(r) /\ DOMAIN runs' = DOMAIN runs /\ \A q \in Run \ {r} : runs'[q] = runs[q]
  BY <1>1 DEF Build, Active, Run
<1> QED
  BY <1>7, <1>9, <1>11, <1>14, <1>15, LastTurn

\* If pinning changes nothing, the tag is on that very commit.
LEMMA PinQuiet ==
  ASSUME GreenInv, GreenInv', QuietInv, NEW r \in Run, Pin(r)
  PROVE  QuietInv'
<1>1. runs[r] \in RunRecord /\ RunSound(runs[r]) /\ runs[r].build # None
  BY RunOf DEF Pin, RunSound
<1>2. PICK run : run = runs'[r]
  OBVIOUS
<1>3. /\ run.from = runs[r].from /\ run.build = runs[r].build
      /\ run.commit = PinOf(run)
      /\ run.at = IF PinOf(run) = run.from THEN "publish" ELSE "push_branch"
  BY <1>1, <1>2 DEF Pin, RunRecord, Run, PinOf
<1>4. UNCHANGED <<tag, built, release, reproducible, disturbed>>
  BY DEF Pin, events
<1>5. ASSUME LastSound(runs[r]), PinOf(run) = run.from
      PROVE  tag = run.from
  <2>1. run.from.pin = run.build
    BY <1>5 DEF PinOf
  <2>2. reproducible
    BY <1>1, <1>3, <1>5, <2>1 DEF LastSound
  <2>3. run.build \in DOMAIN built /\ built[run.build] = run.from.source
    BY <1>1, <1>3 DEF RunSound
  <2>4. CASE tag.pin \in DOMAIN built /\ built[tag.pin] = tag.source
    <3>1. tag.pin = run.build
      BY <1>3, <1>5, <2>2, <2>3, <2>4 DEF QuietInv, Distinct, LastSound
    <3>2. tag = [source |-> tag.source, pin |-> tag.pin] /\ tag.source = run.from.source
      BY <1>3, <1>5 DEF LastSound, CommitOf
    <3> QED
      BY <1>5, <3>1, <3>2 DEF PinOf
  <2> QED
    BY <1>3, <1>5, <2>4 DEF LastSound
<1>6. LastSound(runs[r]) => LastSound(run)'
  BY <1>1, <1>3, <1>4, <1>5 DEF LastSound, CommitOf, PinOf
<1>7. Active(r) /\ DOMAIN runs' = DOMAIN runs /\ \A q \in Run \ {r} : runs'[q] = runs[q]
  BY DEF Pin, Active, Run
<1>8. reproducible => Distinct'
  BY <1>4 DEF QuietInv, Distinct
<1> QED
  BY <1>2, <1>4, <1>6, <1>7, <1>8, LastTurn

LEMMA PushBranchQuiet ==
  ASSUME GreenInv, GreenInv', QuietInv, NEW r \in Run, PushBranch(r)
  PROVE  QuietInv'
<1>1. PICK run : run = runs'[r]
  OBVIOUS
<1>2. /\ run.from = runs[r].from /\ run.build = runs[r].build
      /\ run.commit = runs[r].commit /\ run.at = "move_tag"
  BY <1>1, RunOf DEF PushBranch, Goto, RunRecord, Run
<1>3. UNCHANGED <<tag, built, release, reproducible, disturbed>>
  BY DEF PushBranch, events
<1>4. LastSound(runs[r]) => LastSound(run)'
  BY <1>2, <1>3 DEF PushBranch, LastSound, CommitOf, PinOf
<1>5. Active(r) /\ DOMAIN runs' = DOMAIN runs /\ \A q \in Run \ {r} : runs'[q] = runs[q]
  BY DEF PushBranch, Goto, Active, Run
<1>6. reproducible => Distinct'
  BY <1>3 DEF QuietInv, Distinct
<1> QED
  BY <1>1, <1>3, <1>4, <1>5, <1>6, LastTurn

LEMMA MoveTagQuiet ==
  ASSUME GreenInv, GreenInv', QuietInv, NEW r \in Run, MoveTag(r)
  PROVE  QuietInv'
<1>1. PICK run : run = runs'[r]
  OBVIOUS
<1>2. runs[r] \in RunRecord /\ RunSound(runs[r]) /\ runs[r].at = "move_tag"
  BY RunOf DEF MoveTag
<1>3. /\ run.from = runs[r].from /\ run.build = runs[r].build
      /\ run.at = "publish" /\ tag' = runs[r].commit
  BY <1>1, <1>2 DEF MoveTag, Goto, RunRecord, Run
<1>4. UNCHANGED <<built, release, reproducible, disturbed>>
  BY DEF MoveTag, events
<1>5. ASSUME LastSound(runs[r])
      PROVE  LastSound(run)'
  <2>1. tag' = PinOf(run)
    BY <1>2, <1>3, <1>5 DEF LastSound, PinOf
  <2>2. run.build \in DOMAIN built /\ built[run.build] = run.from.source
    BY <1>2, <1>3 DEF RunSound
  <2>3. tag'.source = run.from.source /\ tag'.pin = run.build
    BY <2>1 DEF PinOf
  <2>4. tag' \in CommitOf'
    BY <1>2, <1>3, <1>4, <2>1, <2>2 DEF CommitOf, PinOf, RunRecord, Commits
  <2> QED
    BY <1>3, <1>4, <1>5, <2>1, <2>2, <2>3, <2>4 DEF LastSound, PinOf
<1>6. Active(r) /\ DOMAIN runs' = DOMAIN runs /\ \A q \in Run \ {r} : runs'[q] = runs[q]
  BY DEF MoveTag, Goto, Active, Run
<1>7. reproducible => Distinct'
  BY <1>4 DEF QuietInv, Distinct
<1> QED
  BY <1>1, <1>4, <1>5, <1>6, <1>7, LastTurn

LEMMA PublishQuiet ==
  ASSUME GreenInv, GreenInv', QuietInv, NEW r \in Run, Publish(r)
  PROVE  QuietInv'
<1>1. PICK run : run = runs'[r]
  OBVIOUS
<1>2. /\ run.from = runs[r].from /\ run.build = runs[r].build
      /\ run.todo = Asset /\ run.at \in {"create", "upload"}
      /\ run.at = "create" => release = None
  BY <1>1, RunOf DEF Publish, RunRecord, Run
<1>3. UNCHANGED <<tag, built, release, reproducible, disturbed>>
  BY DEF Publish, events
<1>4. LastSound(runs[r]) => LastSound(run)'
  BY <1>2, <1>3 DEF Publish, LastSound, CommitOf, PinOf
<1>5. Active(r) /\ DOMAIN runs' = DOMAIN runs /\ \A q \in Run \ {r} : runs'[q] = runs[q]
  BY DEF Publish, Active, Run
<1>6. reproducible => Distinct'
  BY <1>3 DEF QuietInv, Distinct
<1> QED
  BY <1>1, <1>3, <1>4, <1>5, <1>6, LastTurn

LEMMA CreateQuiet ==
  ASSUME GreenInv, GreenInv', QuietInv, NEW r \in Run, Create(r)
  PROVE  QuietInv'
<1>1. PICK run : run = runs'[r]
  OBVIOUS
<1>2. runs[r] \in RunRecord /\ RunSound(runs[r]) /\ runs[r].at = "create"
  BY RunOf DEF Create
<1>3. /\ run.from = runs[r].from /\ run.build = runs[r].build /\ run.todo = runs[r].todo
      /\ run.at \in {"fill", "failed"}
  BY <1>1, <1>2 DEF Create, Goto, RunRecord, Run
<1>4. UNCHANGED <<tag, built, reproducible, disturbed>>
  BY DEF Create, events
<1>5. LastSound(runs[r]) => LastSound(run)'
  BY <1>2, <1>3, <1>4 DEF LastSound, CommitOf, PinOf
<1>6. Active(r) /\ DOMAIN runs' = DOMAIN runs /\ \A q \in Run \ {r} : runs'[q] = runs[q]
  BY DEF Create, Goto, Active, Run
<1>7. reproducible => Distinct'
  BY <1>4 DEF QuietInv, Distinct
<1> QED
  BY <1>1, <1>4, <1>5, <1>6, <1>7, LastTurn

\* An asset leaves the list of those to upload as it is replaced.
LEMMA UploadQuiet ==
  ASSUME GreenInv, GreenInv', QuietInv, NEW r \in Run, Upload(r)
  PROVE  QuietInv'
<1>1. PICK run : run = runs'[r]
  OBVIOUS
<1>2. runs[r] \in RunRecord /\ RunSound(runs[r]) /\ runs[r].at \in {"fill", "upload"}
  BY RunOf DEF Upload
<1>3. PICK a \in runs[r].todo :
        /\ release' = [release EXCEPT ![a] = runs[r].build]
        /\ runs' = [runs EXCEPT
             ![r].todo = @ \ {a},
             ![r].at = IF runs[r].todo # {a} THEN @
                       ELSE IF @ = "fill" THEN "announce" ELSE "done"]
  BY DEF Upload
<1>4. /\ run.from = runs[r].from /\ run.build = runs[r].build
      /\ run.todo = runs[r].todo \ {a}
      /\ run.at \in {"fill", "upload", "announce", "done"}
      /\ run.at \in {"announce", "done"} => run.todo = {}
  BY <1>1, <1>2, <1>3 DEF RunRecord, Run
<1>5. UNCHANGED <<tag, built, reproducible, disturbed>>
  BY DEF Upload, events
<1>6. /\ \A o \in Asset : release'[o] = IF o = a THEN runs[r].build ELSE release[o]
      /\ release' # None
  <2>1. release \in [Asset -> DOMAIN built \cup {None}] /\ runs[r].build \in DOMAIN built
    BY <1>2 DEF RunSound, ReleaseGreen
  <2>2. DOMAIN built \subseteq Nat
    BY LenProperties DEF GreenInv
  <2>3. release' \in [{"tgz", "zip"} -> Nat \cup {None}]
    BY <1>3, <2>1, <2>2 DEF Asset
  <2> QED
    BY <1>3, <2>1, <2>3, ReleaseAssumption
<1>7. ASSUME LastSound(runs[r])
      PROVE  LastSound(run)'
  <2>1. \A o \in Asset \ run.todo : release'[o] = run.build
    BY <1>2, <1>4, <1>6, <1>7 DEF LastSound
  <2>2. run.at \in {"announce", "done"} => run.todo = {}
    BY <1>4
  <2>3. tag = PinOf(run)
    BY <1>2, <1>4, <1>7 DEF LastSound, PinOf
  <2> QED
    BY <1>4, <1>5, <1>6, <1>7, <2>1, <2>2, <2>3 DEF LastSound, CommitOf, PinOf
<1>8. Active(r) /\ DOMAIN runs' = DOMAIN runs /\ \A q \in Run \ {r} : runs'[q] = runs[q]
  BY <1>3 DEF Upload, Active, Run
<1>9. reproducible => Distinct'
  BY <1>5 DEF QuietInv, Distinct
<1> QED
  BY <1>1, <1>5, <1>7, <1>8, <1>9, LastTurn

LEMMA AnnounceQuiet ==
  ASSUME GreenInv, GreenInv', QuietInv, NEW r \in Run, Announce(r)
  PROVE  QuietInv'
<1>1. PICK run : run = runs'[r]
  OBVIOUS
<1>2. runs[r] \in RunRecord /\ runs[r].at = "announce"
  BY RunOf DEF Announce
<1>3. run.from = runs[r].from /\ run.build = runs[r].build /\ run.at = "done"
  BY <1>1, <1>2 DEF Announce, Goto, RunRecord, Run
<1>4. UNCHANGED <<tag, built, release, reproducible, disturbed>>
  BY DEF Announce, events
<1>5. LastSound(runs[r]) => LastSound(run)'
  BY <1>2, <1>3, <1>4 DEF LastSound, CommitOf, PinOf
<1>6. Active(r) /\ DOMAIN runs' = DOMAIN runs /\ \A q \in Run \ {r} : runs'[q] = runs[q]
  BY DEF Announce, Goto, Active, Run
<1>7. reproducible => Distinct'
  BY <1>4 DEF QuietInv, Distinct
<1> QED
  BY <1>1, <1>4, <1>5, <1>6, <1>7, LastTurn

LEMMA DieQuiet ==
  ASSUME GreenInv, GreenInv', QuietInv, NEW r \in Run, Die(r)
  PROVE  QuietInv'
<1>1. PICK run : run = runs'[r]
  OBVIOUS
<1>2. run.from = runs[r].from /\ run.build = runs[r].build /\ run.at = "failed"
  BY <1>1, RunOf DEF Die, Goto, RunRecord, Run
<1>3. UNCHANGED <<tag, built, reproducible, disturbed>>
  BY DEF Die
<1>4. LastSound(runs[r]) => LastSound(run)'
  BY <1>2, <1>3 DEF LastSound, CommitOf
<1>5. Active(r) /\ DOMAIN runs' = DOMAIN runs /\ \A q \in Run \ {r} : runs'[q] = runs[q]
  BY DEF Die, Goto, Run
<1>6. reproducible => Distinct'
  BY <1>3 DEF QuietInv, Distinct
<1> QED
  BY <1>1, <1>3, <1>4, <1>5, <1>6, LastTurn

\* A rerun that disturbs nothing is of the last run.
LEMMA AgainQuiet ==
  ASSUME GreenInv, GreenInv', QuietInv, NEW r \in Run, Rerun(r) \/ RerunAny(r)
  PROVE  QuietInv'
<1>1. Again(r) /\ (~disturbed' => ~disturbed /\ r = Len(runs))
  BY DEF Rerun, RerunAny, Again
<1>2. PICK at \in {"check", "pin"} : runs' = [runs EXCEPT ![r].at = at]
  BY <1>1 DEF Again, Goto
<1>3. PICK run : run = runs'[r]
  OBVIOUS
<1>4. run.from = runs[r].from /\ run.build = runs[r].build /\ run.at \in {"check", "pin"}
  BY <1>2, <1>3, RunOf DEF RunRecord, Run
<1>5. UNCHANGED <<tag, built, release, reproducible>>
  BY <1>1 DEF Again
<1>6. LastSound(runs[r]) => LastSound(run)'
  BY <1>4, <1>5 DEF LastSound, CommitOf
<1>7. DOMAIN runs' = DOMAIN runs /\ \A q \in Run \ {r} : runs'[q] = runs[q]
  BY <1>2 DEF Run
<1>8. reproducible => Distinct'
  BY <1>5 DEF QuietInv, Distinct
<1>9. CASE disturbed'
  BY <1>5, <1>8, <1>9 DEF QuietInv
<1>10. CASE ~disturbed'
  BY <1>1, <1>3, <1>5, <1>6, <1>7, <1>8, <1>10, LastTurn
<1> QED
  BY <1>9, <1>10

\* A push begins a run of its own; if all others are over, nothing that was
\* disturbed before is seen by it.
LEMMA PushTagQuiet ==
  ASSUME GreenInv, GreenInv', QuietInv, NEW c \in Taggable, PushTag(c)
  PROVE  QuietInv'
<1> DEFINE new == [from |-> c, at |-> "check", build |-> None,
                   commit |-> None, todo |-> {}]
<1>1. GreenIfPinned(c)
  BY DEF Taggable, GreenInv, GreenIfPinned, CommitOf
<1>2. new \in RunRecord
  <2>1. DOMAIN built \subseteq Nat
    BY LenProperties DEF GreenInv
  <2> QED
    BY <1>1, <2>1 DEF RunRecord, GreenIfPinned, CommitOf, Commits, Pins, Stage
<1>3. runs \in Seq(RunRecord) /\ runs' = Append(runs, new)
  BY DEF PushTag, GreenInv
<1>4. LastSound(new)'
  BY <1>1 DEF PushTag, LastSound, GreenIfPinned, CommitOf
<1> HIDE DEF new
<1>5. /\ Len(runs') = Len(runs) + 1 /\ runs'[Len(runs) + 1] = new
      /\ \A q \in 1 .. Len(runs) : runs'[q] = runs[q]
      /\ runs' \in Seq(RunRecord)
  BY <1>2, <1>3, AppendProperties
<1>6. /\ Len(runs) \in Nat /\ DOMAIN runs = 1 .. Len(runs)
      /\ DOMAIN runs' = 1 .. (Len(runs) + 1)
  BY <1>3, <1>5, LenProperties
<1>7. ~disturbed' => Resting
  BY DEF PushTag
<1>8. ASSUME ~disturbed', NEW q \in Run', q # Len(runs')
      PROVE  ~Active(q)'
  <2>1. q \in Run
    BY <1>5, <1>6, <1>8 DEF Run
  <2>2. runs'[q] = runs[q]
    BY <1>5, <1>6, <2>1 DEF Run
  <2> QED
    BY <1>7, <1>8, <2>1, <2>2 DEF Resting, Active
<1>9. LastSound(Latest)'
  <2>1. Latest' = new
    BY <1>5 DEF Latest
  <2> QED
    BY <1>4, <2>1 DEF LastSound
<1>10. reproducible' = reproducible /\ (reproducible => Distinct')
  BY DEF PushTag, QuietInv, Distinct
<1> QED
  BY <1>8, <1>9, <1>10 DEF QuietInv

LEMMA QuietInit ==
  ASSUME Init
  PROVE  QuietInv
<1>1. DOMAIN runs = {} /\ DOMAIN built = {}
  BY DEF Init
<1> QED
  BY <1>1 DEF Init, QuietInv, Distinct, Run

LEMMA QuietNext ==
  ASSUME GreenInv, GreenInv', QuietInv, [Next]_vars
  PROVE  QuietInv'
<1>1. ASSUME NEW c \in Taggable, PushTag(c)
      PROVE  QuietInv'
  BY <1>1, PushTagQuiet
<1>2. ASSUME NEW r \in Run, Step(r)
      PROVE  QuietInv'
  BY <1>2, CheckQuiet, BuildQuiet, PinQuiet, PushBranchQuiet, MoveTagQuiet,
     PublishQuiet, CreateQuiet, UploadQuiet, AnnounceQuiet DEF Step
<1>3. ASSUME NEW r \in Run, Die(r) \/ Rerun(r) \/ RerunAny(r)
      PROVE  QuietInv'
  BY <1>3, DieQuiet, AgainQuiet
<1>4. ASSUME UNCHANGED vars
      PROVE  QuietInv'
  BY <1>4 DEF vars, QuietInv, Distinct, Run, Active, Latest, LastSound, CommitOf
<1> QED
  BY <1>1, <1>2, <1>3, <1>4 DEF Next

LEMMA AlwaysQuiet == Spec => []QuietInv
<1>1. GreenInv /\ GreenInv' /\ QuietInv /\ [Next]_vars => QuietInv'
  BY QuietNext
<1> QED
  BY <1>1, AlwaysGreen, QuietInit, PTL DEF Spec

\* "The tag has to end up on a commit whose Package.swift points at the
\* uploaded zip" (release.yml:116-117): after any deaths and any reruns, and
\* whatever happened before the last push of the tag, a finished release has the
\* tag pin the build every asset is of, if since that push no two runs have
\* overlapped and no earlier run was run again; and a release is public unless
\* a run died as it made it.
THEOREM TheTagPinsTheAsset == Spec => []TagPinsTheAsset
<1>1. GreenInv /\ QuietInv /\ DraftInv => TagPinsTheAsset
  <2> SUFFICES ASSUME GreenInv, QuietInv, DraftInv, Settled
               PROVE  draft # "making" /\ (~disturbed => Pinned)
    BY DEF TagPinsTheAsset
  <2>1. draft # "making"
    BY DEF DraftInv, Settled, Resting, Active
  <2>2. ASSUME ~disturbed
        PROVE  Pinned
    <3>1. LastSound(Latest) /\ Latest.at = "done"
      BY <2>2 DEF QuietInv, Settled
    <3>2. /\ tag = PinOf(Latest) /\ release # None
          /\ \A a \in Asset : release[a] = Latest.build
      BY <3>1 DEF LastSound, PinOf
    <3> QED
      BY <3>2 DEF Pinned, PinOf
  <2> QED
    BY <2>1, <2>2
<1> QED
  BY <1>1, AlwaysGreen, AlwaysQuiet, AlwaysDraft, PTL

\* The tag of a run moves onto a build of the source the run found it on.
LEMMA TagStays ==
  ASSUME GreenInv, QuietInv, [Next]_vars,
         tag # None, tag'.source # tag.source, ~disturbed
  PROVE  Len(runs') > Len(runs)
<1>1. ASSUME NEW r \in Run, MoveTag(r)
      PROVE  FALSE
  <2>1. Len(runs) \in Nat /\ Run = 1 .. Len(runs)
    BY LenProperties DEF GreenInv, Run
  <2>2. r = Len(runs) /\ runs # <<>>
    BY <1>1, <2>1 DEF QuietInv, MoveTag, Active, Run
  <2>3. LastSound(runs[r]) /\ runs[r].at = "move_tag" /\ tag' = runs[r].commit
    BY <1>1, <2>2 DEF QuietInv, Latest, MoveTag
  <2>4. tag'.source = runs[r].from.source /\ tag.source = runs[r].from.source
    BY <2>3 DEF LastSound, PinOf
  <2> QED
    BY <2>4
<1>2. ASSUME NEW c \in Taggable, PushTag(c)
      PROVE  Len(runs') = Len(runs) + 1 /\ Len(runs) \in Nat
  <2>1. GreenIfPinned(c)
    BY DEF Taggable, GreenInv, GreenIfPinned, CommitOf
  <2>2. DOMAIN built \subseteq Nat
    BY LenProperties DEF GreenInv
  <2>3. [from |-> c, at |-> "check", build |-> None, commit |-> None, todo |-> {}]
          \in RunRecord
    BY <2>1, <2>2 DEF RunRecord, GreenIfPinned, CommitOf, Commits, Pins, Stage
  <2> QED
    BY <1>2, <2>3, AppendProperties, LenProperties DEF PushTag, GreenInv
<1>3. ASSUME NEW r \in Run,
             \/ Check(r) \/ Build(r) \/ Pin(r) \/ PushBranch(r) \/ Publish(r)
             \/ Create(r) \/ Upload(r) \/ Announce(r) \/ Die(r) \/ Rerun(r) \/ RerunAny(r)
      PROVE  UNCHANGED tag
  BY <1>3 DEF Check, Build, Pin, PushBranch, Publish, Create, Upload, Announce, Die,
     Rerun, RerunAny, Again
<1> QED
  BY <1>1, <1>2, <1>3 DEF Next, Step, vars

\* No run moves the tag to another source (release.yml:141-148), unless since the
\* last push two runs have overlapped or an earlier run was run again.
THEOREM TheTagKeepsItsSource == Spec => TagKeepsItsSource
<1>1. GreenInv /\ QuietInv /\ [Next]_vars =>
        [tag # None /\ tag'.source # tag.source /\ ~disturbed =>
           Len(runs') > Len(runs)]_vars
  BY TagStays
<1> QED
  BY <1>1, AlwaysGreen, AlwaysQuiet, PTL DEF Spec, TagKeepsItsSource

-----------------------------------------------------------------------------
(* Runs come to an end.                                                    *)

\* A run of a green commit that nothing disturbs fails only if it dies: the
\* checks pass it, and the release it is to create is not there
\* (release.yml, "gh release view" before "gh release create").
GreenRunsGoThrough ==
  [][\A r \in Run :
       Active(r) /\ runs'[r].at = "failed" /\ ~disturbed =>
         runs[r].from.source \notin Green \/ incidents' > incidents]_vars

\* How many steps a run takes at most before it ends.
StepsLeft(run) ==
  CASE run.at = "check"       -> 10
    [] run.at = "build"       -> 9
    [] run.at = "pin"         -> 8
    [] run.at = "push_branch" -> 7
    [] run.at = "move_tag"    -> 6
    [] run.at = "publish"     -> 5
    [] run.at = "create"      -> 4
    [] run.at = "fill"        -> IF run.todo = Asset THEN 3 ELSE 2
    [] run.at = "upload"      -> IF run.todo = Asset THEN 2 ELSE 1
    [] run.at = "announce"    -> 1
    [] run.at \in {"done", "failed"} -> 0

\* Whatever other runs do, no run takes more than ten steps: each step of it
\* leaves fewer, and neither an upload nor a release that another run has created
\* meanwhile sends it back.
RunsEnd ==
  [][\A r \in Run :
       Step(r) => /\ StepsLeft(runs'[r]) \in 0 .. 9
                  /\ StepsLeft(runs'[r]) < StepsLeft(runs[r])]_vars

\* The cases of StepsLeft, one by one.
LEMMA StepsLeftIs ==
  ASSUME NEW run
  PROVE  /\ run.at = "check" => StepsLeft(run) = 10
         /\ run.at = "build" => StepsLeft(run) = 9
         /\ run.at = "pin" => StepsLeft(run) = 8
         /\ run.at = "push_branch" => StepsLeft(run) = 7
         /\ run.at = "move_tag" => StepsLeft(run) = 6
         /\ run.at = "publish" => StepsLeft(run) = 5
         /\ run.at = "create" => StepsLeft(run) = 4
         /\ run.at = "fill" => StepsLeft(run) = IF run.todo = Asset THEN 3 ELSE 2
         /\ run.at = "upload" => StepsLeft(run) = IF run.todo = Asset THEN 2 ELSE 1
         /\ run.at = "announce" => StepsLeft(run) = 1
         /\ run.at \in {"done", "failed"} => StepsLeft(run) = 0
BY DEF StepsLeft

\* Where a step takes a run, and that a failure of it is a red check or a release
\* that is there already.
LEMMA StepLeads ==
  ASSUME GreenInv, NEW r \in Run, Step(r)
  PROVE  /\ StepsLeft(runs'[r]) \in 0 .. 9
         /\ StepsLeft(runs'[r]) < StepsLeft(runs[r])
         /\ runs'[r].at = "failed" =>
              \/ runs[r].from.source \notin Green
              \/ runs[r].at = "create" /\ release # None
<1> PICK old, new : old = runs[r] /\ new = runs'[r]
  OBVIOUS
<1>1. old = runs[r] /\ new = runs'[r]
  OBVIOUS
<1>2. old \in RunRecord
  BY <1>1, RunOf
<1> SUFFICES /\ StepsLeft(new) \in 0 .. 9
             /\ StepsLeft(new) < StepsLeft(old)
             /\ new.at = "failed" =>
                  \/ old.from.source \notin Green
                  \/ old.at = "create" /\ release # None
  OBVIOUS
<1>3. CASE Check(r)
  <2>1. /\ old.at = "check" /\ new.at \in {"build", "failed"}
        /\ new.at = "failed" => old.from.source \notin Green
    BY <1>1, <1>2, <1>3 DEF Check, Goto, RunRecord, Run
  <2> QED
    BY <2>1, StepsLeftIs
<1>4. CASE Build(r) \/ Pin(r) \/ PushBranch(r) \/ MoveTag(r)
  <2>1. \/ old.at = "build" /\ new.at = "pin"
        \/ old.at = "pin" /\ new.at \in {"publish", "push_branch"}
        \/ old.at = "push_branch" /\ new.at = "move_tag"
        \/ old.at = "move_tag" /\ new.at = "publish"
    <3>1. Build(r) => old.at = "build" /\ new.at = "pin"
      BY <1>2 DEF Build, RunRecord, Run
    <3>2. Pin(r) => old.at = "pin" /\ new.at \in {"publish", "push_branch"}
      BY <1>2 DEF Pin, RunRecord, Run
    <3>3. /\ PushBranch(r) => old.at = "push_branch" /\ new.at = "move_tag"
          /\ MoveTag(r) => old.at = "move_tag" /\ new.at = "publish"
      BY <1>2 DEF PushBranch, MoveTag, Goto, RunRecord, Run
    <3> QED
      BY <1>4, <3>1, <3>2, <3>3
  <2> QED
    BY <2>1, StepsLeftIs
<1>5. CASE Publish(r)
  <2>1. old.at = "publish" /\ new.at \in {"create", "upload"} /\ new.todo = Asset
    BY <1>1, <1>2, <1>5 DEF Publish, RunRecord, Run
  <2> QED
    BY <2>1, StepsLeftIs
<1>6. CASE Create(r)
  <2>1. /\ old.at = "create" /\ new.at \in {"fill", "failed"}
        /\ new.at = "failed" => release # None
    BY <1>1, <1>2, <1>6 DEF Create, Goto, RunRecord, Run
  <2> QED
    BY <2>1, StepsLeftIs
<1>7. CASE Upload(r)
  <2>1. PICK a \in old.todo :
          runs' = [runs EXCEPT
            ![r].todo = @ \ {a},
            ![r].at = IF old.todo # {a} THEN @
                      ELSE IF @ = "fill" THEN "announce" ELSE "done"]
    BY <1>1, <1>7 DEF Upload
  <2>2. old.at \in {"fill", "upload"} /\ old.todo \subseteq Asset
    BY <1>1, <1>2, <1>7 DEF Upload, RunRecord
  <2>3. /\ new.todo = old.todo \ {a}
        /\ new.at = IF old.todo # {a} THEN old.at
                    ELSE IF old.at = "fill" THEN "announce" ELSE "done"
    BY <1>1, <1>2, <2>1, <2>2 DEF RunRecord, Run
  <2>4. old.todo # {a} => old.todo = Asset /\ new.todo # Asset
    BY <2>2, <2>3 DEF Asset
  <2>5. CASE old.at = "fill"
    BY <2>3, <2>4, <2>5, StepsLeftIs
  <2>6. CASE old.at = "upload"
    BY <2>3, <2>4, <2>6, StepsLeftIs
  <2> QED
    BY <2>2, <2>5, <2>6
<1>8. CASE Announce(r)
  <2>1. old.at = "announce" /\ new.at = "done"
    BY <1>1, <1>2, <1>8 DEF Announce, Goto, RunRecord, Run
  <2> QED
    BY <2>1, StepsLeftIs
<1> QED
  BY <1>3, <1>4, <1>5, <1>6, <1>7, <1>8 DEF Step

\* A run that is not disturbed finds no release where it is to create one.
LEMMA FailureHasACause ==
  ASSUME GreenInv, QuietInv, [Next]_vars, NEW r \in Run,
         Active(r), runs'[r].at = "failed", ~disturbed
  PROVE  runs[r].from.source \notin Green \/ incidents' > incidents
<1>1. runs'[r] # runs[r]
  BY DEF Active
<1>2. CASE Step(r)
  <2>1. runs[r] = Latest /\ runs # <<>>
    BY DEF QuietInv, Latest, Run
  <2>2. LastSound(runs[r])
    BY <2>1 DEF QuietInv
  <2> QED
    BY <1>2, <2>2, StepLeads DEF LastSound
<1>3. CASE Die(r)
  <2>1. incidents \in Nat
    BY DEF GreenInv
  <2> QED
    BY <1>3, <2>1 DEF Die
<1>4. CASE Rerun(r) \/ RerunAny(r)
  BY <1>4 DEF Rerun, RerunAny, Active
<1>5. ASSUME NEW q \in Run, q # r, Step(q) \/ Die(q) \/ Rerun(q) \/ RerunAny(q)
      PROVE  FALSE
  BY <1>1, <1>5, OtherRunsStay
<1>6. ASSUME NEW c \in Taggable, PushTag(c)
      PROVE  FALSE
  <2>1. r \in 1 .. Len(runs) /\ Len(runs) \in Nat
    BY LenProperties DEF GreenInv, Run
  <2>2. runs'[r] = runs[r]
    BY <1>6, <2>1 DEF PushTag, GreenInv
  <2> QED
    BY <1>1, <2>2
<1>7. CASE UNCHANGED vars
  BY <1>1, <1>7 DEF vars
<1> QED
  BY <1>2, <1>3, <1>4, <1>5, <1>6, <1>7 DEF Next

\* A run of a green commit fails only by an incident, unless since the last push
\* two runs have overlapped or an earlier run was run again.
THEOREM GreenRunsAlwaysGoThrough == Spec => GreenRunsGoThrough
<1>1. GreenInv /\ QuietInv /\ [Next]_vars =>
        [\A r \in Run :
           Active(r) /\ runs'[r].at = "failed" /\ ~disturbed =>
             runs[r].from.source \notin Green \/ incidents' > incidents]_vars
  BY FailureHasACause
<1> QED
  BY <1>1, AlwaysGreen, AlwaysQuiet, PTL DEF Spec, GreenRunsGoThrough

\* No run goes round in circles, disturbed or not: of any, ten steps are the
\* most before it is done or has failed.
THEOREM RunsAlwaysEnd == Spec => RunsEnd
<1>1. GreenInv =>
        [\A r \in Run : Step(r) => /\ StepsLeft(runs'[r]) \in 0 .. 9
                                   /\ StepsLeft(runs'[r]) < StepsLeft(runs[r])]_vars
  BY StepLeads
<1> QED
  BY <1>1, AlwaysGreen, PTL DEF Spec, RunsEnd
=============================================================================
