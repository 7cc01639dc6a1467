----------------------------- MODULE Services_proofs -----------------------------
(***************************************************************************)
(* What holds of the parts of MCServices around the stores: the owner's    *)
(* sign-in, the sharing between members, the wrapping of other frameworks, *)
(* a release; for any apps, members, callers and bounds. A behaviour moves *)
(* one part; the invariant of a part is shown of the steps of that part    *)
(* alone.                                                                  *)
(***************************************************************************)
EXTENDS MCServices, TLAPS, SequenceTheorems, FiniteSetTheorems, FunctionTheorems

\* While a part moves, or nothing does, the part that moves stays the same.
LEMMA OnePartMoves ==
  ASSUME [Next]_vars
  PROVE  /\ part' = part
         /\ part = "sign-in" => [SignIn!OaNext]_SignInVars
         /\ part = "team" => [Team!TmNext]_TeamVars
         /\ part = "lang" => [Lang!LgNext]_LangVars
         /\ part = "release" => [Release!ReleaseNext]_ReleaseVars
  BY DEF Next, vars, Alone, TableMoves, OpeningMoves, PostgresMoves, SearchMoves, SignInMoves, TeamMoves, LangMoves,
         ReleaseMoves, ImportMoves

-----------------------------------------------------------------------------
(* The release scripts.                                                    *)

RlNumber == Release!RlVersions \cup {Release!NoVersion}
RlTree == [version : Release!RlVersions, pin : Release!RlVersions, notes : RlNumber]
RlCommit == [tree : RlTree, gated : BOOLEAN]
RlScript ==
  {Release!RlIdle}
  \cup [at : {"gates", "commit", "tag", "push main", "push tag", "connector"}, does : {"release", "pin"},
        version : Release!RlVersions]
  \cup [at : {"build", "kickstart"}, before : Nat]
  \cup [at : {"wait", "health"}, before : Nat, pid : Nat, tries : Nat]

RlCloneTypes ==
  /\ rlTree \in RlTree /\ rlMain \in Seq(RlCommit) /\ rlMain # <<>>
  /\ rlOrigin \in [has : Nat, others : BOOLEAN] /\ rlOrigin.has \in 1 .. Len(rlMain)
  /\ rlTags \in [names : [Release!RlVersions -> Nat], pushed : SUBSET Release!RlVersions]
  /\ rlNpm \in [staged : SUBSET Release!RlVersions, served : SUBSET Release!RlVersions, latest : Release!RlVersions]
  /\ rlNpm.served \subseteq rlNpm.staged /\ rlNpm.latest \in rlNpm.served

RlJobTypes ==
  /\ cnJob \in [pid : Nat, code : RlNumber] /\ cnDist \in RlNumber
  /\ cnLed \in [at : {"not run", "ok", "failed"}, version : RlNumber, answered : [pid : Nat, code : RlNumber],
                restarted : BOOLEAN]

\* Every pin that was ever committed, and the tree's, is served.
RlPinsOK ==
  /\ rlTree.pin \in rlNpm.served
  /\ \A n \in DOMAIN rlMain : rlMain[n].tree.pin \in rlNpm.served

\* A commit that the tag of v may name, and such a tag among the first commits.
RlReleased(commit, v) == commit.gated /\ commit.tree.version = v /\ commit.tree.notes = Release!NoVersion
RlTagged(main, upto, n, v) == n \in 1 .. upto /\ RlReleased(main[n], v)

RlTagsOK == \A v \in rlTags.pushed : RlTagged(rlMain, rlOrigin.has, rlTags.names[v], v)

\* The releasing script makes a tag that is not there, of what passed the gates.
RlScriptOK ==
  /\ rlRun.at \in {"gates", "commit", "tag"} /\ rlRun.does = "release" =>
       /\ rlTags.names[rlRun.version] = 0
       /\ rlTree.version = rlRun.version /\ rlTree.notes = Release!NoVersion
  /\ rlRun.at = "tag" => rlRun.does = "release" /\ RlReleased(Release!Tip, rlRun.version)
  /\ rlRun.at = "push main" /\ rlRun.does = "release" =>
       RlTagged(rlMain, Len(rlMain), rlTags.names[rlRun.version], rlRun.version)
  /\ rlRun.at = "push tag" => RlTagged(rlMain, rlOrigin.has, rlTags.names[rlRun.version], rlRun.version)

\* The job is the one from before, or loaded the new build, unless it came up
\* again while that was made.
RlNewBuild == cnLed.restarted \/ cnJob.pid = 0 \/ cnJob.code = cnLed.version
RlJobOK ==
  /\ rlRun.at = "build" => cnLed.version = rlTree.version /\ (cnLed.restarted \/ cnJob.pid \in {0, rlRun.before})
  /\ rlRun.at \in {"kickstart", "wait", "health"} => cnDist = cnLed.version
  /\ rlRun.at \in {"kickstart", "wait"} => RlNewBuild \/ cnJob.pid = rlRun.before
  /\ rlRun.at = "health" \/ (rlRun.at = "wait" /\ rlRun.pid # 0) => RlNewBuild
  /\ cnLed.at = "ok" /\ ~cnLed.restarted => cnLed.answered.code = cnLed.version

RlCloneInv == RlCloneTypes /\ RlPinsOK /\ RlTagsOK /\ RlScriptOK
RlInv == rlRun \in RlScript /\ RlCloneInv /\ RlJobTypes /\ RlJobOK

LEMMA RlInitInv == Release!ReleaseInit => RlInv
  <1> SUFFICES ASSUME Release!ReleaseInit PROVE RlInv
    OBVIOUS
  <1> DEFINE commit == [tree |-> rlTree, gated |-> TRUE]
  <1>1. 1 \in Release!RlVersions
    BY ServicesBounds DEF Release!RlVersions
  <1>2. rlTree \in RlTree /\ rlTree.version = 1 /\ rlTree.pin = 1 /\ rlTree.notes = Release!NoVersion
    BY <1>1 DEF Release!ReleaseInit, RlTree, RlNumber
  <1>3. commit \in RlCommit /\ rlMain = <<commit>>
    BY <1>2 DEF Release!ReleaseInit, RlCommit
  <1>4. rlMain \in Seq(RlCommit) /\ rlMain # <<>> /\ Len(rlMain) = 1 /\ DOMAIN rlMain = {1} /\ rlMain[1] = commit
    BY <1>3
  <1>5. /\ rlOrigin = [has |-> 1, others |-> FALSE]
        /\ rlTags.pushed = {1} /\ rlTags \in [names : [Release!RlVersions -> Nat], pushed : SUBSET Release!RlVersions]
        /\ rlTags.names[1] = 1
        /\ rlNpm = [staged |-> {1}, served |-> {1}, latest |-> 1] /\ rlRun = Release!RlIdle
    BY <1>1 DEF Release!ReleaseInit
  <1>6. RlCloneTypes
    BY <1>1, <1>2, <1>4, <1>5 DEF RlCloneTypes
  <1>7. RlPinsOK
    BY <1>2, <1>4, <1>5 DEF RlPinsOK
  <1>8. RlTagsOK
    BY <1>2, <1>4, <1>5 DEF RlTagsOK, RlTagged, RlReleased
  <1>9. RlScriptOK /\ rlRun \in RlScript
    BY <1>5 DEF RlScriptOK, Release!RlIdle, RlScript
  <1>10. RlJobTypes
    BY <1>1 DEF Release!ReleaseInit, RlJobTypes, RlNumber, Release!NotRun, Release!NoProcess
  <1>11. RlJobOK
    <2>1. rlRun.at = "idle" /\ cnLed.at = "not run"
      <3>1. rlRun = Release!RlIdle /\ cnLed = Release!NotRun
        BY DEF Release!ReleaseInit
      <3>2. QED
        BY <3>1 DEF Release!NotRun, Release!RlIdle
    <2>2. QED
      BY <2>1 DEF RlJobOK
  <1>12. QED
    BY <1>6, <1>7, <1>8, <1>9, <1>10, <1>11 DEF RlInv, RlCloneInv

\* What a script is about, by where it is.
LEMMA RlScriptAt ==
  ASSUME NEW run \in RlScript
  PROVE  /\ run.at \in {"gates", "commit", "tag", "push main", "push tag", "connector"} =>
              run \in [at : {"gates", "commit", "tag", "push main", "push tag", "connector"}, does : {"release", "pin"},
                       version : Release!RlVersions]
         /\ run.at \in {"build", "kickstart"} => run \in [at : {"build", "kickstart"}, before : Nat]
         /\ run.at \in {"wait", "health"} => run \in [at : {"wait", "health"}, before : Nat, pid : Nat, tries : Nat]
  <1>1. run = Release!RlIdle => run.at = "idle"
    BY DEF Release!RlIdle
  <1>2. run.at # "idle" => run # Release!RlIdle
    BY <1>1
  <1>3. CASE run.at \in {"gates", "commit", "tag", "push main", "push tag", "connector"}
    BY <1>2, <1>3 DEF RlScript
  <1>4. CASE run.at \in {"build", "kickstart"}
    BY <1>2, <1>4 DEF RlScript
  <1>5. CASE run.at \in {"wait", "health"}
    BY <1>2, <1>5 DEF RlScript
  <1>6. QED
    BY <1>3, <1>4, <1>5

\* A script that moves on is at the step it moves to, about the same version.
LEMMA RlMovesOn ==
  ASSUME NEW run \in RlScript, NEW at \in {"gates", "commit", "tag", "push main", "push tag", "connector"},
         run.at \in {"gates", "commit", "tag", "push main", "push tag", "connector"}
  PROVE  LET more == [run EXCEPT !.at = at] IN
         more \in RlScript /\ more.at = at /\ more.does = run.does /\ more.version = run.version
  BY RlScriptAt DEF RlScript

\* One more commit.
LEMMA RlAppended ==
  ASSUME NEW main \in Seq(RlCommit), NEW commit \in RlCommit
  PROVE  LET more == Append(main, commit) IN
         /\ more \in Seq(RlCommit) /\ more # <<>> /\ Len(more) = Len(main) + 1 /\ DOMAIN more = 1 .. Len(main) + 1
         /\ more[Len(main) + 1] = commit /\ \A n \in 1 .. Len(main) : more[n] = main[n]
  BY AppendProperties

\* A commit is made whose pin is served: what was tagged still is.
LEMMA RlCommitted ==
  ASSUME RlCloneInv, NEW commit \in RlCommit, commit.tree.pin \in rlNpm.served, rlMain' = Append(rlMain, commit),
         UNCHANGED <<rlOrigin, rlTags, rlNpm>>, rlTree' \in RlTree, rlTree'.pin \in rlNpm.served
  PROVE  RlCloneTypes' /\ RlPinsOK' /\ RlTagsOK' /\ Release!Tip' = commit
  <1>1. rlMain \in Seq(RlCommit) /\ rlOrigin.has \in 1 .. Len(rlMain) /\ Len(rlMain) \in Nat
    BY DEF RlCloneInv, RlCloneTypes
  <1>2. /\ rlMain' \in Seq(RlCommit) /\ rlMain' # <<>> /\ Len(rlMain') = Len(rlMain) + 1
        /\ DOMAIN rlMain' = 1 .. Len(rlMain) + 1 /\ DOMAIN rlMain = 1 .. Len(rlMain)
        /\ rlMain'[Len(rlMain) + 1] = commit /\ \A n \in 1 .. Len(rlMain) : rlMain'[n] = rlMain[n]
    BY <1>1, RlAppended
  <1>3. RlCloneTypes'
    BY <1>1, <1>2 DEF RlCloneInv, RlCloneTypes
  <1>4. RlPinsOK'
    <2>1. \A n \in 1 .. Len(rlMain) + 1 : n \in 1 .. Len(rlMain) \/ n = Len(rlMain) + 1
      BY <1>1
    <2>2. QED
      BY <1>2, <2>1 DEF RlCloneInv, RlPinsOK
  <1>5. RlTagsOK'
    <2>1. \A n \in 1 .. rlOrigin.has : n \in 1 .. Len(rlMain)
      BY <1>1
    <2>2. QED
      BY <1>2, <2>1 DEF RlCloneInv, RlTagsOK, RlTagged
  <1>6. Release!Tip' = commit
    BY <1>2 DEF Release!Tip
  <1>7. QED
    BY <1>3, <1>4, <1>5, <1>6

\* Steps between the scripts, and of the world.
LEMMA RlIdleInv ==
  ASSUME RlInv,
         \/ \E v \in Release!RlVersions : Release!WriteNotes(v) \/ Release!StartRelease(v)
         \/ Release!Discard \/ Release!PushByHand \/ Release!Pull \/ Release!StartPin
  PROVE  RlInv'
  <1>1. rlRun = Release!RlIdle /\ UNCHANGED <<cnJob, cnDist, cnLed, rlNpm, rlTags>>
    BY DEF Release!WriteNotes, Release!StartRelease, Release!Discard, Release!PushByHand, Release!Pull, Release!StartPin,
           Release!cnVars
  <1>2. RlCloneInv /\ RlJobTypes /\ rlMain \in Seq(RlCommit) /\ rlMain # <<>>
    BY DEF RlInv, RlCloneInv, RlCloneTypes
  <1>3. Release!Tip \in RlCommit /\ Release!Tip.tree \in RlTree /\ Release!Tip.tree.pin \in rlNpm.served
    <2>1. Len(rlMain) \in DOMAIN rlMain /\ rlMain[Len(rlMain)] \in RlCommit
      BY <1>2
    <2>2. QED
      BY <1>2, <2>1 DEF Release!Tip, RlCloneInv, RlPinsOK, RlCommit
  <1>4. rlRun'.at \in {"idle", "gates"} => RlJobTypes' /\ RlJobOK'
    BY <1>1 DEF RlInv, RlJobTypes, RlJobOK
  <1>5. ASSUME NEW v \in Release!RlVersions, Release!WriteNotes(v) PROVE RlInv'
    <2> DEFINE commit == [tree |-> rlTree', gated |-> FALSE]
    <2>1. /\ rlTree' = [rlTree EXCEPT !.notes = v] /\ rlMain' = Append(rlMain, commit)
          /\ rlRun' = rlRun /\ rlOrigin' = rlOrigin
      BY <1>5 DEF Release!WriteNotes
    <2>2. rlTree' \in RlTree /\ rlTree'.pin = rlTree.pin /\ rlTree.pin \in rlNpm.served
      BY <1>2, <2>1 DEF RlCloneInv, RlCloneTypes, RlTree, RlNumber, RlPinsOK
    <2>3. commit \in RlCommit /\ commit.tree = rlTree'
      BY <2>2 DEF RlCommit
    <2> HIDE DEF commit
    <2>4. RlCloneTypes' /\ RlPinsOK' /\ RlTagsOK'
      BY <1>1, <1>2, <2>1, <2>2, <2>3, RlCommitted
    <2>5. rlRun'.at = "idle" /\ rlRun' \in RlScript
      BY <1>1, <2>1 DEF Release!RlIdle, RlScript
    <2>6. RlScriptOK'
      BY <2>5 DEF RlScriptOK
    <2>7. QED
      BY <1>4, <2>4, <2>5, <2>6 DEF RlInv, RlCloneInv
  <1>6. ASSUME Release!PushByHand \/ Release!Pull PROVE RlInv'
    <2>1. rlTree' = rlTree /\ rlMain' = rlMain /\ rlRun' = rlRun
      BY <1>6 DEF Release!PushByHand, Release!Pull
    <2>2. /\ rlOrigin \in [has : Nat, others : BOOLEAN] /\ rlOrigin.has \in 1 .. Len(rlMain) /\ Len(rlMain) \in Nat
      BY <1>2 DEF RlCloneInv, RlCloneTypes
    <2>3. rlOrigin' \in [has : Nat, others : BOOLEAN] /\ rlOrigin'.has \in rlOrigin.has .. Len(rlMain)
      <3>1. CASE Release!PushByHand
        <4>1. rlOrigin' = [rlOrigin EXCEPT !.has = Len(rlMain)]
          BY <3>1 DEF Release!PushByHand
        <4>2. rlOrigin' \in [has : Nat, others : BOOLEAN] /\ rlOrigin'.has = Len(rlMain)
          BY <2>2, <4>1
        <4>3. QED
          BY <2>2, <4>2
      <3>2. CASE Release!Pull
        <4>1. rlOrigin' = [rlOrigin EXCEPT !.others = FALSE]
          BY <3>2 DEF Release!Pull
        <4>2. rlOrigin' \in [has : Nat, others : BOOLEAN] /\ rlOrigin'.has = rlOrigin.has
          BY <2>2, <4>1
        <4>3. QED
          BY <2>2, <4>2
      <3>3. QED
        BY <1>6, <3>1, <3>2
    <2>4. rlOrigin'.has \in 1 .. Len(rlMain)
      BY <2>2, <2>3
    <2>5. RlCloneTypes' /\ RlPinsOK'
      BY <1>1, <1>2, <2>1, <2>3, <2>4 DEF RlCloneInv, RlCloneTypes, RlPinsOK
    <2>6. RlTagsOK'
      <3>1. \A n \in 1 .. rlOrigin.has : n \in 1 .. rlOrigin'.has
        BY <2>2, <2>3
      <3>2. QED
        BY <1>1, <1>2, <2>1, <3>1 DEF RlCloneInv, RlTagsOK, RlTagged
    <2>7. rlRun'.at = "idle" /\ rlRun' \in RlScript
      BY <1>1, <2>1 DEF Release!RlIdle, RlScript
    <2>8. RlScriptOK'
      BY <2>7 DEF RlScriptOK
    <2>9. QED
      BY <1>4, <2>5, <2>6, <2>7, <2>8 DEF RlInv, RlCloneInv
  <1>7. ASSUME rlTree' \in RlTree, rlTree'.pin \in rlNpm.served, rlMain' = rlMain, rlOrigin' = rlOrigin
        PROVE  RlCloneTypes' /\ RlPinsOK' /\ RlTagsOK'
    BY <1>1, <1>2, <1>7 DEF RlCloneInv, RlCloneTypes, RlPinsOK, RlTagsOK
  <1>8. ASSUME Release!Discard PROVE RlInv'
    <2>1. rlTree' = Release!Tip.tree /\ rlMain' = rlMain /\ rlOrigin' = rlOrigin /\ rlRun' = rlRun
      BY <1>8 DEF Release!Discard
    <2>2. rlRun'.at = "idle" /\ rlRun' \in RlScript
      BY <1>1, <2>1 DEF Release!RlIdle, RlScript
    <2>3. RlScriptOK'
      BY <2>2 DEF RlScriptOK
    <2>4. QED
      BY <1>3, <1>4, <1>7, <2>1, <2>2, <2>3 DEF RlInv, RlCloneInv
  <1>9. ASSUME NEW v \in Release!RlVersions, Release!StartRelease(v) PROVE RlInv'
    <2>1. /\ rlTree' = [rlTree EXCEPT !.version = v, !.notes = Release!NoVersion] /\ rlMain' = rlMain /\ rlOrigin' = rlOrigin
          /\ rlRun' = [at |-> "gates", does |-> "release", version |-> v] /\ rlTags.names[v] = 0
      BY <1>9 DEF Release!StartRelease, Release!MayRelease
    <2>2. /\ rlTree' \in RlTree /\ rlTree'.pin = rlTree.pin /\ rlTree'.version = v /\ rlTree'.notes = Release!NoVersion
          /\ rlTree.pin \in rlNpm.served
      BY <1>2, <2>1 DEF RlCloneInv, RlCloneTypes, RlTree, RlNumber, RlPinsOK
    <2>3. rlRun'.at = "gates" /\ rlRun'.version = v /\ rlRun' \in RlScript
      BY <2>1 DEF RlScript
    <2>4. RlScriptOK'
      BY <1>1, <2>1, <2>2, <2>3 DEF RlScriptOK
    <2>5. QED
      BY <1>4, <1>7, <2>1, <2>2, <2>3, <2>4 DEF RlInv, RlCloneInv
  <1>10. ASSUME Release!StartPin PROVE RlInv'
    <2>1. /\ rlTree' = [rlTree EXCEPT !.pin = rlTree.version] /\ rlMain' = rlMain /\ rlOrigin' = rlOrigin
          /\ rlRun' = [at |-> "gates", does |-> "pin", version |-> rlTree.version] /\ rlNpm.latest = rlTree.version
      BY <1>10 DEF Release!StartPin, Release!MayPin
    <2>2. rlTree \in RlTree /\ rlTree.version \in rlNpm.served
      BY <1>2, <2>1 DEF RlCloneInv, RlCloneTypes
    <2>3. rlTree' \in RlTree /\ rlTree'.pin = rlTree.version /\ rlTree.version \in Release!RlVersions
      BY <2>1, <2>2 DEF RlTree
    <2>4. rlRun'.at = "gates" /\ rlRun'.does = "pin" /\ rlRun' \in RlScript
      BY <2>1, <2>3 DEF RlScript
    <2>5. RlScriptOK'
      BY <2>4 DEF RlScriptOK
    <2>6. QED
      BY <1>4, <1>7, <2>1, <2>2, <2>3, <2>4, <2>5 DEF RlInv, RlCloneInv
  <1>11. QED
    BY <1>5, <1>6, <1>8, <1>9, <1>10

\* The world moves, and the clone stays as it is.
LEMMA RlWorldInv ==
  ASSUME RlInv,
         Release!OthersPush \/ \E v \in Release!RlVersions : Release!StageVersion(v) \/ Release!ApproveVersion(v)
  PROVE  RlInv'
  <1>1. UNCHANGED <<rlTree, rlMain, rlTags, rlRun, cnJob, cnDist, cnLed>>
    BY DEF Release!OthersPush, Release!StageVersion, Release!ApproveVersion, Release!cnVars
  <1>2. RlCloneTypes
    BY DEF RlInv, RlCloneInv
  <1> DEFINE goal ==
        /\ rlOrigin' \in [has : Nat, others : BOOLEAN] /\ rlOrigin'.has = rlOrigin.has
        /\ rlNpm' \in [staged : SUBSET Release!RlVersions, served : SUBSET Release!RlVersions, latest : Release!RlVersions]
        /\ rlNpm'.served \subseteq rlNpm'.staged /\ rlNpm'.latest \in rlNpm'.served /\ rlNpm.served \subseteq rlNpm'.served
  <1>3. goal
    <2>1. CASE Release!OthersPush
      <3>1. rlOrigin' = [rlOrigin EXCEPT !.others = TRUE] /\ rlNpm' = rlNpm
        BY <2>1 DEF Release!OthersPush
      <3>2. QED
        BY <1>2, <3>1 DEF RlCloneTypes
    <2>2. ASSUME NEW v \in Release!RlVersions, Release!StageVersion(v) \/ Release!ApproveVersion(v)
          PROVE  /\ rlOrigin' = rlOrigin /\ v \in Release!RlVersions
                 /\ \/ rlNpm' = [rlNpm EXCEPT !.staged = rlNpm.staged \cup {v}]
                    \/ v \in rlNpm.staged /\ rlNpm' = [rlNpm EXCEPT !.served = rlNpm.served \cup {v}, !.latest = v]
      BY <2>2 DEF Release!StageVersion, Release!ApproveVersion
    <2>3. ASSUME NEW v \in Release!RlVersions, rlOrigin' = rlOrigin, rlNpm' = [rlNpm EXCEPT !.staged = rlNpm.staged \cup {v}]
          PROVE  goal
      BY <1>2, <2>3 DEF RlCloneTypes
    <2>4. ASSUME NEW v \in Release!RlVersions, rlOrigin' = rlOrigin, v \in rlNpm.staged,
                 rlNpm' = [rlNpm EXCEPT !.served = rlNpm.served \cup {v}, !.latest = v]
          PROVE  goal
      BY <1>2, <2>4 DEF RlCloneTypes
    <2>5. QED
      BY <2>1, <2>2, <2>3, <2>4
  <1>4. RlCloneTypes' /\ RlPinsOK' /\ RlTagsOK'
    BY <1>1, <1>3 DEF RlInv, RlCloneInv, RlCloneTypes, RlPinsOK, RlTagsOK
  <1>5. RlScriptOK'
    BY <1>1, <1>3 DEF RlInv, RlCloneInv, RlScriptOK, Release!Tip
  <1>6. QED
    BY <1>1, <1>4, <1>5 DEF RlInv, RlCloneInv, RlJobTypes, RlJobOK, RlNewBuild

\* The scripts' steps on the clone.
LEMMA RlReleaseInv ==
  ASSUME RlInv,
         \/ Release!GatesPass \/ Release!StopScript \/ Release!CommitTree \/ Release!TagCommit
         \/ Release!PushMain \/ Release!PushTag
  PROVE  RlInv'
  <1> DEFINE places == {"gates", "commit", "tag", "push main", "push tag", "connector"}
  <1>1. rlRun.at \in places /\ rlRun \in RlScript /\ UNCHANGED <<cnJob, cnDist, cnLed, rlTree, rlNpm>>
    BY DEF RlInv, Release!GatesPass, Release!StopScript, Release!CommitTree, Release!TagCommit, Release!PushMain,
           Release!PushTag, Release!cnVars
  <1>2. /\ RlCloneInv /\ RlJobTypes /\ RlCloneTypes /\ RlPinsOK /\ RlTagsOK /\ RlScriptOK
        /\ rlOrigin.has \in 1 .. Len(rlMain) /\ Len(rlMain) \in Nat
    BY DEF RlInv, RlCloneInv, RlCloneTypes
  <1>3. rlRun.version \in Release!RlVersions
    BY <1>1, RlScriptAt
  <1>4. rlRun'.at \in places \cup {"idle"} => RlJobTypes' /\ RlJobOK'
    BY <1>1 DEF RlInv, RlJobTypes, RlJobOK
  <1>5. ASSUME NEW at \in places, Release!RlGoes(at)
        PROVE  rlRun'.at = at /\ rlRun' \in RlScript /\ rlRun'.does = rlRun.does /\ rlRun'.version = rlRun.version
    <2>1. rlRun' = [rlRun EXCEPT !.at = at]
      BY <1>5 DEF Release!RlGoes
    <2>2. QED
      BY <1>1, <2>1, RlMovesOn
  <1>6. Release!RlGoes("idle") => rlRun'.at = "idle" /\ rlRun' \in RlScript
    BY DEF Release!RlGoes, Release!RlIdle, RlScript
  <1>7. ASSUME Release!GatesPass PROVE RlInv'
    <2>1. rlRun.at = "gates" /\ Release!RlGoes("commit") /\ UNCHANGED <<rlMain, rlOrigin, rlTags>>
      BY <1>7 DEF Release!GatesPass
    <2>2. /\ rlRun'.at = "commit" /\ rlRun' \in RlScript /\ rlRun'.does = rlRun.does /\ rlRun'.version = rlRun.version
      BY <1>5, <2>1
    <2>3. RlScriptOK'
      BY <1>1, <1>2, <2>1, <2>2 DEF RlScriptOK
    <2>4. RlCloneTypes' /\ RlPinsOK' /\ RlTagsOK'
      BY <1>1, <1>2, <2>1 DEF RlCloneTypes, RlPinsOK, RlTagsOK
    <2>5. QED
      BY <1>4, <2>2, <2>3, <2>4 DEF RlInv, RlCloneInv
  <1>8. ASSUME Release!StopScript PROVE RlInv'
    <2>1. rlRun'.at = "idle" /\ rlRun' \in RlScript /\ UNCHANGED <<rlMain, rlOrigin, rlTags>>
      BY <1>6, <1>8 DEF Release!StopScript
    <2>2. RlScriptOK'
      BY <2>1 DEF RlScriptOK
    <2>3. RlCloneTypes' /\ RlPinsOK' /\ RlTagsOK'
      BY <1>1, <1>2, <2>1 DEF RlCloneTypes, RlPinsOK, RlTagsOK
    <2>4. QED
      BY <1>4, <2>1, <2>2, <2>3 DEF RlInv, RlCloneInv
  <1>9. ASSUME Release!CommitTree PROVE RlInv'
    <2> DEFINE commit == [tree |-> rlTree, gated |-> TRUE]
    <2>1. /\ rlRun.at = "commit" /\ rlMain' = Append(rlMain, commit) /\ UNCHANGED <<rlOrigin, rlTags>>
          /\ Release!RlGoes(IF rlRun.does = "release" THEN "tag" ELSE "push main")
      BY <1>9 DEF Release!CommitTree
    <2>2. /\ rlRun'.at = (IF rlRun.does = "release" THEN "tag" ELSE "push main") /\ rlRun' \in RlScript
          /\ rlRun'.does = rlRun.does /\ rlRun'.version = rlRun.version
      BY <1>5, <2>1
    <2>3. commit \in RlCommit /\ commit.tree = rlTree /\ commit.gated /\ rlTree.pin \in rlNpm.served /\ rlTree \in RlTree
      BY <1>2 DEF RlCommit, RlCloneTypes, RlPinsOK
    <2> HIDE DEF commit
    <2>4. RlCloneTypes' /\ RlPinsOK' /\ RlTagsOK' /\ Release!Tip' = commit
      BY <1>1, <1>2, <2>1, <2>3, RlCommitted
    <2>5. RlScriptOK'
      <3>1. CASE rlRun.does = "release"
        <4>1. rlRun'.at = "tag" /\ rlRun'.does = "release" /\ rlTree' = rlTree /\ rlTags' = rlTags
          BY <1>1, <2>1, <2>2, <3>1
        <4>2. rlTags.names[rlRun.version] = 0 /\ rlTree.version = rlRun.version /\ rlTree.notes = Release!NoVersion
          BY <1>2, <2>1, <3>1 DEF RlScriptOK
        <4>3. RlReleased(commit, rlRun.version)
          BY <2>3, <4>2 DEF RlReleased
        <4>4. QED
          BY <2>2, <2>4, <4>1, <4>2, <4>3 DEF RlScriptOK
      <3>2. CASE rlRun.does # "release"
        <4>1. rlRun'.at = "push main" /\ rlRun'.does # "release"
          BY <2>2, <3>2
        <4>2. QED
          BY <4>1 DEF RlScriptOK
      <3>3. QED
        BY <3>1, <3>2
    <2>6. QED
      BY <1>4, <2>2, <2>4, <2>5 DEF RlInv, RlCloneInv
  <1>10. ASSUME Release!TagCommit PROVE RlInv'
    <2>1. /\ rlRun.at = "tag" /\ rlTags' = [rlTags EXCEPT !.names[rlRun.version] = Len(rlMain)]
          /\ Release!RlGoes("push main") /\ UNCHANGED <<rlMain, rlOrigin>>
      BY <1>10 DEF Release!TagCommit
    <2>2. rlRun'.at = "push main" /\ rlRun' \in RlScript /\ rlRun'.does = rlRun.does /\ rlRun'.version = rlRun.version
      BY <1>5, <2>1
    <2>3. rlRun.does = "release" /\ RlReleased(Release!Tip, rlRun.version) /\ rlTags.names[rlRun.version] = 0
      BY <1>2, <2>1 DEF RlScriptOK
    <2>4. /\ rlTags' \in [names : [Release!RlVersions -> Nat], pushed : SUBSET Release!RlVersions]
          /\ rlTags'.pushed = rlTags.pushed /\ rlTags.pushed \subseteq Release!RlVersions
          /\ \A v \in Release!RlVersions : rlTags'.names[v] = IF v = rlRun.version THEN Len(rlMain) ELSE rlTags.names[v]
      BY <1>2, <1>3, <2>1 DEF RlCloneTypes
    <2>5. Len(rlMain) \in 1 .. Len(rlMain)
      BY <1>2
    <2>6. RlScriptOK'
      <3>1. RlTagged(rlMain, Len(rlMain), rlTags'.names[rlRun.version], rlRun.version)
        BY <1>3, <2>3, <2>4, <2>5 DEF RlTagged, Release!Tip
      <3>2. QED
        BY <2>1, <2>2, <3>1 DEF RlScriptOK
    <2>7. RlTagsOK'
      <3>1. ASSUME NEW v \in rlTags.pushed PROVE v # rlRun.version
        BY <1>2, <2>3 DEF RlTagsOK, RlTagged
      <3>2. QED
        BY <1>2, <2>1, <2>4, <3>1 DEF RlTagsOK
    <2>8. RlCloneTypes' /\ RlPinsOK'
      BY <1>1, <1>2, <2>1, <2>4 DEF RlCloneTypes, RlPinsOK
    <2>9. QED
      BY <1>4, <2>2, <2>6, <2>7, <2>8 DEF RlInv, RlCloneInv
  <1>11. ASSUME Release!PushMain PROVE RlInv'
    <2>1. /\ rlRun.at = "push main" /\ rlOrigin' = [rlOrigin EXCEPT !.has = Len(rlMain)]
          /\ Release!RlGoes(IF rlRun.does = "release" THEN "push tag" ELSE "connector") /\ UNCHANGED <<rlMain, rlTags>>
      BY <1>11 DEF Release!PushMain
    <2>2. /\ rlRun'.at = (IF rlRun.does = "release" THEN "push tag" ELSE "connector") /\ rlRun' \in RlScript
          /\ rlRun'.version = rlRun.version
      BY <1>5, <2>1
    <2>3. rlOrigin' \in [has : Nat, others : BOOLEAN] /\ rlOrigin'.has = Len(rlMain)
      BY <1>2, <2>1 DEF RlCloneTypes
    <2>4. Len(rlMain) \in 1 .. Len(rlMain)
      BY <1>2
    <2>5. RlCloneTypes' /\ RlPinsOK'
      BY <1>1, <1>2, <2>1, <2>3, <2>4 DEF RlCloneTypes, RlPinsOK
    <2>6. RlTagsOK'
      <3>1. \A n \in 1 .. rlOrigin.has : n \in 1 .. Len(rlMain)
        BY <1>2
      <3>2. QED
        BY <1>2, <2>1, <2>3, <3>1 DEF RlTagsOK, RlTagged
    <2>7. RlScriptOK'
      <3>1. rlRun.does = "release" => RlTagged(rlMain, Len(rlMain), rlTags.names[rlRun.version], rlRun.version)
        BY <1>2, <2>1 DEF RlScriptOK
      <3>2. QED
        BY <2>1, <2>2, <2>3, <3>1 DEF RlScriptOK
    <2>8. QED
      BY <1>4, <2>2, <2>5, <2>6, <2>7 DEF RlInv, RlCloneInv
  <1>12. ASSUME Release!PushTag PROVE RlInv'
    <2>1. /\ rlRun.at = "push tag" /\ rlTags' = [rlTags EXCEPT !.pushed = rlTags.pushed \cup {rlRun.version}]
          /\ Release!RlGoes("idle") /\ UNCHANGED <<rlMain, rlOrigin>>
      BY <1>12 DEF Release!PushTag
    <2>2. rlRun'.at = "idle" /\ rlRun' \in RlScript
      BY <1>6, <2>1
    <2>3. /\ rlTags' \in [names : [Release!RlVersions -> Nat], pushed : SUBSET Release!RlVersions]
          /\ rlTags'.pushed = rlTags.pushed \cup {rlRun.version} /\ rlTags'.names = rlTags.names
      BY <1>2, <1>3, <2>1 DEF RlCloneTypes
    <2>4. RlTagged(rlMain, rlOrigin.has, rlTags.names[rlRun.version], rlRun.version)
      BY <1>2, <2>1 DEF RlScriptOK
    <2>5. RlTagsOK'
      BY <1>2, <2>1, <2>3, <2>4 DEF RlTagsOK
    <2>6. RlScriptOK'
      BY <2>2 DEF RlScriptOK
    <2>7. RlCloneTypes' /\ RlPinsOK'
      BY <1>1, <1>2, <2>1, <2>3 DEF RlCloneTypes, RlPinsOK
    <2>8. QED
      BY <1>4, <2>2, <2>5, <2>6, <2>7 DEF RlInv, RlCloneInv
  <1>13. QED
    BY <1>7, <1>8, <1>9, <1>10, <1>11, <1>12

\* The job goes and comes up, and the connector is refreshed.
LEMMA RlJobInv ==
  ASSUME RlInv,
         \/ Release!JobGoes \/ Release!PrintJob \/ Release!AskAgain \/ Release!GiveUpRefresh
         \/ \E pid \in 1 .. RlMaxPids : Release!JobComesUp(pid)
         \/ \E passes \in BOOLEAN : Release!RebuildDist(passes) \/ Release!Kickstart(passes) \/ Release!HealthAnswers(passes)
  PROVE  RlInv'
  <1>1. UNCHANGED <<rlTree, rlMain, rlOrigin, rlTags, rlNpm>>
    BY DEF Release!JobGoes, Release!PrintJob, Release!AskAgain, Release!GiveUpRefresh, Release!JobComesUp,
           Release!RebuildDist, Release!Kickstart, Release!HealthAnswers, Release!rlVars
  <1>2. rlRun \in RlScript /\ RlCloneInv /\ RlJobTypes /\ RlJobOK /\ rlTree.version \in RlNumber
    BY DEF RlInv, RlCloneInv, RlCloneTypes, RlTree, RlNumber
  <1>3. RlCloneTypes' /\ RlPinsOK' /\ RlTagsOK'
    BY <1>1, <1>2 DEF RlCloneInv, RlCloneTypes, RlPinsOK, RlTagsOK
  <1>4. rlRun'.at \in {"idle", "build", "kickstart", "wait", "health"} => RlScriptOK'
    BY DEF RlScriptOK
  <1>5. rlRun' = rlRun => RlScriptOK'
    BY <1>1, <1>2 DEF RlCloneInv, RlScriptOK, Release!Tip
  <1>6. SUFFICES rlRun' \in RlScript /\ RlJobTypes' /\ RlJobOK'
                 /\ (rlRun' = rlRun \/ rlRun'.at \in {"idle", "build", "kickstart", "wait", "health"})
    BY <1>3, <1>4, <1>5 DEF RlInv, RlCloneInv
  <1>7. Release!RlGoes("idle") => rlRun'.at = "idle" /\ rlRun' \in RlScript
    BY DEF Release!RlGoes, Release!RlIdle, RlScript
  <1>8. rlRun'.at = "idle" /\ (cnLed'.at = "ok" /\ ~cnLed'.restarted => cnLed'.answered.code = cnLed'.version) => RlJobOK'
    BY DEF RlJobOK
  <1>9. CASE Release!JobGoes
    <2>1. cnJob' = [cnJob EXCEPT !.pid = 0] /\ UNCHANGED <<rlRun, cnDist, cnLed>>
      BY <1>9 DEF Release!JobGoes, Release!rlVars
    <2>2. cnJob' \in [pid : Nat, code : RlNumber] /\ cnJob'.pid = 0
      BY <1>2, <2>1 DEF RlJobTypes
    <2>3. RlJobOK'
      BY <1>1, <1>2, <2>1, <2>2 DEF RlJobOK, RlNewBuild
    <2>4. QED
      BY <1>2, <2>1, <2>2, <2>3 DEF RlJobTypes
  <1>10. ASSUME NEW pid \in 1 .. RlMaxPids, Release!JobComesUp(pid)
         PROVE  rlRun' \in RlScript /\ RlJobTypes' /\ RlJobOK' /\ rlRun' = rlRun
    <2>1. /\ cnJob' = [pid |-> pid, code |-> cnDist] /\ UNCHANGED <<rlRun, cnDist>>
          /\ cnLed' = [cnLed EXCEPT !.restarted = cnLed.restarted \/ rlRun.at = "build"]
      BY <1>10 DEF Release!JobComesUp, Release!rlVars
    <2>2. cnJob' \in [pid : Nat, code : RlNumber] /\ cnJob'.code = cnDist
      <3>1. pid \in Nat
        BY ServicesBounds
      <3>2. QED
        BY <1>2, <2>1, <3>1 DEF RlJobTypes
    <2>3. /\ cnLed' \in [at : {"not run", "ok", "failed"}, version : RlNumber, answered : [pid : Nat, code : RlNumber],
                         restarted : BOOLEAN]
          /\ cnLed'.at = cnLed.at /\ cnLed'.version = cnLed.version /\ cnLed'.answered = cnLed.answered
      BY <1>2, <2>1 DEF RlJobTypes
    <2>4. cnLed'.restarted <=> (cnLed.restarted \/ rlRun.at = "build")
      BY <1>2, <2>1 DEF RlJobTypes
    <2>5. RlJobOK'
      BY <1>1, <1>2, <2>1, <2>2, <2>3, <2>4 DEF RlJobOK, RlNewBuild
    <2>6. QED
      BY <1>2, <2>1, <2>2, <2>3, <2>5 DEF RlJobTypes
  <1>11. CASE Release!PrintJob
    <2>1. /\ rlRun' = [at |-> "build", before |-> cnJob.pid] /\ cnLed' = [Release!NotRun EXCEPT !.version = rlTree.version]
          /\ UNCHANGED <<cnJob, cnDist>>
      BY <1>11 DEF Release!PrintJob
    <2>2. rlRun' \in RlScript /\ rlRun'.at = "build" /\ rlRun'.before = cnJob.pid
      BY <1>2, <2>1 DEF RlJobTypes, RlScript
    <2>3. /\ cnLed' \in [at : {"not run", "ok", "failed"}, version : RlNumber, answered : [pid : Nat, code : RlNumber],
                         restarted : BOOLEAN]
          /\ cnLed'.at = "not run" /\ cnLed'.version = rlTree.version
      BY <1>2, <2>1 DEF Release!NotRun, Release!NoProcess, RlNumber
    <2>4. RlJobOK'
      BY <1>1, <2>1, <2>2, <2>3 DEF RlJobOK
    <2>5. QED
      BY <1>2, <2>1, <2>2, <2>3, <2>4 DEF RlJobTypes
  <1>12. CASE Release!AskAgain
    <2>1. rlRun.at = "wait" /\ UNCHANGED <<cnJob, cnDist, cnLed>>
      BY <1>12 DEF Release!AskAgain, Release!cnVars
    <2>2. rlRun \in [at : {"wait", "health"}, before : Nat, pid : Nat, tries : Nat]
      BY <1>2, <2>1, RlScriptAt
    <2>3. cnJob.pid \in Nat
      BY <1>2 DEF RlJobTypes
    <2>4. CASE rlRun.pid = 0 /\ rlRun' = [rlRun EXCEPT !.tries = rlRun.tries + 1]
      <3>1. rlRun' \in RlScript /\ rlRun'.at = "wait" /\ rlRun'.pid = 0 /\ rlRun'.before = rlRun.before
        <4>1. rlRun.tries + 1 \in Nat
          BY <2>2
        <4>2. [rlRun EXCEPT !.tries = rlRun.tries + 1] \in [at : {"wait", "health"}, before : Nat, pid : Nat, tries : Nat]
          BY <2>2, <4>1
        <4>3. rlRun' \in RlScript
          BY <2>4, <4>2 DEF RlScript
        <4>4. QED
          BY <2>1, <2>2, <2>4, <4>3
      <3>2. QED
        BY <1>1, <1>2, <2>1, <3>1 DEF RlJobOK, RlJobTypes, RlNewBuild
    <2>5. CASE rlRun.pid = 0 /\ Release!NewPid /\ rlRun' = [rlRun EXCEPT !.at = "health", !.pid = cnJob.pid]
      <3>1. rlRun' \in RlScript /\ rlRun'.at = "health"
        BY <2>2, <2>3, <2>5 DEF RlScript
      <3>2. RlNewBuild
        BY <1>2, <2>1, <2>5 DEF RlJobOK, Release!NewPid
      <3>3. QED
        BY <1>1, <1>2, <2>1, <3>1, <3>2 DEF RlJobOK, RlJobTypes, RlNewBuild
    <2>6. CASE rlRun.pid # 0 /\ rlRun' = [rlRun EXCEPT !.at = "health"]
      <3>1. rlRun' \in RlScript /\ rlRun'.at = "health"
        BY <2>2, <2>6 DEF RlScript
      <3>2. RlNewBuild
        BY <1>2, <2>1, <2>6 DEF RlJobOK
      <3>3. QED
        BY <1>1, <1>2, <2>1, <3>1, <3>2 DEF RlJobOK, RlJobTypes, RlNewBuild
    <2>7. QED
      BY <1>12, <2>4, <2>5, <2>6 DEF Release!AskAgain
  <1>13. ASSUME cnLed' = [cnLed EXCEPT !.at = "failed"], Release!RlGoes("idle"), UNCHANGED <<cnJob, cnDist>>
         PROVE  rlRun' \in RlScript /\ RlJobTypes' /\ RlJobOK' /\ rlRun'.at = "idle"
    <2>1. cnLed' \in [at : {"not run", "ok", "failed"}, version : RlNumber, answered : [pid : Nat, code : RlNumber],
                      restarted : BOOLEAN] /\ cnLed'.at = "failed"
      BY <1>2, <1>13 DEF RlJobTypes
    <2>2. QED
      BY <1>2, <1>7, <1>8, <1>13, <2>1 DEF RlJobTypes
  <1>14. CASE Release!GiveUpRefresh
    BY <1>13, <1>14 DEF Release!GiveUpRefresh
  <1>15. ASSUME Release!RebuildDist(TRUE) \/ Release!Kickstart(TRUE)
         PROVE  rlRun' \in RlScript /\ RlJobTypes' /\ RlJobOK' /\ rlRun'.at \in {"kickstart", "wait"}
    <2>1. cnLed' = [cnLed EXCEPT !.at = cnLed.at] /\ cnJob' = cnJob /\ rlRun.at \in {"build", "kickstart"}
      BY <1>15 DEF Release!RebuildDist, Release!Kickstart
    <2>2. cnLed' = cnLed
      BY <1>2, <2>1 DEF RlJobTypes
    <2>3. rlRun \in [at : {"build", "kickstart"}, before : Nat]
      BY <1>2, <2>1, RlScriptAt
    <2>4. CASE Release!RebuildDist(TRUE)
      <3>1. rlRun.at = "build" /\ cnDist' = rlTree.version /\ rlRun' = [rlRun EXCEPT !.at = "kickstart"]
        BY <2>4 DEF Release!RebuildDist, Release!RlGoes
      <3>2. rlRun' \in RlScript /\ rlRun'.at = "kickstart" /\ rlRun'.before = rlRun.before
        BY <2>3, <3>1 DEF RlScript
      <3>3. QED
        BY <1>1, <1>2, <2>1, <2>2, <3>1, <3>2 DEF RlJobOK, RlJobTypes, RlNewBuild
    <2>5. CASE Release!Kickstart(TRUE)
      <3>1. /\ rlRun.at = "kickstart" /\ cnDist' = cnDist
            /\ rlRun' = [at |-> "wait", before |-> rlRun.before, pid |-> 0, tries |-> 0]
        BY <2>5 DEF Release!Kickstart
      <3>2. rlRun' \in RlScript /\ rlRun'.at = "wait" /\ rlRun'.before = rlRun.before /\ rlRun'.pid = 0
        BY <2>3, <3>1 DEF RlScript
      <3>3. QED
        BY <1>1, <1>2, <2>1, <2>2, <3>1, <3>2 DEF RlJobOK, RlJobTypes, RlNewBuild
    <2>6. QED
      BY <1>15, <2>4, <2>5
  <1>16. ASSUME Release!RebuildDist(FALSE) \/ Release!Kickstart(FALSE)
         PROVE  rlRun' \in RlScript /\ RlJobTypes' /\ RlJobOK' /\ rlRun'.at = "idle"
    BY <1>13, <1>16 DEF Release!RebuildDist, Release!Kickstart, Release!RlGoes
  <1>17. ASSUME Release!HealthAnswers(TRUE)
         PROVE  rlRun' \in RlScript /\ RlJobTypes' /\ RlJobOK' /\ rlRun'.at = "idle"
    <2>1. /\ rlRun.at = "health" /\ cnJob.pid # 0 /\ cnLed' = [cnLed EXCEPT !.at = "ok", !.answered = cnJob]
          /\ Release!RlGoes("idle") /\ UNCHANGED <<cnJob, cnDist>>
      BY <1>17 DEF Release!HealthAnswers
    <2>2. /\ cnLed' \in [at : {"not run", "ok", "failed"}, version : RlNumber, answered : [pid : Nat, code : RlNumber],
                         restarted : BOOLEAN]
          /\ cnLed'.answered = cnJob /\ cnLed'.version = cnLed.version /\ cnLed'.restarted = cnLed.restarted
      BY <1>2, <2>1 DEF RlJobTypes
    <2>3. cnLed.restarted \/ cnJob.code = cnLed.version
      BY <1>2, <2>1 DEF RlJobOK, RlNewBuild
    <2>4. RlJobOK'
      BY <1>7, <1>8, <2>1, <2>2, <2>3
    <2>5. QED
      BY <1>2, <1>7, <2>1, <2>2, <2>4 DEF RlJobTypes
  <1>18. ASSUME Release!HealthAnswers(FALSE)
         PROVE  rlRun' \in RlScript /\ RlJobTypes' /\ RlJobOK' /\ rlRun'.at = "wait"
    <2>1. /\ rlRun.at = "health" /\ rlRun' = [rlRun EXCEPT !.at = "wait", !.tries = rlRun.tries + 1]
          /\ UNCHANGED <<cnLed, cnJob, cnDist>>
      BY <1>18 DEF Release!HealthAnswers
    <2>2. rlRun \in [at : {"wait", "health"}, before : Nat, pid : Nat, tries : Nat]
      BY <1>2, <2>1, RlScriptAt
    <2>3. rlRun' \in RlScript /\ rlRun'.at = "wait"
      <3>1. rlRun.tries + 1 \in Nat
        BY <2>2
      <3>2. [rlRun EXCEPT !.at = "wait", !.tries = rlRun.tries + 1] \in [at : {"wait", "health"}, before : Nat, pid : Nat, tries : Nat]
        BY <2>2, <3>1
      <3>3. rlRun' \in RlScript
        BY <2>1, <3>2 DEF RlScript
      <3>4. QED
        BY <2>1, <2>2, <3>3
    <2>4. QED
      BY <1>1, <1>2, <2>1, <2>3 DEF RlJobOK, RlJobTypes, RlNewBuild
  <1>19. \A passes \in BOOLEAN : passes = TRUE \/ passes = FALSE
    OBVIOUS
  <1>20. QED
    BY <1>9, <1>10, <1>11, <1>12, <1>14, <1>15, <1>16, <1>17, <1>18, <1>19

LEMMA RlNextInv == ASSUME RlInv, [Release!ReleaseNext]_ReleaseVars PROVE RlInv'
  <1>1. CASE UNCHANGED ReleaseVars
    BY ZenonT(60), <1>1 DEF ReleaseVars, RlInv, RlCloneInv, RlCloneTypes, RlPinsOK, RlTagsOK, RlScriptOK, Release!Tip, RlJobTypes,
                RlJobOK, RlNewBuild
  <1>2. CASE Release!ReleaseNext
    BY <1>2, RlIdleInv, RlWorldInv, RlReleaseInv, RlJobInv DEF Release!ReleaseNext
  <1>3. QED
    BY <1>1, <1>2

\* However a release is stopped and run again, origin's install line names a
\* version that is served, a tag on it passed the gates, and a refreshed
\* connector that is called ok runs the new build (release.mjs, release-lib.mjs).
THEOREM ServicesReleasesAreGated == Spec => []ReleasesAreGated
  <1> DEFINE Inv == part = "release" => RlInv
  <1>1. Init => Inv
    BY RlInitInv DEF Init
  <1>2. Inv /\ [Next]_vars => Inv'
    BY OnePartMoves, RlNextInv
  <1>3. ASSUME RlInv PROVE Release!PinsAreServed
    <2>1. \A n \in 1 .. rlOrigin.has : n \in DOMAIN rlMain
      BY <1>3 DEF RlInv, RlCloneInv, RlCloneTypes
    <2>2. QED
      BY <1>3, <2>1 DEF RlInv, RlCloneInv, RlPinsOK, Release!PinsAreServed
  <1>4. ASSUME RlInv PROVE Release!TagsAreGated
    BY <1>4 DEF RlInv, RlCloneInv, RlTagsOK, RlTagged, RlReleased, Release!TagsAreGated
  <1>5. ASSUME RlInv PROVE Release!OkIsTheNewBuild
    BY <1>5 DEF RlInv, RlJobOK, Release!OkIsTheNewBuild
  <1>6. Inv => ReleasesAreGated
    BY <1>3, <1>4, <1>5 DEF ReleasesAreGated
  <1> HIDE DEF Inv
  <1>7. QED
    BY <1>1, <1>2, <1>6, PTL DEF Spec

-----------------------------------------------------------------------------
(* A team's memory.                                                        *)

TmFact == [scope : Team!Scopes, author : TmActors, from : Nat, by : TmActors \cup {Nobody},
           approvedBy : TmActors \cup {Nobody}, edited : BOOLEAN, text : Team!TmTexts,
           class : Team!TmClasses, archived : BOOLEAN, rests : Nat, closed : BOOLEAN, bin : Nat, back : BOOLEAN,
           again : BOOLEAN]
TmEvent == [purpose : {"promote", "withdraw"}, actor : TmActors, source : Nat, copy : Nat, to : Team!Scopes,
            approvedBy : TmActors \cup {Nobody}, text : Team!TmTexts, class : Team!TmClasses]
TmCall == [call : Nat, by : TmActors, source : Nat, req : Team!Requests]

TmTypes ==
  /\ tmFacts \in Seq(TmFact) /\ tmTrail \in Seq(TmEvent) /\ tmCalls \in Nat
  /\ tmJudged \subseteq TmCall /\ \A call, other \in tmJudged : call = other

\* What of a fact no operation changes, and how it may come back.
TmSame(old, new) == new.scope = old.scope /\ new.author = old.author /\ new.from = old.from
TmListed(fact) == ~fact.archived /\ fact.class # "Sealed"
TmBack(old, new) ==
  /\ old.back => new.back
  /\ old.again => new.again
  /\ ~TmListed(old) => ~TmListed(new) \/ new.again
  /\ old.closed => new.closed \/ new.back
  /\ old.bin # 0 => new.bin # 0 \/ new.back

\* A promotion to the scope is approved as the tenant asks.
TmApproved(approvals, setting, by, source, to, approvedBy) ==
  to = Org /\ ~setting.selfServe =>
    \/ ~setting.workflow /\ approvedBy = by /\ by \in TmAdmins
    \/ setting.workflow /\ [by |-> approvedBy, source |-> source, to |-> Org] \in approvals

\* What the trail says of a copy is so.
TmEventTrue(facts, approvals, setting, e) ==
  /\ e.copy \in DOMAIN facts /\ e.source \in DOMAIN facts
  /\ facts[e.copy].from = e.source /\ e.source # 0 /\ facts[e.copy].scope = e.to
  /\ facts[e.copy].author = e.actor /\ facts[e.source].author = e.actor
  /\ e.text = "plain" /\ e.class \notin {"Sensitive", "Sealed"}
  /\ TmApproved(approvals, setting, e.actor, e.source, e.to, e.approvedBy)

TmPromotes(trail, i, c) == trail[i].purpose = "promote" /\ trail[i].copy = c
TmWithdraws(trail, i, c) == trail[i].purpose = "withdraw" /\ trail[i].copy = c

\* Every copy has its one promotion on the trail; other facts are their author's.
TmRecorded(facts, trail, approvals, setting) ==
  /\ \A c \in DOMAIN facts : facts[c].from = 0 => facts[c].scope = facts[c].author
  /\ \A c \in DOMAIN facts : facts[c].from # 0 => \E i \in DOMAIN trail : TmPromotes(trail, i, c)
  /\ \A i \in DOMAIN trail : trail[i].purpose = "promote" => TmEventTrue(facts, approvals, setting, trail[i])
  /\ \A i, j \in DOMAIN trail : \A c \in DOMAIN facts : TmPromotes(trail, i, c) /\ TmPromotes(trail, j, c) => i = j

\* Copies that stand where a search finds them, and did not come back.
TmStays(facts, c, f, to) ==
  /\ facts[c].from # 0 /\ facts[c].from = f /\ facts[c].scope = to
  /\ ~facts[c].closed /\ facts[c].bin = 0 /\ ~facts[c].back
  /\ TmListed(facts[c]) /\ ~facts[c].again
TmOnce(facts) ==
  \A f \in DOMAIN facts : \A to \in Team!Scopes : \A c, d \in DOMAIN facts :
    TmStays(facts, c, f, to) /\ TmStays(facts, d, f, to) => c = d

\* A copy that was withdrawn, and did not come back, is closed.
TmWithdrawn(facts, trail) ==
  /\ \A i \in DOMAIN trail : trail[i].copy \in DOMAIN facts
  /\ \A i \in DOMAIN trail, c \in DOMAIN facts : TmWithdraws(trail, i, c) /\ ~facts[c].back => facts[c].closed
  /\ \A i, j \in DOMAIN trail : \A c \in DOMAIN facts :
       TmWithdraws(trail, i, c) /\ TmWithdraws(trail, j, c) /\ ~facts[c].back => i = j

\* What a judged promotion was judged on is still so when its copy is written.
TmCallOK(facts, approvals, setting, call) ==
  /\ call.source \in DOMAIN facts /\ facts[call.source].author = call.by
  /\ facts[call.source].class \notin {"Sensitive", "Sealed"}
  /\ (IF call.req.edited THEN call.req.text ELSE facts[call.source].text) = "plain"
  /\ TmApproved(approvals, setting, call.by, call.source, call.req.to, call.req.approvedBy)
  /\ \A c \in DOMAIN facts : ~TmStays(facts, c, call.source, call.req.to)

TmInv ==
  /\ TmTypes
  /\ TmRecorded(tmFacts, tmTrail, tmApprovals, tmSetting)
  /\ TmOnce(tmFacts) /\ TmWithdrawn(tmFacts, tmTrail)
  /\ \A call \in tmJudged : TmCallOK(tmFacts, tmApprovals, tmSetting, call)

LEMMA TmInitInv == Team!TmInit => TmInv
  <1> SUFFICES ASSUME Team!TmInit PROVE TmInv
    OBVIOUS
  <1>1. tmFacts = <<>> /\ tmTrail = <<>> /\ tmJudged = {} /\ tmCalls = 0
    BY DEF Team!TmInit
  <1>2. TmTypes
    BY <1>1 DEF TmTypes
  <1>3. QED
    BY <1>1, <1>2 DEF TmInv, TmRecorded, TmOnce, TmWithdrawn

\* The facts are what they were, updated, closed or binned or back.
LEMMA TmMoved ==
  ASSUME NEW facts, NEW more, NEW trail, NEW approvals, NEW setting, DOMAIN more = DOMAIN facts,
         \A c \in DOMAIN facts : TmSame(facts[c], more[c]) /\ TmBack(facts[c], more[c]),
         TmRecorded(facts, trail, approvals, setting), TmOnce(facts), TmWithdrawn(facts, trail)
  PROVE  TmRecorded(more, trail, approvals, setting) /\ TmOnce(more) /\ TmWithdrawn(more, trail)
  <1>1. TmRecorded(more, trail, approvals, setting)
    BY DEF TmRecorded, TmSame, TmEventTrue
  <1>2. \A c \in DOMAIN facts : \A f, to : TmStays(more, c, f, to) => TmStays(facts, c, f, to)
    BY DEF TmStays, TmSame, TmBack
  <1>3. TmOnce(more)
    BY <1>2 DEF TmOnce
  <1>4. TmWithdrawn(more, trail)
    BY DEF TmWithdrawn, TmBack
  <1>5. QED
    BY <1>1, <1>3, <1>4

\* One more fact that is its author's own.
LEMMA TmAppended ==
  ASSUME NEW S, NEW facts \in Seq(S), NEW fact \in S
  PROVE  LET more == Append(facts, fact) IN
         /\ more \in Seq(S) /\ DOMAIN facts = 1 .. Len(facts) /\ DOMAIN more = 1 .. Len(facts) + 1
         /\ DOMAIN more = DOMAIN facts \cup {Len(facts) + 1} /\ Len(facts) + 1 \notin DOMAIN facts /\ Len(facts) + 1 # 0
         /\ Len(facts) + 1 \in Nat
         /\ more[Len(facts) + 1] = fact /\ \A i \in DOMAIN facts : more[i] = facts[i]
  <1>1. /\ Append(facts, fact) \in Seq(S) /\ Len(Append(facts, fact)) = Len(facts) + 1
        /\ Append(facts, fact)[Len(facts) + 1] = fact /\ \A i \in 1 .. Len(facts) : Append(facts, fact)[i] = facts[i]
    BY AppendProperties
  <1>2. DOMAIN facts = 1 .. Len(facts) /\ DOMAIN Append(facts, fact) = 1 .. Len(facts) + 1 /\ Len(facts) \in Nat
    BY <1>1
  <1>3. 1 .. Len(facts) + 1 = 1 .. Len(facts) \cup {Len(facts) + 1} /\ Len(facts) + 1 \notin 1 .. Len(facts) /\ Len(facts) + 1 # 0
    BY <1>2
  <1>4. QED
    BY <1>1, <1>2, <1>3

\* A fact is written beside the others.
LEMMA TmWrote ==
  ASSUME NEW facts \in Seq(TmFact), NEW fact \in TmFact, NEW trail, NEW approvals, NEW setting,
         TmRecorded(facts, trail, approvals, setting), TmOnce(facts), TmWithdrawn(facts, trail),
         fact.from = 0, fact.scope = fact.author
  PROVE  LET more == Append(facts, fact) IN
         TmRecorded(more, trail, approvals, setting) /\ TmOnce(more) /\ TmWithdrawn(more, trail)
  <1> DEFINE more == Append(facts, fact)
             n == Len(facts) + 1
  <1>1. /\ DOMAIN more = DOMAIN facts \cup {n} /\ n \notin DOMAIN facts
        /\ more[n] = fact /\ \A i \in DOMAIN facts : more[i] = facts[i]
    BY TmAppended
  <1> HIDE DEF more, n
  <1>2. \A i \in DOMAIN trail : trail[i].copy # n
    BY <1>1 DEF TmWithdrawn
  <1>3. TmRecorded(more, trail, approvals, setting)
    BY <1>1, <1>2 DEF TmRecorded, TmEventTrue, TmPromotes
  <1>4. \A f, to : ~TmStays(more, n, f, to)
    BY <1>1 DEF TmStays
  <1>5. \A c \in DOMAIN facts : \A f, to : TmStays(more, c, f, to) => TmStays(facts, c, f, to) /\ f = facts[c].from
    BY <1>1 DEF TmStays
  <1>6. TmOnce(more)
    <2>1. SUFFICES ASSUME NEW f \in DOMAIN more, NEW to \in Team!Scopes, NEW c \in DOMAIN more, NEW d \in DOMAIN more,
                          TmStays(more, c, f, to), TmStays(more, d, f, to)
                   PROVE  c = d
      BY DEF TmOnce
    <2>2. c \in DOMAIN facts /\ d \in DOMAIN facts
      BY <1>1, <1>4, <2>1
    <2>3. TmStays(facts, c, f, to) /\ TmStays(facts, d, f, to)
      BY <1>5, <2>1, <2>2
    <2>4. f \in DOMAIN facts
      <3>1. facts[c].from = f /\ f # 0
        BY <2>3 DEF TmStays
      <3>2. PICK i \in DOMAIN trail : TmPromotes(trail, i, c)
        BY <2>2, <3>1 DEF TmRecorded
      <3>3. QED
        BY <3>1, <3>2 DEF TmRecorded, TmEventTrue, TmPromotes
    <2>5. QED
      BY <2>2, <2>3, <2>4 DEF TmOnce
  <1>7. TmWithdrawn(more, trail)
    BY <1>1, <1>2 DEF TmWithdrawn, TmWithdraws
  <1>8. QED
    BY <1>3, <1>6, <1>7 DEF more

\* The copy of a judged promotion is written.
LEMMA TmCopied ==
  ASSUME NEW facts \in Seq(TmFact), NEW trail \in Seq(TmEvent), NEW approvals, NEW setting, NEW call \in TmCall,
         NEW fact \in TmFact, NEW e \in TmEvent,
         TmRecorded(facts, trail, approvals, setting), TmOnce(facts), TmWithdrawn(facts, trail),
         TmCallOK(facts, approvals, setting, call),
         fact.from = call.source, fact.scope = call.req.to, fact.author = facts[call.source].author,
         fact.text = IF call.req.edited THEN call.req.text ELSE facts[call.source].text,
         e.purpose = "promote", e.actor = call.by, e.source = call.source, e.copy = Len(facts) + 1,
         e.to = call.req.to, e.approvedBy = call.req.approvedBy,
         e.text = fact.text, e.class = facts[call.source].class
  PROVE  LET more == Append(facts, fact) IN
         /\ TmRecorded(more, Append(trail, e), approvals, setting) /\ TmOnce(more)
         /\ TmWithdrawn(more, Append(trail, e))
  <1> DEFINE more == Append(facts, fact)
             n == Len(facts) + 1
             on == Append(trail, e)
             last == Len(trail) + 1
  <1>1. /\ DOMAIN more = DOMAIN facts \cup {n} /\ n \notin DOMAIN facts /\ n # 0
        /\ more[n] = fact /\ \A i \in DOMAIN facts : more[i] = facts[i]
        /\ DOMAIN facts = 1 .. Len(facts)
    BY TmAppended
  <1>2. /\ DOMAIN on = DOMAIN trail \cup {last} /\ last \notin DOMAIN trail
        /\ on[last] = e /\ \A i \in DOMAIN trail : on[i] = trail[i]
    BY TmAppended
  <1>3. e.copy = n
    OBVIOUS
  <1> HIDE DEF more, n, on, last
  <1>4. call.source \in DOMAIN facts /\ call.source # 0
    BY <1>1 DEF TmCallOK
  <1>5. \A i \in DOMAIN trail : trail[i].copy # n
    BY <1>1 DEF TmWithdrawn
  <1>6. TmEventTrue(more, approvals, setting, e)
    BY <1>1, <1>3, <1>4 DEF TmEventTrue, TmCallOK
  <1>7. TmRecorded(more, on, approvals, setting)
    <2>1. ASSUME NEW c \in DOMAIN more, more[c].from = 0 PROVE more[c].scope = more[c].author
      BY <1>1, <1>4, <2>1 DEF TmRecorded
    <2>2. ASSUME NEW c \in DOMAIN more, more[c].from # 0 PROVE \E i \in DOMAIN on : TmPromotes(on, i, c)
      <3>1. CASE c = n
        BY <1>2, <1>3, <3>1 DEF TmPromotes
      <3>2. CASE c \in DOMAIN facts
        <4>1. PICK i \in DOMAIN trail : TmPromotes(trail, i, c)
          BY <1>1, <2>2, <3>2 DEF TmRecorded
        <4>2. QED
          BY <1>2, <4>1 DEF TmPromotes
      <3>3. QED
        BY <1>1, <3>1, <3>2
    <2>3. ASSUME NEW i \in DOMAIN on, on[i].purpose = "promote" PROVE TmEventTrue(more, approvals, setting, on[i])
      <3>1. CASE i = last
        BY <1>2, <1>6, <3>1
      <3>2. CASE i \in DOMAIN trail
        BY <1>1, <1>2, <2>3, <3>2 DEF TmRecorded, TmEventTrue
      <3>3. QED
        BY <1>2, <3>1, <3>2
    <2>4. ASSUME NEW i \in DOMAIN on, NEW j \in DOMAIN on, NEW c \in DOMAIN more, TmPromotes(on, i, c), TmPromotes(on, j, c)
          PROVE  i = j
      <3>1. CASE c = n
        BY <1>2, <1>5, <2>4, <3>1 DEF TmPromotes
      <3>2. CASE c \in DOMAIN facts
        <4>1. i \in DOMAIN trail /\ j \in DOMAIN trail
          BY <1>1, <1>2, <1>3, <2>4, <3>2 DEF TmPromotes
        <4>2. TmPromotes(trail, i, c) /\ TmPromotes(trail, j, c)
          BY <1>2, <2>4, <4>1 DEF TmPromotes
        <4>3. QED
          BY <3>2, <4>1, <4>2 DEF TmRecorded
      <3>3. QED
        BY <1>1, <3>1, <3>2
    <2>5. QED
      BY <2>1, <2>2, <2>3, <2>4 DEF TmRecorded
  <1>8. TmOnce(more)
    <2>1. SUFFICES ASSUME NEW f \in DOMAIN more, NEW to \in Team!Scopes, NEW c \in DOMAIN more, NEW d \in DOMAIN more,
                          TmStays(more, c, f, to), TmStays(more, d, f, to)
                   PROVE  c = d
      BY DEF TmOnce
    <2>2. ASSUME NEW x \in DOMAIN facts, TmStays(more, x, f, to)
          PROVE  TmStays(facts, x, f, to) /\ f \in DOMAIN facts
      <3>1. TmStays(facts, x, f, to) /\ facts[x].from = f /\ f # 0
        BY <1>1, <2>2 DEF TmStays
      <3>2. PICK i \in DOMAIN trail : TmPromotes(trail, i, x)
        BY <3>1 DEF TmRecorded
      <3>3. QED
        BY <3>1, <3>2 DEF TmRecorded, TmEventTrue, TmPromotes
    <2>3. ASSUME TmStays(more, n, f, to), NEW x \in DOMAIN facts, TmStays(more, x, f, to) PROVE FALSE
      <3>1. f = call.source /\ to = call.req.to
        BY <1>1, <2>3 DEF TmStays
      <3>2. QED
        BY <2>2, <2>3, <3>1 DEF TmCallOK
    <2>4. CASE c \in DOMAIN facts /\ d \in DOMAIN facts
      BY <2>1, <2>2, <2>4 DEF TmOnce
    <2>5. QED
      BY <1>1, <2>1, <2>3, <2>4
  <1>9. TmWithdrawn(more, on)
    <2>1. \A i \in DOMAIN on : on[i].copy \in DOMAIN more
      BY <1>1, <1>2, <1>3 DEF TmWithdrawn
    <2>2. ASSUME NEW i \in DOMAIN on, NEW c \in DOMAIN more, TmWithdraws(on, i, c)
          PROVE  i \in DOMAIN trail /\ c \in DOMAIN facts /\ TmWithdraws(trail, i, c)
      <3>1. i \in DOMAIN trail
        BY <1>2, <2>2 DEF TmWithdraws
      <3>2. c # n
        BY <1>2, <1>5, <2>2, <3>1 DEF TmWithdraws
      <3>3. QED
        BY <1>1, <1>2, <2>2, <3>1, <3>2 DEF TmWithdraws
    <2>3. QED
      BY <1>1, <2>1, <2>2 DEF TmWithdrawn
  <1>10. QED
    BY <1>7, <1>8, <1>9 DEF more, on

\* A withdrawal is recorded of a copy that was open and is closed now.
LEMMA TmRecalled ==
  ASSUME NEW facts \in Seq(TmFact), NEW more \in Seq(TmFact), NEW trail \in Seq(TmEvent), NEW approvals, NEW setting,
         DOMAIN more = DOMAIN facts, \A c \in DOMAIN facts : TmSame(facts[c], more[c]) /\ TmBack(facts[c], more[c]),
         TmRecorded(facts, trail, approvals, setting), TmOnce(facts), TmWithdrawn(facts, trail),
         NEW e \in TmEvent, e.purpose = "withdraw", e.copy \in DOMAIN facts, ~facts[e.copy].closed, more[e.copy].closed
  PROVE  TmRecorded(more, Append(trail, e), approvals, setting) /\ TmOnce(more) /\ TmWithdrawn(more, Append(trail, e))
  <1> DEFINE on == Append(trail, e)
             last == Len(trail) + 1
  <1>1. TmRecorded(more, trail, approvals, setting) /\ TmOnce(more) /\ TmWithdrawn(more, trail)
    BY TmMoved
  <1>2. /\ DOMAIN on = DOMAIN trail \cup {last} /\ last \notin DOMAIN trail
        /\ on[last] = e /\ \A i \in DOMAIN trail : on[i] = trail[i]
    BY TmAppended
  <1> HIDE DEF on, last
  <1>3. ASSUME NEW i \in DOMAIN on, NEW c, TmPromotes(on, i, c) PROVE i \in DOMAIN trail /\ TmPromotes(trail, i, c)
    BY <1>2, <1>3 DEF TmPromotes
  <1>4. TmRecorded(more, on, approvals, setting)
    <2>1. ASSUME NEW c \in DOMAIN more, more[c].from # 0 PROVE \E i \in DOMAIN on : TmPromotes(on, i, c)
      BY <1>1, <1>2, <2>1 DEF TmRecorded, TmPromotes
    <2>2. ASSUME NEW i \in DOMAIN on, on[i].purpose = "promote" PROVE TmEventTrue(more, approvals, setting, on[i])
      BY <1>1, <1>2, <2>2 DEF TmRecorded
    <2>3. QED
      BY <1>1, <1>3, <2>1, <2>2 DEF TmRecorded
  <1>5. ASSUME NEW i \in DOMAIN trail, NEW c \in DOMAIN more, TmWithdraws(trail, i, c), ~more[c].back PROVE c # e.copy
    <2>1. ~facts[c].back
      BY <1>5 DEF TmBack
    <2>2. facts[c].closed
      BY <1>5, <2>1 DEF TmWithdrawn
    <2>3. QED
      BY <2>2
  <1>6. TmWithdrawn(more, on)
    <2>1. \A i \in DOMAIN on : on[i].copy \in DOMAIN more
      BY <1>2 DEF TmWithdrawn
    <2>2. ASSUME NEW i \in DOMAIN on, NEW c \in DOMAIN more, TmWithdraws(on, i, c), ~more[c].back
          PROVE  more[c].closed /\ (IF i = last THEN c = e.copy
                                    ELSE i \in DOMAIN trail /\ TmWithdraws(trail, i, c) /\ c # e.copy)
      <3>1. CASE i = last
        BY <1>2, <2>2, <3>1 DEF TmWithdraws
      <3>2. CASE i # last
        <4>1. i \in DOMAIN trail /\ TmWithdraws(trail, i, c)
          BY <1>2, <2>2, <3>2 DEF TmWithdraws
        <4>2. QED
          BY <1>1, <1>5, <2>2, <3>2, <4>1 DEF TmWithdrawn
      <3>3. QED
        BY <3>1, <3>2
    <2>3. QED
      BY <1>1, <2>1, <2>2 DEF TmWithdrawn
  <1>7. QED
    BY <1>1, <1>4, <1>6 DEF on

\* Facts that are changed one by one are facts still.
LEMMA TmMapped ==
  ASSUME NEW facts \in Seq(TmFact), NEW more, more = [g \in DOMAIN facts |-> more[g]],
         \A g \in DOMAIN facts : more[g] \in TmFact
  PROVE  more \in Seq(TmFact) /\ DOMAIN more = DOMAIN facts
  OBVIOUS

\* A fact after a step that does not write its own.
TmFine(fact, new) == new \in TmFact /\ TmSame(fact, new) /\ TmBack(fact, new)

LEMMA TmMovedInv ==
  ASSUME TmInv, tmJudged = {}, UNCHANGED <<tmJudged, tmApprovals, tmSetting, tmTrail>>, tmCalls' \in Nat,
         tmFacts' = [g \in DOMAIN tmFacts |-> tmFacts'[g]],
         \A g \in DOMAIN tmFacts : TmFine(tmFacts[g], tmFacts'[g])
  PROVE  TmInv'
  <1>1. tmFacts \in Seq(TmFact)
    BY DEF TmInv, TmTypes
  <1>2. tmFacts' \in Seq(TmFact) /\ DOMAIN tmFacts' = DOMAIN tmFacts
    BY <1>1, TmMapped DEF TmFine
  <1>3. /\ TmRecorded(tmFacts', tmTrail, tmApprovals, tmSetting) /\ TmOnce(tmFacts')
        /\ TmWithdrawn(tmFacts', tmTrail)
    BY <1>2, TmMoved DEF TmInv, TmFine
  <1>4. TmTypes'
    BY <1>2 DEF TmInv, TmTypes
  <1>5. QED
    BY <1>3, <1>4 DEF TmInv

\* What Changes says of a step.
LEMMA TmChanges ==
  ASSUME TmInv, Team!Changes
  PROVE  /\ tmJudged = {} /\ UNCHANGED <<tmJudged, tmApprovals, tmSetting>> /\ tmCalls' \in Nat
         /\ tmFacts \in Seq(TmFact) /\ DOMAIN tmFacts = 1 .. Len(tmFacts) /\ Len(tmFacts) \in Nat
         /\ \A g \in DOMAIN tmFacts : tmFacts[g] \in TmFact /\ g \in Nat \ {0}
  <1>1. tmFacts \in Seq(TmFact)
    BY DEF TmInv, TmTypes
  <1>2. DOMAIN tmFacts = 1 .. Len(tmFacts) /\ Len(tmFacts) \in Nat /\ \A g \in 1 .. Len(tmFacts) : tmFacts[g] \in TmFact
    BY <1>1
  <1>3. \A g \in 1 .. Len(tmFacts) : g \in Nat \ {0}
    BY <1>2
  <1>4. tmJudged = {} /\ UNCHANGED <<tmJudged, tmApprovals, tmSetting>> /\ tmCalls' = tmCalls + 1 /\ tmCalls \in Nat
    BY DEF Team!Changes, Team!MayRun, Team!TmCounted, TmInv, TmTypes
  <1>5. QED
    BY <1>1, <1>2, <1>3, <1>4

LEMMA TmWriteInv == ASSUME TmInv, NEW a \in TmActors, Team!Write(a) PROVE TmInv'
  <1>1. PICK scope \in Team!Scopes, author \in TmActors, from \in {Team!NoFact} \cup Team!TmIds :
          /\ Team!MayWrite(a, scope, author, from)
          /\ \E text \in Team!TmTexts, class \in {"Private", "Sensitive"}, rests \in {Team!NoFact} \cup Team!TmIds :
               /\ rests # Team!NoFact => Team!Sees(a, rests) /\ Team!Stands(rests)
               /\ tmFacts' = Append(tmFacts,
                    [scope |-> scope, author |-> author, from |-> from, by |-> Nobody, approvedBy |-> Nobody,
                     edited |-> FALSE, text |-> text, class |-> class, archived |-> FALSE, rests |-> rests,
                     closed |-> FALSE, bin |-> Team!NoFact, back |-> FALSE, again |-> FALSE])
    BY Zenon DEF Team!Write
  <1>2. PICK text \in Team!TmTexts, class \in {"Private", "Sensitive"}, rests \in {Team!NoFact} \cup Team!TmIds :
          tmFacts' = Append(tmFacts,
            [scope |-> scope, author |-> author, from |-> from, by |-> Nobody, approvedBy |-> Nobody,
             edited |-> FALSE, text |-> text, class |-> class, archived |-> FALSE, rests |-> rests,
             closed |-> FALSE, bin |-> Team!NoFact, back |-> FALSE, again |-> FALSE])
    BY <1>1, Zenon
  <1>3. scope = author /\ from = 0
    BY <1>1 DEF Team!MayWrite, Team!NoFact
  <1>4. Team!Changes /\ tmTrail' = tmTrail
    BY DEF Team!Write
  <1>5. rests \in Nat
    BY <1>4, TmChanges DEF Team!TmIds, Team!NoFact
  <1> DEFINE fact == [scope |-> scope, author |-> author, from |-> from, by |-> Nobody, approvedBy |-> Nobody,
                      edited |-> FALSE, text |-> text, class |-> class, archived |-> FALSE, rests |-> rests,
                      closed |-> FALSE, bin |-> Team!NoFact, back |-> FALSE, again |-> FALSE]
  <1>6. fact \in TmFact /\ fact.from = 0 /\ fact.scope = fact.author
    BY <1>3, <1>5 DEF TmFact, Team!NoFact, Team!TmClasses
  <1>7. tmFacts' = Append(tmFacts, fact)
    BY <1>2
  <1> HIDE DEF fact
  <1>8. tmFacts' \in Seq(TmFact)
    BY <1>4, <1>6, <1>7, TmChanges, AppendProperties
  <1>9. TmRecorded(tmFacts', tmTrail, tmApprovals, tmSetting) /\ TmOnce(tmFacts') /\ TmWithdrawn(tmFacts', tmTrail)
    BY <1>4, <1>6, <1>7, TmChanges, TmWrote DEF TmInv
  <1>10. TmTypes'
    BY <1>4, <1>8, TmChanges DEF TmInv, TmTypes
  <1>11. QED
    BY <1>4, <1>9, <1>10, TmChanges DEF TmInv

\* A fact as updated: its labels are what they were.
TmUpdates(fact, text, class, archived, again) ==
  [fact EXCEPT !.text = text, !.class = class, !.archived = archived, !.again = again]

LEMMA TmUpdated ==
  ASSUME NEW fact \in TmFact, NEW text \in Team!TmTexts, NEW class \in Team!TmClasses, NEW archived \in BOOLEAN,
         NEW again \in BOOLEAN, fact.again => again, ~TmListed(fact) /\ ~archived /\ class # "Sealed" => again
  PROVE  TmFine(fact, TmUpdates(fact, text, class, archived, again))
  <1> DEFINE worded == [fact EXCEPT !.text = text]
             classed == [worded EXCEPT !.class = class]
             tiered == [classed EXCEPT !.archived = archived]
             new == [tiered EXCEPT !.again = again]
  <1>1. TmUpdates(fact, text, class, archived, again) = new
    BY DEF TmUpdates
  <1>2. worded \in TmFact /\ TmSame(fact, worded) /\ worded.closed = fact.closed /\ worded.bin = fact.bin /\ worded.back = fact.back
    BY DEF TmFact, TmSame
  <1> HIDE DEF worded
  <1>3. classed \in TmFact /\ TmSame(worded, classed) /\ classed.closed = worded.closed /\ classed.bin = worded.bin
        /\ classed.back = worded.back /\ classed.class = class
    BY <1>2 DEF TmFact, TmSame
  <1> HIDE DEF classed
  <1>4. tiered \in TmFact /\ TmSame(classed, tiered) /\ tiered.closed = classed.closed /\ tiered.bin = classed.bin
        /\ tiered.back = classed.back /\ tiered.class = classed.class /\ tiered.archived = archived
    BY <1>3 DEF TmFact, TmSame
  <1> HIDE DEF tiered
  <1>5. new \in TmFact /\ TmSame(tiered, new) /\ new.closed = tiered.closed /\ new.bin = tiered.bin
        /\ new.back = tiered.back /\ new.class = tiered.class /\ new.archived = tiered.archived /\ new.again = again
    BY <1>4 DEF TmFact, TmSame
  <1> HIDE DEF new
  <1>6. TmSame(fact, new)
    BY <1>2, <1>3, <1>4, <1>5 DEF TmSame
  <1>7. TmBack(fact, new)
    BY <1>2, <1>3, <1>4, <1>5 DEF TmBack, TmListed
  <1>8. QED
    BY <1>1, <1>5, <1>6, <1>7 DEF TmFine

LEMMA TmUpdateInv == ASSUME TmInv, NEW a, NEW f \in Team!TmIds, Team!Update(a, f) PROVE TmInv'
  <1>1. Team!Changes /\ tmTrail' = tmTrail /\ f \in DOMAIN tmFacts
    BY DEF Team!Update, Team!TmIds
  <1> DEFINE labelled(scope, author, from) == [tmFacts[f] EXCEPT !.scope = scope, !.author = author, !.from = from]
             again(class, archived) == tmFacts[f].again \/ (~Team!Listed(f) /\ ~archived /\ class # "Sealed")
             updated(scope, author, from, text, class, archived) ==
               tmFacts' = [tmFacts EXCEPT ![f] = TmUpdates(labelled(scope, author, from), text, class, archived, again(class, archived))]
             allowed(archived) == Team!Binned(f) => archived = tmFacts[f].archived
  <1>2. \E scope \in Team!Scopes, author \in TmActors, from \in {Team!NoFact} \cup Team!TmIds :
          /\ Team!MayRelabel(f, scope, author, from)
          /\ \E text \in Team!TmTexts, class \in Team!TmClasses, archived \in BOOLEAN :
               allowed(archived) /\ updated(scope, author, from, text, class, archived)
    BY Zenon DEF Team!Update, TmUpdates
  <1> HIDE DEF updated, allowed
  <1>3. PICK scope \in Team!Scopes, author \in TmActors, from \in {Team!NoFact} \cup Team!TmIds :
          /\ Team!MayRelabel(f, scope, author, from)
          /\ \E text \in Team!TmTexts, class \in Team!TmClasses, archived \in BOOLEAN :
               allowed(archived) /\ updated(scope, author, from, text, class, archived)
    BY <1>2, Zenon
  <1>4. PICK text \in Team!TmTexts, class \in Team!TmClasses, archived \in BOOLEAN :
          updated(scope, author, from, text, class, archived)
    BY <1>3, Zenon
  <1>5. tmFacts[f] \in TmFact /\ (Team!Listed(f) <=> TmListed(tmFacts[f]))
    BY <1>1, TmChanges DEF Team!Listed, TmListed
  <1> DEFINE relisted == again(class, archived)
             new == TmUpdates(tmFacts[f], text, class, archived, relisted)
  <1>6. labelled(scope, author, from) = tmFacts[f]
    BY <1>3, <1>5 DEF Team!MayRelabel, TmFact
  <1>7. tmFacts' = [tmFacts EXCEPT ![f] = new]
    BY <1>4, <1>6, Zenon DEF updated
  <1>8. relisted \in BOOLEAN /\ (tmFacts[f].again => relisted)
        /\ (~TmListed(tmFacts[f]) /\ ~archived /\ class # "Sealed" => relisted)
    BY <1>5 DEF TmFact
  <1> HIDE DEF relisted
  <1>9. TmFine(tmFacts[f], new)
    BY <1>5, <1>8, TmUpdated
  <1> HIDE DEF new
  <1>10. tmFacts' = [g \in DOMAIN tmFacts |-> tmFacts'[g]]
    BY <1>1, <1>7, TmChanges
  <1>11. ASSUME NEW g \in DOMAIN tmFacts PROVE TmFine(tmFacts[g], tmFacts'[g])
    <2>1. tmFacts[g] \in TmFact /\ tmFacts'[g] = IF g = f THEN new ELSE tmFacts[g]
      BY <1>1, <1>7, TmChanges
    <2>2. TmFine(tmFacts[g], tmFacts[g])
      BY <2>1 DEF TmFine, TmSame, TmBack
    <2>3. QED
      BY <1>9, <2>1, <2>2
  <1>12. QED
    BY <1>1, <1>10, <1>11, TmChanges, TmMovedInv

\* A fact as closed, reopened, binned and restored.
TmCloses(fact, closes) == [fact EXCEPT !.closed = fact.closed \/ closes]
TmReopens(fact) == [fact EXCEPT !.closed = FALSE, !.back = TRUE]
TmBins(fact, goes, f) == [fact EXCEPT !.bin = IF goes /\ fact.bin = 0 THEN f ELSE fact.bin]
TmRestores(fact) == [fact EXCEPT !.bin = 0, !.back = TRUE]

LEMMA TmFactMoves ==
  ASSUME NEW fact \in TmFact
  PROVE  /\ \A closes \in BOOLEAN : TmFine(fact, TmCloses(fact, closes)) /\ (closes => TmCloses(fact, closes).closed)
         /\ TmFine(fact, TmReopens(fact)) /\ TmFine(fact, TmRestores(fact)) /\ TmFine(fact, fact)
         /\ \A goes \in BOOLEAN, f \in Nat \ {0} : TmFine(fact, TmBins(fact, goes, f))
  <1>1. ASSUME NEW closes \in BOOLEAN
        PROVE  TmFine(fact, TmCloses(fact, closes)) /\ (closes => TmCloses(fact, closes).closed)
    BY DEF TmFine, TmCloses, TmFact, TmSame, TmBack, TmListed
  <1>2. TmFine(fact, TmReopens(fact))
    BY DEF TmFine, TmReopens, TmFact, TmSame, TmBack, TmListed
  <1>3. ASSUME NEW goes \in BOOLEAN, NEW f \in Nat \ {0} PROVE TmFine(fact, TmBins(fact, goes, f))
    BY DEF TmFine, TmBins, TmFact, TmSame, TmBack, TmListed
  <1>4. TmFine(fact, TmRestores(fact))
    BY DEF TmFine, TmRestores, TmFact, TmSame, TmBack, TmListed
  <1>5. TmFine(fact, fact)
    BY DEF TmFine, TmSame, TmBack
  <1>6. QED
    BY <1>1, <1>2, <1>3, <1>4, <1>5

\* Facts are closed with what was concluded from them.
LEMMA TmClosed ==
  ASSUME TmInv, Team!Changes, NEW f \in Team!TmIds, Team!CloseUnder(f)
  PROVE  /\ tmFacts' = [g \in DOMAIN tmFacts |-> tmFacts'[g]] /\ f \in DOMAIN tmFacts /\ tmFacts'[f].closed
         /\ \A g \in DOMAIN tmFacts : TmFine(tmFacts[g], tmFacts'[g])
  <1>1. f \in Team!Under(f)
    BY DEF Team!Under
  <1>2. tmFacts' = [g \in DOMAIN tmFacts |-> TmCloses(tmFacts[g], g \in Team!Under(f))]
    BY DEF Team!CloseUnder, Team!TmIds, TmCloses
  <1>3. ASSUME NEW g \in DOMAIN tmFacts
        PROVE  /\ TmFine(tmFacts[g], tmFacts'[g])
               /\ g \in Team!Under(f) => tmFacts'[g].closed
    <2> DEFINE closes == g \in Team!Under(f)
    <2>1. closes \in BOOLEAN /\ 1 \in Nat \ {0} /\ tmFacts[g] \in TmFact
      BY TmChanges
    <2>2. tmFacts'[g] = TmCloses(tmFacts[g], closes)
      BY <1>2
    <2> HIDE DEF closes
    <2>3. TmFine(tmFacts[g], tmFacts'[g]) /\ (closes => tmFacts'[g].closed)
      BY <2>1, <2>2, TmFactMoves
    <2>4. QED
      BY <2>3 DEF closes
  <1>4. QED
    BY <1>1, <1>2, <1>3 DEF Team!TmIds

LEMMA TmInvalidateInv == ASSUME TmInv, NEW a, NEW f \in Team!TmIds, Team!Invalidate(a, f) PROVE TmInv'
  <1>1. Team!Changes /\ Team!CloseUnder(f) /\ tmTrail' = tmTrail
    BY DEF Team!Invalidate
  <1>2. QED
    BY <1>1, TmChanges, TmClosed, TmMovedInv

LEMMA TmReopenInv == ASSUME TmInv, NEW a, NEW f \in Team!TmIds, Team!Reopen(a, f) PROVE TmInv'
  <1>1. Team!Changes /\ tmTrail' = tmTrail /\ tmFacts' = [tmFacts EXCEPT ![f].closed = FALSE, ![f].back = TRUE]
    BY DEF Team!Reopen
  <1>2. tmFacts' = [g \in DOMAIN tmFacts |-> tmFacts'[g]]
    BY <1>1, TmChanges
  <1>3. ASSUME NEW g \in DOMAIN tmFacts
        PROVE  TmFine(tmFacts[g], tmFacts'[g])
    <2>1. tmFacts[g] \in TmFact /\ 1 \in Nat \ {0}
      BY <1>1, TmChanges
    <2>2. tmFacts'[g] = IF g = f THEN TmReopens(tmFacts[g]) ELSE tmFacts[g]
      BY <1>1 DEF TmReopens
    <2>3. QED
      BY <2>1, <2>2, TmFactMoves
  <1>4. QED
    BY <1>1, <1>2, <1>3, TmChanges, TmMovedInv

LEMMA TmBinInv ==
  ASSUME TmInv, NEW a, NEW f \in Team!TmIds, Team!MoveToBin(a, f) \/ Team!RestoreDeleted(a, f) PROVE TmInv'
  <1>1. Team!Changes /\ tmTrail' = tmTrail /\ f \in DOMAIN tmFacts
    BY Zenon DEF Team!MoveToBin, Team!RestoreDeleted, Team!TmIds
  <1>2. /\ tmFacts' = [g \in DOMAIN tmFacts |-> tmFacts'[g]]
        /\ \A g \in DOMAIN tmFacts :
             tmFacts'[g] \in {TmBins(tmFacts[g], g \in Team!Under(f), f), TmRestores(tmFacts[g]), tmFacts[g]}
    <2>1. CASE Team!MoveToBin(a, f)
      <3>1. tmFacts' = [g \in DOMAIN tmFacts |-> TmBins(tmFacts[g], g \in Team!Under(f), f)]
        BY <2>1 DEF Team!MoveToBin, Team!TmIds, Team!NoFact, TmBins
      <3>2. QED
        BY <3>1
    <2>2. CASE Team!RestoreDeleted(a, f)
      <3>1. tmFacts' = [g \in DOMAIN tmFacts |-> IF tmFacts[g].bin = f THEN TmRestores(tmFacts[g]) ELSE tmFacts[g]]
        BY <2>2 DEF Team!RestoreDeleted, Team!TmIds, Team!NoFact, TmRestores
      <3>2. QED
        BY <3>1
    <2>3. QED
      BY <2>1, <2>2
  <1>3. ASSUME NEW g \in DOMAIN tmFacts PROVE TmFine(tmFacts[g], tmFacts'[g])
    <2> DEFINE goes == g \in Team!Under(f)
    <2>1. tmFacts[g] \in TmFact /\ f \in Nat \ {0} /\ goes \in BOOLEAN
      BY <1>1, TmChanges
    <2>2. tmFacts'[g] \in {TmBins(tmFacts[g], goes, f), TmRestores(tmFacts[g]), tmFacts[g]}
      BY <1>2
    <2> HIDE DEF goes
    <2>3. QED
      BY <2>1, <2>2, TmFactMoves
  <1>4. QED
    BY <1>1, <1>2, <1>3, TmChanges, TmMovedInv

LEMMA TmWithdrawInv == ASSUME TmInv, NEW a \in TmActors, NEW f \in Team!TmIds, Team!Withdraw(a, f) PROVE TmInv'
  <1> DEFINE e == [purpose |-> "withdraw", actor |-> a, source |-> Team!NoFact, copy |-> f,
                   to |-> tmFacts[f].scope, approvedBy |-> Nobody, text |-> tmFacts[f].text, class |-> tmFacts[f].class]
  <1>1. /\ Team!Changes /\ Team!CloseUnder(f) /\ ~tmFacts[f].closed
        /\ tmTrail' = Append(tmTrail, e)
    BY DEF Team!Withdraw
  <1>2. f \in DOMAIN tmFacts /\ f \in Nat /\ tmFacts[f] \in TmFact /\ tmTrail \in Seq(TmEvent)
    BY <1>1, TmChanges DEF Team!TmIds, TmInv, TmTypes
  <1>3. e \in TmEvent /\ e.purpose = "withdraw" /\ e.copy = f
    BY <1>2 DEF TmEvent, TmFact, Team!NoFact
  <1> HIDE DEF e
  <1>4. /\ tmFacts' = [g \in DOMAIN tmFacts |-> tmFacts'[g]] /\ tmFacts'[f].closed
        /\ \A g \in DOMAIN tmFacts : TmFine(tmFacts[g], tmFacts'[g])
    BY <1>1, TmClosed
  <1>5. tmFacts \in Seq(TmFact) /\ tmFacts' \in Seq(TmFact) /\ DOMAIN tmFacts' = DOMAIN tmFacts
    BY <1>1, <1>4, TmChanges, TmMapped DEF TmFine
  <1>6. \A c \in DOMAIN tmFacts : TmSame(tmFacts[c], tmFacts'[c]) /\ TmBack(tmFacts[c], tmFacts'[c])
    BY <1>4 DEF TmFine
  <1>7. /\ TmRecorded(tmFacts', tmTrail', tmApprovals, tmSetting) /\ TmOnce(tmFacts') /\ TmWithdrawn(tmFacts', tmTrail')
    BY <1>1, <1>2, <1>3, <1>4, <1>5, <1>6, TmRecalled DEF TmInv
  <1>8. tmTrail' \in Seq(TmEvent)
    BY <1>1, <1>2, <1>3, AppendProperties
  <1>9. TmTypes'
    BY <1>1, <1>5, <1>8, TmChanges DEF TmInv, TmTypes
  <1>10. QED
    BY <1>1, <1>7, <1>9, TmChanges DEF TmInv

\* What was approved stays approved.
LEMMA TmApproveInv ==
  ASSUME TmInv, NEW admin, NEW f \in Team!TmIds, NEW to, Team!Approve(admin, f, to) PROVE TmInv'
  <1>1. tmApprovals \subseteq tmApprovals' /\ UNCHANGED <<tmFacts, tmTrail, tmSetting, tmJudged>> /\ tmCalls' \in Nat
    BY DEF Team!Approve, Team!TmCounted, TmInv, TmTypes
  <1>2. ASSUME NEW by, NEW source, NEW where, NEW approvedBy,
               TmApproved(tmApprovals, tmSetting, by, source, where, approvedBy)
        PROVE  TmApproved(tmApprovals', tmSetting, by, source, where, approvedBy)
    BY <1>1, <1>2 DEF TmApproved
  <1>3. TmRecorded(tmFacts, tmTrail, tmApprovals', tmSetting)
    BY <1>2 DEF TmInv, TmRecorded, TmEventTrue
  <1>4. \A call \in tmJudged : TmCallOK(tmFacts, tmApprovals', tmSetting, call)
    BY <1>2 DEF TmInv, TmCallOK
  <1>5. TmTypes'
    BY <1>1 DEF TmInv, TmTypes
  <1>6. QED
    BY <1>1, <1>3, <1>4, <1>5 DEF TmInv

LEMMA TmJudgeInv ==
  ASSUME TmInv, NEW a \in TmActors, NEW f \in Team!TmIds, Team!JudgePromotion(a, f) PROVE TmInv'
  <1>1. PICK req \in Team!Requests :
          Team!MayPromote(a, f, req)
          /\ tmJudged' = tmJudged \cup {[call |-> tmCalls + 1, by |-> a, source |-> f, req |-> req]}
    BY Zenon DEF Team!JudgePromotion
  <1> DEFINE call == [call |-> tmCalls + 1, by |-> a, source |-> f, req |-> req]
  <1>2. /\ tmJudged = {} /\ tmJudged' = {call} /\ tmCalls' = tmCalls + 1 /\ tmCalls \in Nat
        /\ UNCHANGED <<tmFacts, tmTrail, tmApprovals, tmSetting>>
    BY <1>1 DEF Team!JudgePromotion, Team!MayRun, Team!TmCounted, TmInv, TmTypes
  <1>3. tmFacts \in Seq(TmFact) /\ f \in DOMAIN tmFacts
    BY DEF TmInv, TmTypes, Team!TmIds
  <1>4. f \in Nat /\ tmFacts[f] \in TmFact
    BY <1>3
  <1>5. call \in TmCall /\ call.by = a /\ call.source = f /\ call.req = req
    BY <1>1, <1>2, <1>4 DEF TmCall
  <1> HIDE DEF call
  <1>6. /\ tmFacts[f].class \notin {"Sensitive", "Sealed"} /\ Team!FoundCopies(f, req.to) = {}
        /\ tmFacts[f].author = a /\ (IF req.edited THEN req.text ELSE tmFacts[f].text) = "plain"
        /\ IF req.approvedBy # Nobody THEN Team!Approved(a, f, req) ELSE req.to = Org => tmSetting.selfServe
    BY <1>1 DEF Team!MayPromote, Team!MayShare
  <1>7. TmApproved(tmApprovals, tmSetting, a, f, req.to, req.approvedBy)
    BY <1>6 DEF TmApproved, Team!Approved
  <1>8. \A c \in DOMAIN tmFacts : ~TmStays(tmFacts, c, f, req.to)
    BY <1>6 DEF TmStays, TmListed, Team!FoundCopies, Team!Listed, Team!Copies, Team!IsCopy, Team!Stands, Team!Binned,
       Team!TmIds, Team!NoFact
  <1>9. TmCallOK(tmFacts, tmApprovals, tmSetting, call)
    BY <1>3, <1>5, <1>6, <1>7, <1>8 DEF TmCallOK
  <1>10. TmTypes'
    BY <1>2, <1>5 DEF TmInv, TmTypes
  <1>11. QED
    BY <1>2, <1>9, <1>10 DEF TmInv

LEMMA TmAddCopyInv == ASSUME TmInv, NEW call \in tmJudged, Team!AddCopy(call) PROVE TmInv'
  <1> DEFINE source == tmFacts[call.source]
             text == IF call.req.edited THEN call.req.text ELSE source.text
             fact == [scope |-> call.req.to, author |-> source.author, from |-> call.source, by |-> call.by,
                      approvedBy |-> call.req.approvedBy, edited |-> text # source.text, text |-> text,
                      class |-> "Private", archived |-> FALSE, rests |-> Team!NoFact, closed |-> FALSE,
                      bin |-> Team!NoFact, back |-> FALSE, again |-> FALSE]
             e == [purpose |-> "promote", actor |-> call.by, source |-> call.source, copy |-> Len(tmFacts) + 1,
                   to |-> call.req.to, approvedBy |-> call.req.approvedBy, text |-> text, class |-> source.class]
  <1>1. /\ tmFacts' = Append(tmFacts, fact) /\ tmTrail' = Append(tmTrail, e)
        /\ tmJudged' = tmJudged \ {call} /\ UNCHANGED <<tmApprovals, tmSetting, tmCalls>>
    BY DEF Team!AddCopy
  <1>2. /\ tmFacts \in Seq(TmFact) /\ tmTrail \in Seq(TmEvent) /\ call \in TmCall /\ tmJudged = {call}
        /\ TmCallOK(tmFacts, tmApprovals, tmSetting, call)
    BY DEF TmInv, TmTypes
  <1>3. source \in TmFact /\ call.source \in Nat
    BY <1>2 DEF TmCallOK
  <1>4. /\ call.req.to \in Team!Scopes /\ call.req.approvedBy \in TmActors \cup {Nobody} /\ call.req.edited \in BOOLEAN
        /\ call.req.text \in Team!TmTexts /\ call.by \in TmActors
    BY <1>2 DEF TmCall, Team!Requests
  <1>5. fact \in TmFact
    <2>1. text \in Team!TmTexts /\ (text # source.text) \in BOOLEAN /\ source.author \in TmActors
      BY <1>3, <1>4 DEF TmFact
    <2>2. "Private" \in Team!TmClasses
      BY DEF Team!TmClasses
    <2> HIDE DEF text, source
    <2>3. QED
      BY <1>3, <1>4, <2>1, <2>2 DEF TmFact, Team!NoFact
  <1>6. Len(tmFacts) + 1 \in Nat
    BY <1>2
  <1>7. e \in TmEvent
    <2>1. text \in Team!TmTexts /\ source.class \in Team!TmClasses
      BY <1>3, <1>4 DEF TmFact
    <2> HIDE DEF text, source
    <2>2. QED
      BY <1>3, <1>4, <1>6, <2>1 DEF TmEvent
  <1>8. /\ fact.from = call.source /\ fact.scope = call.req.to /\ fact.author = tmFacts[call.source].author
        /\ fact.text = (IF call.req.edited THEN call.req.text ELSE tmFacts[call.source].text)
        /\ e.purpose = "promote" /\ e.actor = call.by /\ e.source = call.source /\ e.copy = Len(tmFacts) + 1
        /\ e.to = call.req.to /\ e.approvedBy = call.req.approvedBy
        /\ e.text = fact.text /\ e.class = tmFacts[call.source].class
    OBVIOUS
  <1> HIDE DEF fact, e, source, text
  <1>9. /\ TmRecorded(tmFacts', tmTrail', tmApprovals, tmSetting) /\ TmOnce(tmFacts') /\ TmWithdrawn(tmFacts', tmTrail')
    BY <1>1, <1>2, <1>5, <1>7, <1>8, TmCopied DEF TmInv
  <1>10. tmFacts' \in Seq(TmFact) /\ tmTrail' \in Seq(TmEvent)
    BY <1>1, <1>2, <1>5, <1>7, AppendProperties
  <1>11. tmJudged' = {}
    BY <1>1, <1>2
  <1>12. TmTypes'
    BY <1>1, <1>10, <1>11 DEF TmInv, TmTypes
  <1>13. QED
    BY <1>1, <1>9, <1>11, <1>12 DEF TmInv

LEMMA TmNextInv == ASSUME TmInv, [Team!TmNext]_TeamVars PROVE TmInv'
  <1>1. CASE UNCHANGED TeamVars
    BY <1>1 DEF TeamVars, TmInv, TmTypes
  <1>2. CASE Team!TmNext
    BY <1>2, TmWriteInv, TmUpdateInv, TmInvalidateInv, TmReopenInv, TmBinInv, TmWithdrawInv, TmApproveInv, TmJudgeInv,
       TmAddCopyInv DEF Team!TmNext
  <1>3. QED
    BY <1>1, <1>2

\* What others than its author can read was shared by its author, with the
\* approval the tenant asks for and on record, in words and from a source that
\* were fit to share then, and no search finds a fact's copy at a scope twice,
\* whoever promotes, updates and withdraws it at the same time, unless one of the
\* copies was brought back: reopened, restored, or listed again after it was
\* archived or sealed (promotion.ts:139-227).
THEOREM ServicesSharedOnceWithConsent == Spec => []SharedOnceWithConsent
  <1> DEFINE Inv == part = "team" => TmInv
  <1>1. Init => Inv
    BY TmInitInv DEF Init
  <1>2. Inv /\ [Next]_vars => Inv'
    BY OnePartMoves, TmNextInv
  <1>3. ASSUME TmInv PROVE Team!NotTwiceAtAScope
    <2>1. SUFFICES ASSUME NEW f \in Team!TmIds, NEW to \in Team!Scopes, NEW c \in Team!FoundCopies(f, to),
                          NEW d \in Team!FoundCopies(f, to), ~tmFacts[c].back, ~tmFacts[c].again,
                          ~tmFacts[d].back, ~tmFacts[d].again
                   PROVE  c = d
      BY DEF Team!NotTwiceAtAScope
    <2>2. /\ f \in DOMAIN tmFacts /\ c \in DOMAIN tmFacts /\ d \in DOMAIN tmFacts
          /\ TmStays(tmFacts, c, f, to) /\ TmStays(tmFacts, d, f, to)
      BY <2>1 DEF TmStays, TmListed, Team!FoundCopies, Team!Listed, Team!Copies, Team!IsCopy, Team!Stands, Team!Binned,
         Team!TmIds, Team!NoFact
    <2>3. QED
      BY <1>3, <2>2 DEF TmInv, TmOnce
  <1>4. ASSUME TmInv PROVE Team!WithdrawnOnce
    BY <1>4 DEF TmInv, TmWithdrawn, TmWithdraws, Team!WithdrawnOnce, Team!WithdrawalsOf, Team!TmIds
  <1>5. ASSUME TmInv PROVE Team!SharedWithConsent
    <2>1. SUFFICES ASSUME NEW c \in Team!TmIds, tmFacts[c].scope # tmFacts[c].author
                   PROVE  \E i \in Team!PromotionsOf(c) :
                            LET e == tmTrail[i] source == tmFacts[e.source] IN
                            /\ Team!PromotionsOf(c) = {i}
                            /\ e.to = tmFacts[c].scope /\ e.source = tmFacts[c].from
                            /\ e.actor = tmFacts[c].author /\ e.actor = source.author
                            /\ e.text = "plain" /\ e.class \notin {"Sensitive", "Sealed"}
                            /\ e.to = Org /\ ~tmSetting.selfServe =>
                                 \/ ~tmSetting.workflow /\ e.approvedBy = e.actor /\ e.actor \in TmAdmins
                                 \/ tmSetting.workflow /\ [by |-> e.approvedBy, source |-> e.source, to |-> Org] \in tmApprovals
      BY DEF Team!SharedWithConsent
    <2>2. c \in DOMAIN tmFacts /\ TmRecorded(tmFacts, tmTrail, tmApprovals, tmSetting)
      BY <1>5 DEF Team!TmIds, TmInv
    <2>3. tmFacts[c].from # 0
      BY <2>1, <2>2 DEF TmRecorded
    <2>4. PICK i \in DOMAIN tmTrail : TmPromotes(tmTrail, i, c)
      BY <2>2, <2>3 DEF TmRecorded
    <2>5. TmEventTrue(tmFacts, tmApprovals, tmSetting, tmTrail[i]) /\ tmTrail[i].copy = c
      BY <2>2, <2>4 DEF TmRecorded, TmPromotes
    <2>6. Team!PromotionsOf(c) = {i}
      BY <2>2, <2>4 DEF TmRecorded, TmPromotes, Team!PromotionsOf
    <2>7. QED
      BY <2>5, <2>6 DEF TmEventTrue, TmApproved
  <1>6. Inv => SharedOnceWithConsent
    BY <1>3, <1>4, <1>5 DEF SharedOnceWithConsent
  <1> HIDE DEF Inv
  <1>7. QED
    BY <1>1, <1>2, <1>6, PTL DEF Spec
-----------------------------------------------------------------------------
(* The LangGraph store.                                                    *)

LgFact == [ns : LgNamespaces, key : LgKeys, older : BOOLEAN, from : Nat,
           state : {"live", "closed", "erased"}]
LgQueued == [at : {"queued"}, entry : Lang!Entries, deletes : BOOLEAN]
LgBegun == [at : {"add", "retire"}, entry : Lang!Entries, from : Nat, new : Nat, previous : Nat]
LgSearching == [at : {"older"}, prefix : LgNamespaces, validAt : Nat]
LgAnswered == [at : {"answered"}, prefix : LgNamespaces, validAt : Nat, live : SUBSET Nat, hits : SUBSET Nat]
LgKinds == {Lang!LgIdle} \cup LgQueued \cup LgBegun \cup LgSearching \cup LgAnswered
LgPutting == {"queued", "add", "retire"}
LgHead == {"add", "retire"}

LgTypes ==
  /\ lgFacts \in Seq(LgFact)
  /\ lgQueue \in [Lang!Entries -> Seq(LgCallers)]
  /\ lgCall \in [LgCallers -> LgKinds]
  /\ lgLast \in [Lang!Entries -> Nat]
  /\ lgTorn \subseteq Lang!Entries
  /\ lgClock \in Nat

\* A put is in its entry's line once, and has begun only at the head of it.
LgLine(queue, call) ==
  /\ \A e \in Lang!Entries : \A i, j \in DOMAIN queue[e] : queue[e][i] = queue[e][j] => i = j
  /\ \A e \in Lang!Entries : \A i \in DOMAIN queue[e] :
       /\ call[queue[e][i]].at \in LgPutting /\ call[queue[e][i]].entry = e
       /\ call[queue[e][i]].at \in LgHead => i = 1
  /\ \A c \in LgCallers : call[c].at \in LgPutting => \E i \in DOMAIN queue[call[c].entry] : queue[call[c].entry][i] = c

\* The facts that a get of the entry could find.
LgHolds(fact, e) == fact.ns = e.ns /\ fact.key = e.key
LgFound(facts, e) == {i \in DOMAIN facts : facts[i].state = "live" /\ LgHolds(facts[i], e)}

\* A put that has begun knows the entry's fact, if one is live, and its own.
LgBegunOK(facts, last, torn, call) ==
  call.at \in LgHead =>
    /\ call.previous # 0 => call.previous \in DOMAIN facts /\ LgHolds(facts[call.previous], call.entry)
    /\ call.at = "add" => call.new = 0
    /\ call.new # 0 => /\ call.new \in DOMAIN facts /\ call.new # call.previous
                       /\ LgHolds(facts[call.new], call.entry)
    /\ call.entry \notin torn => last[call.entry] \in {0, call.previous}

\* A get finds what the last put left, and a put's new fact before that put ends.
LgAdds(call, e, i) == call.at = "retire" /\ call.entry = e /\ call.new = i
LgSettled(facts, last, torn, call) ==
  \A e \in Lang!Entries \ torn :
    /\ last[e] # 0 => last[e] \in LgFound(facts, e)
    /\ \A i \in LgFound(facts, e) : i = last[e] \/ \E c \in LgCallers : LgAdds(call[c], e, i)

\* What 0.11.0 left, and is still live, was live when the list was made.
LgOlderOK(facts, list) ==
  list.at = "read" =>
    \A i \in DOMAIN facts : facts[i].state = "live" /\ facts[i].older /\ Len(facts[i].ns) > 1 => facts[i].ns \in list.names

LgAnswerOK(facts, call) ==
  call.at = "answered" =>
    /\ call.live \subseteq DOMAIN facts
    /\ call.hits = {i \in call.live : Lang!AtOrBelow(facts[i].ns, call.prefix) /\ facts[i].from <= call.validAt}

LgPutsOK ==
  /\ LgLine(lgQueue, lgCall)
  /\ \A c \in LgCallers : LgBegunOK(lgFacts, lgLast, lgTorn, lgCall[c])
  /\ LgSettled(lgFacts, lgLast, lgTorn, lgCall)
LgSearchesOK ==
  LgOlderOK(lgFacts, lgList) /\ \A c \in LgCallers : LgAnswerOK(lgFacts, lgCall[c])
LgInv == LgTypes /\ LgPutsOK /\ LgSearchesOK

\* What kind of call it is can be read from where it is.
LEMMA LgCallKinds ==
  ASSUME NEW call \in LgKinds
  PROVE  /\ call.at = "queued" => call \in LgQueued
         /\ call.at \in LgHead => call \in LgBegun
         /\ call.at = "older" => call \in LgSearching
         /\ call.at = "answered" => call \in LgAnswered
         /\ call = Lang!LgIdle => call.at = "idle"
         /\ call.at \in LgPutting => call.entry \in Lang!Entries
  <1>1. Lang!LgIdle.at = "idle"
    BY DEF Lang!LgIdle
  <1>2. /\ call \in LgQueued => call.at = "queued" /\ call.entry \in Lang!Entries
        /\ call \in LgBegun => call.at \in LgHead /\ call.entry \in Lang!Entries
        /\ call \in LgSearching => call.at = "older"
        /\ call \in LgAnswered => call.at = "answered"
    BY DEF LgQueued, LgBegun, LgSearching, LgAnswered, LgHead
  <1> QED BY <1>1, <1>2 DEF LgKinds, LgHead, LgPutting

LEMMA LgFoundIs == \A e : Lang!Found(e) = LgFound(lgFacts, e)
  BY DEF Lang!Found, LgFound, LgHolds, Lang!LiveFacts, Lang!LgIds, Lang!TagsOf

LEMMA LgInitInv == Lang!LgInit => LgInv
  <1> SUFFICES ASSUME Lang!LgInit PROVE LgInv
    OBVIOUS
  <1> DEFINE n == Lang!Cardinality(LgOlder)
  <1>1. n \in Nat /\ LgOlder \subseteq Lang!Entries
    <2>1. n = Cardinality(LgOlder)
      BY DEF Lang!Cardinality, Cardinality, Lang!IsFiniteSet, IsFiniteSet
    <2> QED BY <2>1, FS_CardinalityType, ServicesNamespaces
  <1>2. PICK first \in Lang!Bijection(1 .. n, LgOlder) :
          /\ lgFacts = [i \in DOMAIN first |-> [ns |-> first[i].ns, key |-> first[i].key, older |-> TRUE, from |-> 0, state |-> "live"]]
          /\ lgLast = [e \in Lang!Entries |-> IF e \in LgOlder THEN CHOOSE i \in DOMAIN first : first[i] = e ELSE Lang!None]
    BY Zenon DEF Lang!LgInit
  <1> HIDE DEF n
  <1>3. /\ first \in [1 .. n -> LgOlder] /\ DOMAIN first = 1 .. n
        /\ \A i, j \in 1 .. n : first[i] = first[j] => i = j
        /\ \A e \in LgOlder : \E i \in 1 .. n : first[i] = e
    BY <1>2 DEF Lang!Bijection, Lang!Injection, Lang!Surjection, Lang!IsInjective
  <1>4. \A i \in 1 .. n : first[i] \in Lang!Entries /\ first[i].ns \in LgNamespaces /\ first[i].key \in LgKeys
    BY <1>1, <1>3 DEF Lang!Entries
  <1>5. /\ lgFacts \in Seq(LgFact) /\ DOMAIN lgFacts = 1 .. n
        /\ \A i \in 1 .. n : lgFacts[i].ns = first[i].ns /\ lgFacts[i].key = first[i].key
    BY <1>1, <1>2, <1>3, <1>4 DEF LgFact
  <1>6. \A e \in Lang!Entries : /\ e \in LgOlder => lgLast[e] \in 1 .. n /\ first[lgLast[e]] = e
                                /\ e \notin LgOlder => lgLast[e] = 0
    BY <1>2, <1>3 DEF Lang!None
  <1>7. lgLast \in [Lang!Entries -> Nat]
    <2>1. DOMAIN lgLast = Lang!Entries /\ lgLast = [e \in Lang!Entries |-> lgLast[e]]
      BY <1>2
    <2>2. \A e \in Lang!Entries : lgLast[e] \in Nat
      BY <1>1, <1>6
    <2> QED BY <2>1, <2>2
  <1>8. /\ lgQueue = [e \in Lang!Entries |-> <<>>] /\ lgCall = [c \in LgCallers |-> [at |-> "idle"]]
        /\ lgList.at = "unread" /\ lgTorn = {} /\ lgClock = 1
    BY DEF Lang!LgInit, Lang!LgIdle, Lang!Unread
  <1>9. LgTypes
    BY <1>5, <1>7, <1>8 DEF LgTypes, LgKinds, Lang!LgIdle
  <1>10. \A e \in Lang!Entries : LgFound(lgFacts, e) \subseteq {lgLast[e]}
    <2> SUFFICES ASSUME NEW e \in Lang!Entries, NEW i \in LgFound(lgFacts, e) PROVE i = lgLast[e]
      OBVIOUS
    <2>1. i \in 1 .. n /\ first[i] \in Lang!Entries /\ first[i].ns = e.ns /\ first[i].key = e.key
      BY <1>4, <1>5 DEF LgFound, LgHolds
    <2>2. first[i] = e
      BY <2>1 DEF Lang!Entries
    <2> QED BY <1>3, <1>6, <2>1, <2>2
  <1>11. \A e \in Lang!Entries : lgLast[e] # 0 => lgLast[e] \in LgFound(lgFacts, e)
    <2> SUFFICES ASSUME NEW e \in LgOlder PROVE lgLast[e] \in LgFound(lgFacts, e)
      BY <1>6
    <2>1. lgLast[e] \in 1 .. n /\ first[lgLast[e]] = e
      BY <1>1, <1>6
    <2>2. lgFacts[lgLast[e]] = [ns |-> e.ns, key |-> e.key, older |-> TRUE, from |-> 0, state |-> "live"]
      BY <1>2, <1>3, <2>1
    <2> QED BY <1>5, <2>1, <2>2 DEF LgFound, LgHolds
  <1>12. LgPutsOK
    BY <1>8, <1>10, <1>11 DEF LgPutsOK, LgLine, LgBegunOK, LgSettled, LgPutting, LgHead
  <1>13. LgSearchesOK
    BY <1>8 DEF LgSearchesOK, LgOlderOK, LgAnswerOK
  <1> QED BY <1>9, <1>12, <1>13 DEF LgInv

\* A call that is not a put leaves the puts as they were.
LEMMA LgAside ==
  ASSUME LgTypes, LgPutsOK, UNCHANGED <<lgFacts, lgQueue, lgLast, lgTorn, lgClock>>, lgCall' \in [LgCallers -> LgKinds],
         \A d \in LgCallers : lgCall'[d] = lgCall[d] \/ (lgCall[d].at \notin LgPutting /\ lgCall'[d].at \notin LgPutting)
  PROVE  LgTypes' /\ LgPutsOK'
  <1>1. LgTypes'
    BY DEF LgTypes
  <1>2. LgLine(lgQueue, lgCall')
    <2>1. LgLine(lgQueue, lgCall) /\ \A e \in Lang!Entries : lgQueue[e] \in Seq(LgCallers)
      BY DEF LgPutsOK, LgTypes
    <2>2. ASSUME NEW e \in Lang!Entries, NEW i \in DOMAIN lgQueue[e]
          PROVE  lgCall'[lgQueue[e][i]] = lgCall[lgQueue[e][i]]
      <3>1. lgQueue[e][i] \in LgCallers
        BY <2>1, <2>2
      <3> QED BY <2>1, <2>2, <3>1 DEF LgLine
    <2>3. \A e \in Lang!Entries : \A i \in DOMAIN lgQueue[e] :
            /\ lgCall'[lgQueue[e][i]].at \in LgPutting /\ lgCall'[lgQueue[e][i]].entry = e
            /\ lgCall'[lgQueue[e][i]].at \in LgHead => i = 1
      BY <2>1, <2>2 DEF LgLine
    <2>4. \A d \in LgCallers : lgCall'[d].at \in LgPutting => lgCall'[d] = lgCall[d]
      OBVIOUS
    <2> QED BY <2>1, <2>3, <2>4 DEF LgLine
  <1>3. ASSUME NEW d \in LgCallers PROVE LgBegunOK(lgFacts, lgLast, lgTorn, lgCall'[d])
    <2>1. LgBegunOK(lgFacts, lgLast, lgTorn, lgCall[d])
      BY DEF LgPutsOK
    <2>2. lgCall'[d].at \in LgHead => lgCall'[d] = lgCall[d]
      BY DEF LgHead, LgPutting
    <2> QED BY <2>1, <2>2 DEF LgBegunOK
  <1>4. LgSettled(lgFacts, lgLast, lgTorn, lgCall')
    <2>1. \A d \in LgCallers : lgCall[d].at = "retire" => lgCall'[d] = lgCall[d]
      BY DEF LgPutting
    <2> QED BY <2>1 DEF LgPutsOK, LgSettled, LgAdds
  <1> QED BY <1>1, <1>2, <1>3, <1>4 DEF LgPutsOK

\* A put that has begun is the head of its entry's line, and no other has.
LEMMA LgBegunIsHead ==
  ASSUME LgTypes, LgLine(lgQueue, lgCall), NEW c \in LgCallers,
         lgCall[c].at \in LgHead \/ (lgCall[c].at = "queued" /\ Head(lgQueue[lgCall[c].entry]) = c)
  PROVE  /\ lgCall[c].entry \in Lang!Entries /\ lgQueue[lgCall[c].entry] # <<>> /\ lgQueue[lgCall[c].entry][1] = c
         /\ \A d \in LgCallers : lgCall[d].at \in LgHead /\ lgCall[d].entry = lgCall[c].entry => d = c
  <1> DEFINE e == lgCall[c].entry
  <1>1. lgCall[c].at \in LgPutting
    BY DEF LgHead, LgPutting
  <1>2. lgCall[c] \in LgKinds
    BY DEF LgTypes
  <1>3. e \in Lang!Entries
    BY <1>1, <1>2, LgCallKinds
  <1>4. lgQueue[e] \in Seq(LgCallers)
    BY <1>3 DEF LgTypes
  <1>5. PICK i \in DOMAIN lgQueue[e] : lgQueue[e][i] = c
    BY <1>1 DEF LgLine
  <1>6. lgQueue[e] # <<>> /\ Head(lgQueue[e]) = lgQueue[e][1]
    BY <1>4, <1>5
  <1>7. lgQueue[e][1] = c
    BY <1>3, <1>5, <1>6 DEF LgLine
  <1>8. ASSUME NEW d \in LgCallers, lgCall[d].at \in LgHead, lgCall[d].entry = e PROVE d = c
    <2>1. PICK j \in DOMAIN lgQueue[e] : lgQueue[e][j] = d
      BY <1>8 DEF LgLine, LgHead, LgPutting
    <2>2. j = 1
      BY <1>3, <1>8, <2>1 DEF LgLine
    <2> QED BY <1>7, <2>1, <2>2
  <1> QED BY <1>3, <1>6, <1>7, <1>8

LEMMA LgPutInv ==
  ASSUME LgInv, NEW c \in LgCallers, NEW entry \in Lang!Entries, NEW deletes \in BOOLEAN, Lang!Put(c, entry, deletes)
  PROVE  LgInv'
  <1> DEFINE call == [at |-> "queued", entry |-> entry, deletes |-> deletes]
             line == lgQueue[entry]
             n == Len(line)
  <1>1. /\ lgCall[c].at = "idle" /\ lgCall' = [lgCall EXCEPT ![c] = call]
        /\ lgQueue' = [lgQueue EXCEPT ![entry] = Append(line, c)]
        /\ UNCHANGED <<lgFacts, lgList, lgLast, lgTorn, lgClock>>
    BY DEF Lang!Put, Lang!LgBegins, Lang!LgGoes, Lang!LgIdle
  <1>2. LgTypes /\ LgLine(lgQueue, lgCall) /\ line \in Seq(LgCallers) /\ n \in Nat
    BY DEF LgInv, LgPutsOK, LgTypes
  <1>3. LgTypes'
    <2>1. call \in LgKinds
      BY DEF LgKinds, LgQueued
    <2> QED BY <1>1, <1>2, <2>1 DEF LgTypes
  <1>4. /\ lgCall'[c] = call /\ \A d \in LgCallers : d # c => lgCall'[d] = lgCall[d]
        /\ lgQueue'[entry] = Append(line, c)
        /\ \A e \in Lang!Entries : e # entry => lgQueue'[e] = lgQueue[e]
    BY <1>1, <1>2 DEF LgTypes
  <1>5. /\ DOMAIN line = 1 .. n /\ DOMAIN lgQueue'[entry] = 1 .. n + 1 /\ lgQueue'[entry][n + 1] = c
        /\ \A i \in 1 .. n : lgQueue'[entry][i] = line[i]
    BY <1>2, <1>4
  <1>6. \A e \in Lang!Entries : \A i \in DOMAIN lgQueue[e] : lgQueue[e][i] \in LgCallers \ {c}
    <2> SUFFICES ASSUME NEW e \in Lang!Entries, NEW i \in DOMAIN lgQueue[e] PROVE lgQueue[e][i] \in LgCallers /\ lgQueue[e][i] # c
      OBVIOUS
    <2>1. lgQueue[e] \in Seq(LgCallers)
      BY <1>2 DEF LgTypes
    <2>2. lgCall[lgQueue[e][i]].at \in LgPutting
      BY <1>2 DEF LgLine
    <2> QED BY <1>1, <2>1, <2>2 DEF LgPutting
  <1> HIDE DEF n, line
  <1>7. LgLine(lgQueue', lgCall')
    <2>1. ASSUME NEW e \in Lang!Entries
          PROVE  \A i, j \in DOMAIN lgQueue'[e] : lgQueue'[e][i] = lgQueue'[e][j] => i = j
      <3>1. CASE e # entry
        BY <1>2, <1>4, <3>1 DEF LgLine
      <3>2. CASE e = entry
        <4>1. \A i, j \in 1 .. n : line[i] = line[j] => i = j
          BY <1>2, <1>5 DEF LgLine, line
        <4>2. \A i \in 1 .. n : line[i] # c
          BY <1>5, <1>6 DEF line
        <4> SUFFICES ASSUME NEW i \in 1 .. n + 1, NEW j \in 1 .. n + 1, lgQueue'[entry][i] = lgQueue'[entry][j] PROVE i = j
          BY <1>5, <3>2
        <4>3. CASE i \in 1 .. n /\ j \in 1 .. n
          BY <1>5, <4>1, <4>3
        <4>4. CASE i = n + 1 /\ j \in 1 .. n
          BY <1>5, <4>2, <4>4
        <4>5. CASE i \in 1 .. n /\ j = n + 1
          BY <1>5, <4>2, <4>5
        <4> QED BY <1>2, <4>3, <4>4, <4>5
      <3> QED BY <3>1, <3>2
    <2>2. ASSUME NEW e \in Lang!Entries, NEW i \in DOMAIN lgQueue'[e]
          PROVE  /\ lgCall'[lgQueue'[e][i]].at \in LgPutting /\ lgCall'[lgQueue'[e][i]].entry = e
                 /\ lgCall'[lgQueue'[e][i]].at \in LgHead => i = 1
      <3>1. CASE i \in DOMAIN lgQueue[e] /\ lgQueue'[e][i] = lgQueue[e][i]
        <4>1. lgCall'[lgQueue[e][i]] = lgCall[lgQueue[e][i]]
          BY <1>4, <1>6, <3>1
        <4>2. /\ lgCall[lgQueue[e][i]].at \in LgPutting /\ lgCall[lgQueue[e][i]].entry = e
              /\ lgCall[lgQueue[e][i]].at \in LgHead => i = 1
          BY <1>2, <3>1 DEF LgLine
        <4> QED BY <3>1, <4>1, <4>2
      <3>2. CASE e = entry /\ i = n + 1
        BY <1>4, <1>5, <3>2 DEF LgPutting, LgHead
      <3>3. CASE e # entry
        BY <1>4, <3>1, <3>3
      <3>4. CASE e = entry
        <4>1. i \in 1 .. n \/ i = n + 1
          BY <1>2, <1>5, <3>4
        <4> QED BY <1>5, <3>1, <3>2, <3>4, <4>1 DEF line
      <3> QED BY <3>3, <3>4
    <2>3. ASSUME NEW d \in LgCallers, lgCall'[d].at \in LgPutting
          PROVE  \E i \in DOMAIN lgQueue'[lgCall'[d].entry] : lgQueue'[lgCall'[d].entry][i] = d
      <3>1. CASE d = c
        <4>1. n + 1 \in DOMAIN lgQueue'[entry]
          BY <1>2, <1>5
        <4> QED BY <1>4, <1>5, <3>1, <4>1
      <3>2. CASE d # c
        <4>1. lgCall'[d] = lgCall[d] /\ lgCall[d].entry \in Lang!Entries
          BY <1>2, <1>4, <2>3, <3>2, LgCallKinds DEF LgTypes
        <4>2. PICK i \in DOMAIN lgQueue[lgCall[d].entry] : lgQueue[lgCall[d].entry][i] = d
          BY <1>2, <2>3, <4>1 DEF LgLine
        <4>3. i \in DOMAIN lgQueue'[lgCall[d].entry] /\ lgQueue'[lgCall[d].entry][i] = d
          BY <1>2, <1>4, <1>5, <4>1, <4>2 DEF line
        <4> QED BY <4>1, <4>3
      <3> QED BY <3>1, <3>2
    <2> QED BY <2>1, <2>2, <2>3 DEF LgLine
  <1>8. \A d \in LgCallers : LgBegunOK(lgFacts, lgLast, lgTorn, lgCall'[d])
    BY <1>4 DEF LgInv, LgPutsOK, LgBegunOK, LgHead
  <1>9. LgSettled(lgFacts, lgLast, lgTorn, lgCall')
    <2>1. \A d \in LgCallers : lgCall[d].at = "retire" => lgCall'[d] = lgCall[d]
      BY <1>1, <1>4
    <2> QED BY <2>1 DEF LgInv, LgPutsOK, LgSettled, LgAdds
  <1>10. LgSearchesOK'
    BY <1>1, <1>4 DEF LgInv, LgSearchesOK, LgAnswerOK
  <1> QED BY <1>1, <1>3, <1>7, <1>8, <1>9, <1>10 DEF LgInv, LgPutsOK

\* The facts wear: they keep their entries, and none comes to live again.
LgWorn(old, new) ==
  /\ new \in Seq(LgFact) /\ DOMAIN new = DOMAIN old
  /\ \A i \in DOMAIN old : /\ new[i].ns = old[i].ns /\ new[i].key = old[i].key /\ new[i].older = old[i].older
                           /\ new[i].from = old[i].from
                           /\ new[i].state = "live" => old[i].state = "live"

LEMMA LgWornSearches ==
  ASSUME LgSearchesOK, lgList' = lgList, LgWorn(lgFacts, lgFacts'),
         \A d \in LgCallers : lgCall'[d] = lgCall[d] \/ lgCall'[d].at # "answered"
  PROVE  LgSearchesOK'
  <1>1. LgOlderOK(lgFacts', lgList)
    BY DEF LgSearchesOK, LgOlderOK, LgWorn
  <1>2. ASSUME NEW d \in LgCallers PROVE LgAnswerOK(lgFacts', lgCall'[d])
    <2>1. LgAnswerOK(lgFacts, lgCall[d])
      BY DEF LgSearchesOK
    <2> SUFFICES ASSUME lgCall'[d] = lgCall[d], lgCall[d].at = "answered" PROVE LgAnswerOK(lgFacts', lgCall[d])
      BY DEF LgAnswerOK
    <2>2. lgCall[d].live \subseteq DOMAIN lgFacts /\ \A i \in lgCall[d].live : lgFacts'[i].ns = lgFacts[i].ns
      BY <2>1 DEF LgAnswerOK, LgWorn
    <2> QED BY <2>1, <2>2 DEF LgAnswerOK, LgWorn
  <1> QED BY <1>1, <1>2 DEF LgSearchesOK

LEMMA LgFindInv ==
  ASSUME LgInv, NEW c \in LgCallers, Lang!FindPrevious(c) PROVE LgInv'
  <1> DEFINE e == lgCall[c].entry
             at == IF lgCall[c].deletes THEN "retire" ELSE "add"
  <1>1. /\ lgCall[c].at = "queued" /\ Head(lgQueue[e]) = c
        /\ UNCHANGED <<lgFacts, lgQueue, lgList, lgLast, lgTorn, lgClock>>
    BY DEF Lang!FindPrevious, Lang!InTurn
  <1>2. PICK previous \in IF Lang!Found(e) = {} THEN {0} ELSE Lang!Found(e) :
          lgCall' = [lgCall EXCEPT ![c] = [at |-> at, entry |-> e, from |-> lgClock, new |-> 0, previous |-> previous]]
    BY DEF Lang!FindPrevious, Lang!LgGoes, Lang!None
  <1>3. LgTypes /\ LgLine(lgQueue, lgCall)
    BY DEF LgInv, LgPutsOK
  <1>4. /\ e \in Lang!Entries /\ lgQueue[e] # <<>> /\ lgQueue[e][1] = c
        /\ \A d \in LgCallers : lgCall[d].at \in LgHead /\ lgCall[d].entry = e => d = c
    BY <1>1, <1>3, LgBegunIsHead
  <1>5. previous \in LgFound(lgFacts, e) \/ (previous = 0 /\ LgFound(lgFacts, e) = {})
    BY <1>2, LgFoundIs
  <1>6. /\ previous \in Nat
        /\ previous # 0 => previous \in DOMAIN lgFacts /\ LgHolds(lgFacts[previous], e)
    BY <1>3, <1>5 DEF LgFound, LgTypes
  <1> DEFINE call == [at |-> at, entry |-> e, from |-> lgClock, new |-> 0, previous |-> previous]
  <1>7. call \in LgKinds
    BY <1>3, <1>4, <1>6 DEF LgTypes, LgKinds, LgBegun
  <1>8. call.at \in LgHead /\ call.entry = e /\ call.new = 0 /\ call.previous = previous
    BY DEF LgHead
  <1>9. lgCall'[c] = call /\ (\A d \in LgCallers : d # c => lgCall'[d] = lgCall[d]) /\ lgCall' \in [LgCallers -> LgKinds]
    BY <1>2, <1>3, <1>7 DEF LgTypes
  <1> HIDE DEF call
  <1>10. LgTypes'
    BY <1>1, <1>3, <1>9 DEF LgTypes
  <1>11. LgLine(lgQueue, lgCall')
    <2>1. ASSUME NEW f \in Lang!Entries, NEW i \in DOMAIN lgQueue[f]
          PROVE  /\ lgCall'[lgQueue[f][i]].at \in LgPutting /\ lgCall'[lgQueue[f][i]].entry = f
                 /\ lgCall'[lgQueue[f][i]].at \in LgHead => i = 1
      <3>1. /\ lgCall[lgQueue[f][i]].at \in LgPutting /\ lgCall[lgQueue[f][i]].entry = f
            /\ lgCall[lgQueue[f][i]].at \in LgHead => i = 1
        BY <1>3 DEF LgLine
      <3>2. lgQueue[f][i] \in LgCallers
        BY <1>3 DEF LgTypes
      <3>3. CASE lgQueue[f][i] # c
        BY <1>9, <3>1, <3>2, <3>3
      <3>4. CASE lgQueue[f][i] = c
        <4>1. f = e
          BY <3>1, <3>4
        <4>2. 1 \in DOMAIN lgQueue[e]
          BY <1>3, <1>4 DEF LgTypes
        <4>3. i = 1
          BY <1>3, <1>4, <3>4, <4>1, <4>2 DEF LgLine
        <4> QED BY <1>8, <1>9, <3>4, <4>1, <4>3 DEF LgHead, LgPutting
      <3> QED BY <3>3, <3>4
    <2>2. ASSUME NEW d \in LgCallers, lgCall'[d].at \in LgPutting
          PROVE  \E i \in DOMAIN lgQueue[lgCall'[d].entry] : lgQueue[lgCall'[d].entry][i] = d
      <3>1. lgCall'[d].entry = lgCall[d].entry /\ lgCall[d].at \in LgPutting
        BY <1>1, <1>8, <1>9, <2>2 DEF LgPutting
      <3> QED BY <1>3, <3>1 DEF LgLine
    <2>3. \A f \in Lang!Entries : \A i, j \in DOMAIN lgQueue[f] : lgQueue[f][i] = lgQueue[f][j] => i = j
      BY <1>3 DEF LgLine
    <2> QED BY <2>1, <2>2, <2>3 DEF LgLine
  <1>12. LgSettled(lgFacts, lgLast, lgTorn, lgCall')
    <2>1. \A d \in LgCallers : lgCall[d].at = "retire" => lgCall'[d] = lgCall[d]
      BY <1>1, <1>9
    <2> QED BY <2>1 DEF LgInv, LgPutsOK, LgSettled, LgAdds
  <1>13. e \notin lgTorn => lgLast[e] \in {0, previous}
    <2> SUFFICES ASSUME e \notin lgTorn, lgLast[e] # 0 PROVE lgLast[e] = previous
      OBVIOUS
    <2>1. lgLast[e] \in LgFound(lgFacts, e)
      BY <1>4 DEF LgInv, LgPutsOK, LgSettled
    <2>2. previous = lgLast[e] \/ \E d \in LgCallers : LgAdds(lgCall[d], e, previous)
      BY <1>4, <1>5, <2>1 DEF LgInv, LgPutsOK, LgSettled
    <2>3. \A d \in LgCallers : ~LgAdds(lgCall[d], e, previous)
      BY <1>1, <1>4 DEF LgAdds, LgHead
    <2> QED BY <2>2, <2>3
  <1>14. ASSUME NEW d \in LgCallers PROVE LgBegunOK(lgFacts, lgLast, lgTorn, lgCall'[d])
    <2>1. CASE d = c
      BY <1>6, <1>8, <1>9, <1>13, <2>1 DEF LgBegunOK
    <2>2. CASE d # c
      BY <1>9, <2>2 DEF LgInv, LgPutsOK
    <2> QED BY <2>1, <2>2
  <1>15. LgSearchesOK'
    <2>1. LgWorn(lgFacts, lgFacts')
      BY <1>1, <1>3 DEF LgWorn, LgTypes
    <2> QED BY <1>1, <1>8, <1>9, <2>1, LgWornSearches DEF LgInv, LgHead
  <1> QED BY <1>1, <1>10, <1>11, <1>12, <1>14, <1>15 DEF LgInv, LgPutsOK

LEMMA LgAddInv ==
  ASSUME LgInv, NEW c \in LgCallers, Lang!AddEntry(c) PROVE LgInv'
  <1> DEFINE e == lgCall[c].entry
             n == Len(lgFacts) + 1
             fact == [ns |-> e.ns, key |-> e.key, older |-> FALSE, from |-> lgCall[c].from, state |-> "live"]
             call == [lgCall[c] EXCEPT !.at = "retire", !.new = n]
  <1>1. /\ lgCall[c].at = "add" /\ lgFacts' = Append(lgFacts, fact) /\ lgCall' = [lgCall EXCEPT ![c] = call]
        /\ UNCHANGED <<lgQueue, lgList, lgLast, lgTorn, lgClock>>
    BY DEF Lang!AddEntry, Lang!LgGoes
  <1>2. LgTypes /\ LgLine(lgQueue, lgCall)
    BY DEF LgInv, LgPutsOK
  <1>3. /\ lgCall[c] \in LgBegun /\ e \in Lang!Entries
        /\ \A d \in LgCallers : lgCall[d].at \in LgHead /\ lgCall[d].entry = e => d = c
    BY <1>1, <1>2, LgBegunIsHead, LgCallKinds DEF LgHead, LgTypes
  <1>4. n \in Nat \ {0} /\ n \notin DOMAIN lgFacts /\ DOMAIN lgFacts = 1 .. n - 1
    BY <1>2 DEF LgTypes
  <1>5. /\ call \in LgBegun /\ call.at = "retire" /\ call.entry = e /\ call.new = n /\ call.previous = lgCall[c].previous
    BY <1>3, <1>4 DEF LgBegun
  <1>6. fact \in LgFact /\ fact.older = FALSE /\ LgHolds(fact, e)
    BY <1>3 DEF LgBegun, LgFact, Lang!Entries, LgHolds
  <1>7. /\ lgFacts' \in Seq(LgFact) /\ DOMAIN lgFacts' = DOMAIN lgFacts \cup {n} /\ lgFacts'[n] = fact
        /\ \A i \in DOMAIN lgFacts : lgFacts'[i] = lgFacts[i]
    BY <1>1, <1>2, <1>4, <1>6 DEF LgTypes
  <1>8. lgCall'[c] = call /\ (\A d \in LgCallers : d # c => lgCall'[d] = lgCall[d]) /\ lgCall' \in [LgCallers -> LgKinds]
    BY <1>1, <1>2, <1>5 DEF LgTypes, LgKinds
  <1>9. \A f \in Lang!Entries : LgHolds(fact, f) => f = e
    BY <1>3 DEF LgHolds, Lang!Entries
  <1> HIDE DEF call, n, fact
  <1>10. LgTypes'
    BY <1>1, <1>2, <1>7, <1>8 DEF LgTypes
  <1>11. LgLine(lgQueue, lgCall')
    <2>1. \A d \in LgCallers : /\ lgCall'[d].at \in LgPutting <=> lgCall[d].at \in LgPutting
                               /\ lgCall'[d].at \in LgHead <=> lgCall[d].at \in LgHead
                               /\ lgCall[d].at \in LgPutting => lgCall'[d].entry = lgCall[d].entry
      BY <1>1, <1>5, <1>8 DEF LgPutting, LgHead
    <2>2. \A f \in Lang!Entries : \A i \in DOMAIN lgQueue[f] : lgQueue[f][i] \in LgCallers
      BY <1>2 DEF LgTypes
    <2> QED BY <1>2, <2>1, <2>2 DEF LgLine
  <1>12. ASSUME NEW f \in Lang!Entries \ lgTorn
         PROVE  /\ lgLast[f] # 0 => lgLast[f] \in LgFound(lgFacts', f)
                /\ \A i \in LgFound(lgFacts', f) : i = lgLast[f] \/ \E d \in LgCallers : LgAdds(lgCall'[d], f, i)
    <2>1. /\ lgLast[f] # 0 => lgLast[f] \in LgFound(lgFacts, f)
          /\ \A i \in LgFound(lgFacts, f) : i = lgLast[f] \/ \E d \in LgCallers : LgAdds(lgCall[d], f, i)
      BY DEF LgInv, LgPutsOK, LgSettled
    <2>2. LgFound(lgFacts, f) \subseteq LgFound(lgFacts', f)
      BY <1>7 DEF LgFound
    <2>3. ASSUME NEW i \in LgFound(lgFacts', f) PROVE i = lgLast[f] \/ \E d \in LgCallers : LgAdds(lgCall'[d], f, i)
      <3>1. CASE i = n
        BY <1>5, <1>7, <1>8, <1>9, <3>1 DEF LgFound, LgAdds
      <3>2. CASE i # n
        <4>1. i \in LgFound(lgFacts, f)
          BY <1>7, <3>2 DEF LgFound
        <4>2. \A d \in LgCallers : LgAdds(lgCall[d], f, i) => LgAdds(lgCall'[d], f, i)
          BY <1>1, <1>8 DEF LgAdds
        <4> QED BY <2>1, <4>1, <4>2
      <3> QED BY <3>1, <3>2
    <2> QED BY <2>1, <2>2, <2>3
  <1>13. ASSUME NEW d \in LgCallers PROVE LgBegunOK(lgFacts', lgLast, lgTorn, lgCall'[d])
    <2>1. LgBegunOK(lgFacts, lgLast, lgTorn, lgCall[d])
      BY DEF LgInv, LgPutsOK
    <2>2. CASE d = c
      <3>1. /\ lgCall[c].previous # 0 => lgCall[c].previous \in DOMAIN lgFacts /\ LgHolds(lgFacts[lgCall[c].previous], e)
            /\ e \notin lgTorn => lgLast[e] \in {0, lgCall[c].previous}
        BY <1>1, <2>1, <2>2 DEF LgBegunOK, LgHead
      <3>2. n # lgCall[c].previous
        BY <1>4, <3>1
      <3> QED BY <1>5, <1>6, <1>7, <1>8, <2>2, <3>1, <3>2 DEF LgBegunOK
    <2>3. CASE d # c
      BY <1>7, <1>8, <2>1, <2>3 DEF LgBegunOK
    <2> QED BY <2>2, <2>3
  <1>14. LgOlderOK(lgFacts', lgList)
    BY <1>6, <1>7 DEF LgInv, LgSearchesOK, LgOlderOK
  <1>15. ASSUME NEW d \in LgCallers PROVE LgAnswerOK(lgFacts', lgCall'[d])
    <2>1. LgAnswerOK(lgFacts, lgCall[d])
      BY DEF LgInv, LgSearchesOK
    <2> SUFFICES ASSUME lgCall'[d] = lgCall[d], lgCall[d].at = "answered" PROVE LgAnswerOK(lgFacts', lgCall[d])
      BY <1>5, <1>8 DEF LgAnswerOK
    <2>2. lgCall[d].live \subseteq DOMAIN lgFacts /\ \A i \in lgCall[d].live : lgFacts'[i].ns = lgFacts[i].ns
      BY <1>7, <2>1 DEF LgAnswerOK
    <2> QED BY <1>7, <2>1, <2>2 DEF LgAnswerOK
  <1> QED BY <1>1, <1>10, <1>11, <1>12, <1>13, <1>14, <1>15 DEF LgInv, LgPutsOK, LgSettled, LgSearchesOK

\* What is left of a line when its head leaves it.
LEMMA LgHeadLeaves ==
  ASSUME NEW S, NEW line \in Seq(S), line # <<>>
  PROVE  LET rest == Lang!RemoveAt(line, 1) IN
         /\ rest \in Seq(S) /\ Len(rest) = Len(line) - 1
         /\ \A i \in 1 .. Len(line) - 1 : rest[i] = line[i + 1]
  <1>1. 1 \in DOMAIN line /\ Len(line) \in Nat \ {0}
    OBVIOUS
  <1>3. Lang!RemoveAt(line, 1) = SubSeq(line, 1, 0) \o SubSeq(line, 2, Len(line))
    BY DEF Lang!RemoveAt
  <1>4. SubSeq(line, 1, 0) = <<>>
    BY <1>1
  <1>5. /\ SubSeq(line, 2, Len(line)) \in Seq(S) /\ Len(SubSeq(line, 2, Len(line))) = Len(line) - 1
        /\ \A i \in 1 .. Len(line) - 1 : SubSeq(line, 2, Len(line))[i] = line[i + 1]
    <2>1. \A i \in 2 .. Len(line) : line[i] \in S
      OBVIOUS
    <2>2. 2 \in Int /\ Len(line) \in Int
      BY <1>1
    <2>3. /\ SubSeq(line, 2, Len(line)) \in Seq(S)
          /\ Len(SubSeq(line, 2, Len(line))) = (IF 2 <= Len(line) THEN Len(line) - 2 + 1 ELSE 0)
          /\ \A i \in 1 .. Len(line) - 2 + 1 : SubSeq(line, 2, Len(line))[i] = line[2 + i - 1]
      <3>1. ASSUME NEW a \in Int, NEW b \in Int, \A i \in a .. b : line[i] \in S
            PROVE  /\ SubSeq(line, a, b) \in Seq(S) /\ Len(SubSeq(line, a, b)) = (IF a <= b THEN b - a + 1 ELSE 0)
                   /\ \A i \in 1 .. b - a + 1 : SubSeq(line, a, b)[i] = line[a + i - 1]
        BY <3>1, SubSeqProperties
      <3> QED BY <2>1, <2>2, <3>1, Zenon
    <2>4. \A m \in Nat \ {0} : m - 2 + 1 = m - 1 /\ (IF 2 <= m THEN m - 2 + 1 ELSE 0) = m - 1 /\ \A i \in 1 .. m - 1 : 2 + i - 1 = i + 1
      OBVIOUS
    <2>5. \A i \in 1 .. Len(line) - 1 : SubSeq(line, 2, Len(line))[i] = line[i + 1]
      BY <1>1, <2>3, <2>4
    <2>6. Len(SubSeq(line, 2, Len(line))) = Len(line) - 1
      BY <1>1, <2>3, <2>4, Zenon
    <2> QED BY <2>3, <2>5, <2>6
  <1>6. <<>> \o SubSeq(line, 2, Len(line)) = SubSeq(line, 2, Len(line))
    BY <1>5
  <1> QED BY <1>3, <1>4, <1>5, <1>6
\* A put's end keeps the invariant, if what it says it left is what a get of
\* its entry would find, and the other entries are as they were.
LEMMA LgEnds ==
  ASSUME LgInv, NEW c \in LgCallers, lgCall[c].at \in LgHead, NEW left \in Nat, NEW torn \in BOOLEAN,
         Lang!PutEnds(c, left, torn), LgWorn(lgFacts, lgFacts'),
         ~torn /\ lgCall[c].entry \notin lgTorn =>
           /\ left # 0 => left \in LgFound(lgFacts', lgCall[c].entry)
           /\ LgFound(lgFacts', lgCall[c].entry) \subseteq {left},
         \A f \in Lang!Entries : f # lgCall[c].entry => LgFound(lgFacts', f) = LgFound(lgFacts, f)
  PROVE  LgInv'
  <1> DEFINE e == lgCall[c].entry
             line == lgQueue[e]
             place == CHOOSE n \in DOMAIN line : line[n] = c
             rest == Lang!RemoveAt(line, 1)
  <1>1. /\ lgCall' = [lgCall EXCEPT ![c] = Lang!LgIdle] /\ lgQueue' = [lgQueue EXCEPT ![e] = Lang!RemoveAt(line, place)]
        /\ lgLast' = [lgLast EXCEPT ![e] = left] /\ lgTorn' = (IF torn THEN lgTorn \cup {e} ELSE lgTorn)
        /\ lgList' = lgList /\ lgClock' = lgClock
    BY DEF Lang!PutEnds, Lang!LgGoes
  <1>2. LgTypes /\ LgLine(lgQueue, lgCall)
    BY DEF LgInv, LgPutsOK
  <1>3. /\ e \in Lang!Entries /\ line # <<>> /\ line[1] = c
        /\ \A d \in LgCallers : lgCall[d].at \in LgHead /\ lgCall[d].entry = e => d = c
    BY <1>2, LgBegunIsHead
  <1>4. line \in Seq(LgCallers) /\ Len(line) \in Nat \ {0} /\ DOMAIN line = 1 .. Len(line)
    BY <1>2, <1>3 DEF LgTypes
  <1>5. \A i, j \in DOMAIN line : line[i] = line[j] => i = j
    BY <1>2, <1>3 DEF LgLine
  <1>6. /\ place = 1 /\ rest \in Seq(LgCallers) /\ Len(rest) = Len(line) - 1
        /\ \A i \in 1 .. Len(line) - 1 : rest[i] = line[i + 1]
    <2> HIDE DEF line
    <2>1. 1 \in DOMAIN line
      BY <1>4
    <2>2. place = 1
      BY <1>3, <1>5, <2>1
    <2> QED BY ZenonT(30), <1>3, <1>4, <2>2, LgHeadLeaves
  <1>7. DOMAIN rest = 1 .. Len(line) - 1
    BY <1>6
  <1>8. /\ lgCall'[c].at = "idle" /\ (\A d \in LgCallers : d # c => lgCall'[d] = lgCall[d])
        /\ lgCall' \in [LgCallers -> LgKinds]
    BY <1>1, <1>2 DEF LgTypes, LgKinds, Lang!LgIdle
  <1>9. /\ lgQueue'[e] = rest /\ (\A f \in Lang!Entries : f # e => lgQueue'[f] = lgQueue[f])
        /\ lgQueue' \in [Lang!Entries -> Seq(LgCallers)]
    BY <1>1, <1>2, <1>3, <1>6 DEF LgTypes
  <1>10. /\ lgLast'[e] = left /\ (\A f \in Lang!Entries : f # e => lgLast'[f] = lgLast[f])
         /\ lgLast' \in [Lang!Entries -> Nat]
    BY <1>1, <1>2, <1>3 DEF LgTypes
  <1>11. lgTorn' \subseteq Lang!Entries /\ lgTorn \subseteq lgTorn' /\ (e \notin lgTorn' => ~torn)
    BY <1>1, <1>2, <1>3 DEF LgTypes
  <1> HIDE DEF rest, line, place
  <1>12. LgTypes'
    BY <1>1, <1>2, <1>8, <1>9, <1>10, <1>11 DEF LgTypes, LgWorn
  <1>13. ASSUME NEW i \in DOMAIN rest
         PROVE  /\ i + 1 \in DOMAIN line /\ rest[i] = line[i + 1] /\ rest[i] # c /\ rest[i] \in LgCallers
                /\ lgCall[rest[i]].at \in LgPutting /\ lgCall[rest[i]].entry = e /\ lgCall[rest[i]].at \notin LgHead
    <2>1. i + 1 \in DOMAIN line /\ i + 1 # 1 /\ rest[i] = line[i + 1]
      BY <1>4, <1>6, <1>7
    <2>2. line[i + 1] # c /\ line[i + 1] \in LgCallers
      BY <1>3, <1>4, <1>5, <2>1
    <2>3. /\ lgCall[line[i + 1]].at \in LgPutting /\ lgCall[line[i + 1]].entry = e
          /\ lgCall[line[i + 1]].at \in LgHead => i + 1 = 1
      BY <1>2, <1>3, <2>1 DEF LgLine, line
    <2> QED BY <2>1, <2>2, <2>3
  <1>14. LgLine(lgQueue', lgCall')
    <2>1. ASSUME NEW f \in Lang!Entries PROVE \A i, j \in DOMAIN lgQueue'[f] : lgQueue'[f][i] = lgQueue'[f][j] => i = j
      <3>1. CASE f # e
        BY <1>2, <1>9, <3>1 DEF LgLine
      <3>2. CASE f = e
        <4> SUFFICES ASSUME NEW i \in DOMAIN rest, NEW j \in DOMAIN rest, rest[i] = rest[j] PROVE i = j
          BY <1>9, <3>2
        <4>1. i + 1 = j + 1
          BY <1>5, <1>13
        <4> QED BY <1>4, <1>7, <4>1
      <3> QED BY <3>1, <3>2
    <2>2. ASSUME NEW f \in Lang!Entries, NEW i \in DOMAIN lgQueue'[f]
          PROVE  /\ lgCall'[lgQueue'[f][i]].at \in LgPutting /\ lgCall'[lgQueue'[f][i]].entry = f
                 /\ lgCall'[lgQueue'[f][i]].at \in LgHead => i = 1
      <3>1. CASE f # e
        <4>1. /\ lgCall[lgQueue[f][i]].at \in LgPutting /\ lgCall[lgQueue[f][i]].entry = f
              /\ lgCall[lgQueue[f][i]].at \in LgHead => i = 1
          BY <1>2, <1>9, <2>2, <3>1 DEF LgLine
        <4>2. lgQueue[f][i] \in LgCallers /\ lgQueue[f][i] # c
          BY <1>2, <1>9, <2>2, <3>1, <4>1 DEF LgTypes
        <4> QED BY <1>8, <1>9, <3>1, <4>1, <4>2
      <3>2. CASE f = e
        BY <1>8, <1>9, <1>13, <2>2, <3>2
      <3> QED BY <3>1, <3>2
    <2>3. ASSUME NEW d \in LgCallers, lgCall'[d].at \in LgPutting
          PROVE  \E i \in DOMAIN lgQueue'[lgCall'[d].entry] : lgQueue'[lgCall'[d].entry][i] = d
      <3>1. d # c /\ lgCall'[d] = lgCall[d]
        BY <1>8, <2>3 DEF LgPutting
      <3>2. lgCall[d].entry \in Lang!Entries
        BY <1>2, <2>3, <3>1, LgCallKinds DEF LgTypes
      <3>3. PICK i \in DOMAIN lgQueue[lgCall[d].entry] : lgQueue[lgCall[d].entry][i] = d
        BY <1>2, <2>3, <3>1 DEF LgLine
      <3>4. CASE lgCall[d].entry # e
        BY <1>9, <3>1, <3>2, <3>3, <3>4
      <3>5. CASE lgCall[d].entry = e
        <4>1. i \in DOMAIN line /\ line[i] = d /\ i # 1
          BY <1>3, <3>1, <3>3, <3>5 DEF line
        <4>2. i - 1 \in 1 .. Len(line) - 1 /\ (i - 1) + 1 = i
          BY <1>4, <4>1
        <4>3. i - 1 \in DOMAIN rest /\ rest[i - 1] = d
          BY <1>6, <1>7, <4>1, <4>2
        <4> QED BY <1>9, <3>1, <3>5, <4>3
      <3> QED BY <3>4, <3>5
    <2> QED BY <2>1, <2>2, <2>3 DEF LgLine
  <1>15. ASSUME NEW d \in LgCallers PROVE LgBegunOK(lgFacts', lgLast', lgTorn', lgCall'[d])
    <2>1. CASE d = c
      BY <1>8, <2>1 DEF LgBegunOK, LgHead
    <2>2. CASE d # c
      <3>1. LgBegunOK(lgFacts, lgLast, lgTorn, lgCall[d])
        BY DEF LgInv, LgPutsOK
      <3>2. lgCall[d].at \in LgHead => lgCall[d].entry # e /\ lgCall[d].entry \in Lang!Entries
        BY <1>2, <1>3, <2>2, LgCallKinds DEF LgTypes, LgHead, LgPutting
      <3>3. \A i, f : i \in DOMAIN lgFacts /\ LgHolds(lgFacts[i], f) => i \in DOMAIN lgFacts' /\ LgHolds(lgFacts'[i], f)
        BY DEF LgWorn, LgHolds
      <3>4. \A f \in Lang!Entries : f # e => lgLast'[f] = lgLast[f] /\ (f \notin lgTorn' => f \notin lgTorn)
        BY <1>10, <1>11
      <3> HIDE DEF e
      <3> QED BY <1>8, <2>2, <3>1, <3>2, <3>3, <3>4 DEF LgBegunOK
    <2> QED BY <2>1, <2>2
  <1>16. ASSUME NEW f \in Lang!Entries \ lgTorn'
         PROVE  /\ lgLast'[f] # 0 => lgLast'[f] \in LgFound(lgFacts', f)
                /\ \A i \in LgFound(lgFacts', f) : i = lgLast'[f] \/ \E d \in LgCallers : LgAdds(lgCall'[d], f, i)
    <2>1. CASE f = e
      BY <1>1, <1>10, <1>11, <2>1
    <2>2. CASE f # e
      <3>1. /\ lgLast[f] # 0 => lgLast[f] \in LgFound(lgFacts, f)
            /\ \A i \in LgFound(lgFacts, f) : i = lgLast[f] \/ \E d \in LgCallers : LgAdds(lgCall[d], f, i)
        BY <1>11 DEF LgInv, LgPutsOK, LgSettled
      <3>2. \A i : \A d \in LgCallers : LgAdds(lgCall[d], f, i) => LgAdds(lgCall'[d], f, i)
        BY <1>8, <2>2 DEF LgAdds
      <3>3. LgFound(lgFacts', f) = LgFound(lgFacts, f) /\ lgLast'[f] = lgLast[f]
        BY <1>10, <2>2
      <3> QED BY <3>1, <3>2, <3>3
    <2> QED BY <2>1, <2>2
  <1>17. LgSearchesOK'
    BY <1>1, <1>8, LgWornSearches DEF LgInv
  <1> QED BY <1>12, <1>14, <1>15, <1>16, <1>17 DEF LgInv, LgPutsOK, LgSettled
\* What a begun put may find of its entry, unless an earlier put was torn.
LEMMA LgBegunKnows ==
  ASSUME LgInv, NEW c \in LgCallers, lgCall[c].at \in LgHead
  PROVE  /\ lgCall[c] \in LgBegun /\ lgCall[c].entry \in Lang!Entries
         /\ lgCall[c].previous # 0 => lgCall[c].previous \in DOMAIN lgFacts /\ LgHolds(lgFacts[lgCall[c].previous], lgCall[c].entry)
         /\ lgCall[c].new # 0 => /\ lgCall[c].at = "retire" /\ lgCall[c].new # lgCall[c].previous
                                 /\ lgCall[c].new \in DOMAIN lgFacts /\ LgHolds(lgFacts[lgCall[c].new], lgCall[c].entry)
         /\ lgCall[c].entry \notin lgTorn =>
              /\ lgLast[lgCall[c].entry] \in {0, lgCall[c].previous}
              /\ lgLast[lgCall[c].entry] # 0 => lgLast[lgCall[c].entry] \in LgFound(lgFacts, lgCall[c].entry)
              /\ \A i \in LgFound(lgFacts, lgCall[c].entry) : i = lgLast[lgCall[c].entry] \/ i = lgCall[c].new
  <1>1. LgTypes /\ LgLine(lgQueue, lgCall) /\ LgBegunOK(lgFacts, lgLast, lgTorn, lgCall[c])
        /\ LgSettled(lgFacts, lgLast, lgTorn, lgCall)
    BY DEF LgInv, LgPutsOK
  <1>2. /\ lgCall[c] \in LgBegun /\ lgCall[c].entry \in Lang!Entries
        /\ \A d \in LgCallers : lgCall[d].at \in LgHead /\ lgCall[d].entry = lgCall[c].entry => d = c
    BY <1>1, LgBegunIsHead, LgCallKinds DEF LgTypes
  <1>3. lgCall[c].at # "add" => lgCall[c].at = "retire"
    BY DEF LgHead
  <1>4. ASSUME lgCall[c].entry \notin lgTorn, NEW i \in LgFound(lgFacts, lgCall[c].entry)
        PROVE  i = lgLast[lgCall[c].entry] \/ i = lgCall[c].new
    BY <1>1, <1>2, <1>4 DEF LgSettled, LgAdds, LgHead
  <1> QED BY <1>1, <1>2, <1>3, <1>4 DEF LgBegunOK, LgSettled

\* The previous fact closed, erased already or none, the put leaves its own
\* fact if that still lives.
LEMMA LgRetireInv ==
  ASSUME LgInv, NEW c \in LgCallers, Lang!RetirePrevious(c) PROVE LgInv'
  <1> DEFINE call == lgCall[c]
             e == call.entry
             live(i) == i # 0 /\ lgFacts[i].state = "live"
             left == IF live(call.new) THEN call.new ELSE 0
  <1>1. call.at = "retire" /\ call.at \in LgHead
    BY DEF Lang!RetirePrevious, LgHead
  <1>2. /\ call \in LgBegun /\ e \in Lang!Entries /\ call.new \in Nat /\ call.previous \in Nat
        /\ call.previous # 0 => call.previous \in DOMAIN lgFacts /\ LgHolds(lgFacts[call.previous], e)
        /\ call.new # 0 => call.new # call.previous /\ call.new \in DOMAIN lgFacts /\ LgHolds(lgFacts[call.new], e)
        /\ e \notin lgTorn =>
              /\ lgLast[e] \in {0, call.previous}
              /\ lgLast[e] # 0 => lgLast[e] \in LgFound(lgFacts, e)
              /\ \A i \in LgFound(lgFacts, e) : i = lgLast[e] \/ i = call.new
    BY <1>1, LgBegunKnows DEF LgBegun
  <1>3. /\ lgFacts \in Seq(LgFact) /\ lgLast[e] \in Nat /\ 0 \notin DOMAIN lgFacts
    BY <1>2 DEF LgInv, LgTypes
  <1>4. LgWorn(lgFacts, lgFacts) /\ left \in Nat
    BY <1>2, <1>3 DEF LgWorn
  <1>5. CASE call.previous = 0
    <2>1. Lang!PutEnds(c, left, FALSE) /\ lgFacts' = lgFacts
      BY <1>5 DEF Lang!RetirePrevious, Lang!None
    <2>2. ASSUME e \notin lgTorn PROVE (left # 0 => left \in LgFound(lgFacts, e)) /\ LgFound(lgFacts, e) \subseteq {left}
      BY <1>2, <1>3, <1>5, <2>2 DEF LgFound
    <2> QED BY <1>1, <1>4, <2>1, <2>2, LgEnds
  <1>6. CASE call.previous # 0 /\ lgFacts[call.previous].state = "erased"
    <2>1. Lang!PutEnds(c, lgLast[e], call.new # 0) /\ lgFacts' = lgFacts
      BY <1>6 DEF Lang!RetirePrevious, Lang!None
    <2>2. ASSUME call.new = 0, e \notin lgTorn
          PROVE (lgLast[e] # 0 => lgLast[e] \in LgFound(lgFacts, e)) /\ LgFound(lgFacts, e) \subseteq {lgLast[e]}
      BY <1>2, <1>3, <2>2 DEF LgFound
    <2> QED BY <1>1, <1>3, <1>4, <2>1, <2>2, LgEnds
  <1>7. CASE call.previous # 0 /\ lgFacts[call.previous].state # "erased"
    <2>1. Lang!PutEnds(c, left, FALSE) /\ lgFacts' = [lgFacts EXCEPT ![call.previous].state = "closed"]
      BY <1>7 DEF Lang!RetirePrevious, Lang!None
    <2>2. /\ lgFacts' \in Seq(LgFact) /\ DOMAIN lgFacts' = DOMAIN lgFacts /\ lgFacts'[call.previous].state = "closed"
          /\ \A i \in DOMAIN lgFacts : /\ i # call.previous => lgFacts'[i] = lgFacts[i]
                                       /\ lgFacts'[i].ns = lgFacts[i].ns /\ lgFacts'[i].key = lgFacts[i].key
                                       /\ lgFacts'[i].older = lgFacts[i].older /\ lgFacts'[i].from = lgFacts[i].from
      <3>1. lgFacts[call.previous] \in LgFact
        BY <1>2, <1>3, <1>7
      <3>2. [lgFacts[call.previous] EXCEPT !.state = "closed"] \in LgFact
        BY <3>1 DEF LgFact
      <3> HIDE DEF call
      <3> QED BY <1>2, <1>3, <1>7, <2>1, <3>1, <3>2 DEF LgFact
    <2>3. LgWorn(lgFacts, lgFacts')
      BY <2>2 DEF LgWorn
    <2>4. \A f : LgFound(lgFacts', f) = LgFound(lgFacts, f) \ {call.previous}
      BY <2>2 DEF LgFound, LgHolds
    <2>5. ASSUME NEW f \in Lang!Entries, f # e PROVE LgFound(lgFacts', f) = LgFound(lgFacts, f)
      <3>1. call.previous \notin LgFound(lgFacts, f)
        BY <1>2, <1>7, <2>5 DEF LgFound, LgHolds, Lang!Entries
      <3> QED BY <2>4, <3>1
    <2>6. ASSUME e \notin lgTorn PROVE (left # 0 => left \in LgFound(lgFacts', e)) /\ LgFound(lgFacts', e) \subseteq {left}
      <3>1. ASSUME left # 0 PROVE left \in LgFound(lgFacts', e)
        BY <1>2, <2>4, <3>1 DEF LgFound
      <3>2. ASSUME NEW i \in LgFound(lgFacts', e) PROVE i = left
        <4>1. i \in LgFound(lgFacts, e) /\ i # call.previous
          BY <2>4, <3>2
        <4>2. i = call.new /\ lgFacts[i].state = "live"
          BY <1>2, <1>3, <2>6, <4>1 DEF LgFound
        <4> QED BY <4>1, <4>2
      <3> QED BY <3>1, <3>2
    <2> HIDE DEF left, e, call
    <2> QED BY <1>1, <1>4, <2>1, <2>3, <2>5, <2>6, LgEnds DEF e, call
  <1> QED BY <1>5, <1>6, <1>7

LEMMA LgFailInv ==
  ASSUME LgInv, NEW c \in LgCallers, Lang!FailPut(c) PROVE LgInv'
  <1> DEFINE call == lgCall[c]
             e == call.entry
  <1>1. call.at \in LgHead /\ Lang!PutEnds(c, lgLast[e], call.new # 0) /\ lgFacts' = lgFacts
    BY DEF Lang!FailPut, LgHead, Lang!None
  <1>2. /\ e \in Lang!Entries
        /\ e \notin lgTorn =>
              /\ lgLast[e] # 0 => lgLast[e] \in LgFound(lgFacts, e)
              /\ \A i \in LgFound(lgFacts, e) : i = lgLast[e] \/ i = call.new
    BY <1>1, LgBegunKnows
  <1>3. lgFacts \in Seq(LgFact) /\ lgLast[e] \in Nat /\ 0 \notin DOMAIN lgFacts
    BY <1>2 DEF LgInv, LgTypes
  <1>4. ASSUME call.new = 0, e \notin lgTorn
        PROVE (lgLast[e] # 0 => lgLast[e] \in LgFound(lgFacts, e)) /\ LgFound(lgFacts, e) \subseteq {lgLast[e]}
    BY <1>2, <1>3, <1>4 DEF LgFound
  <1>5. LgWorn(lgFacts, lgFacts)
    BY <1>3 DEF LgWorn
  <1> QED BY <1>1, <1>3, <1>4, <1>5, LgEnds
LEMMA LgElsewhereInv ==
  ASSUME LgInv, NEW i \in Lang!LgIds, NEW to \in {"closed", "erased"}, Lang!ChangeElsewhere(i, to) PROVE LgInv'
  <1>1. /\ lgFacts[i].state = "live" /\ lgFacts' = [lgFacts EXCEPT ![i].state = to]
        /\ lgLast' = [e \in Lang!Entries |-> IF lgLast[e] = i THEN 0 ELSE lgLast[e]]
        /\ UNCHANGED <<lgQueue, lgCall, lgList, lgTorn, lgClock>>
    BY DEF Lang!ChangeElsewhere, Lang!None
  <1>2. LgTypes /\ i \in DOMAIN lgFacts
    BY DEF LgInv, Lang!LgIds
  <1>3. /\ lgFacts' \in Seq(LgFact) /\ DOMAIN lgFacts' = DOMAIN lgFacts /\ lgFacts'[i].state = to
        /\ \A j \in DOMAIN lgFacts : /\ j # i => lgFacts'[j] = lgFacts[j]
                                     /\ lgFacts'[j].ns = lgFacts[j].ns /\ lgFacts'[j].key = lgFacts[j].key
                                     /\ lgFacts'[j].older = lgFacts[j].older /\ lgFacts'[j].from = lgFacts[j].from
    <2>1. lgFacts[i] \in LgFact /\ lgFacts \in Seq(LgFact)
      BY <1>2 DEF LgTypes
    <2>2. [lgFacts[i] EXCEPT !.state = to] \in LgFact
      BY <2>1 DEF LgFact
    <2> QED BY <1>1, <1>2, <2>1, <2>2 DEF LgFact
  <1>4. LgWorn(lgFacts, lgFacts')
    BY <1>3 DEF LgWorn
  <1>5. \A f : LgFound(lgFacts', f) = LgFound(lgFacts, f) \ {i}
    BY <1>3 DEF LgFound, LgHolds
  <1>6. /\ lgLast' \in [Lang!Entries -> Nat]
        /\ \A f \in Lang!Entries : lgLast'[f] = IF lgLast[f] = i THEN 0 ELSE lgLast[f]
    BY <1>1, <1>2 DEF LgTypes
  <1>7. LgTypes'
    BY <1>1, <1>2, <1>3, <1>6 DEF LgTypes
  <1>8. LgLine(lgQueue', lgCall')
    BY <1>1 DEF LgInv, LgPutsOK
  <1>9. ASSUME NEW d \in LgCallers PROVE LgBegunOK(lgFacts', lgLast', lgTorn', lgCall'[d])
    <2>1. LgBegunOK(lgFacts, lgLast, lgTorn, lgCall[d])
      BY DEF LgInv, LgPutsOK
    <2>2. \A j, f : j \in DOMAIN lgFacts /\ LgHolds(lgFacts[j], f) => j \in DOMAIN lgFacts' /\ LgHolds(lgFacts'[j], f)
      BY <1>3 DEF LgHolds
    <2>3. lgCall[d].at \in LgHead => lgCall[d].entry \in Lang!Entries
      BY <1>2, LgCallKinds DEF LgTypes, LgHead, LgPutting
    <2> QED BY <1>1, <1>6, <2>1, <2>2, <2>3 DEF LgBegunOK
  <1>10. ASSUME NEW f \in Lang!Entries \ lgTorn'
         PROVE  /\ lgLast'[f] # 0 => lgLast'[f] \in LgFound(lgFacts', f)
                /\ \A j \in LgFound(lgFacts', f) : j = lgLast'[f] \/ \E d \in LgCallers : LgAdds(lgCall'[d], f, j)
    <2>1. /\ lgLast[f] # 0 => lgLast[f] \in LgFound(lgFacts, f)
          /\ \A j \in LgFound(lgFacts, f) : j = lgLast[f] \/ \E d \in LgCallers : LgAdds(lgCall[d], f, j)
      BY <1>1 DEF LgInv, LgPutsOK, LgSettled
    <2> QED BY <1>1, <1>5, <1>6, <2>1
  <1>11. LgSearchesOK'
    BY <1>1, <1>4, LgWornSearches DEF LgInv
  <1> QED BY <1>7, <1>8, <1>9, <1>10, <1>11 DEF LgInv, LgPutsOK, LgSettled

LEMMA LgSearchInv ==
  ASSUME LgInv, NEW c \in LgCallers, NEW prefix \in LgNamespaces, Lang!Search(c, prefix) PROVE LgInv'
  <1>1. /\ lgCall[c].at = "idle" /\ lgCall' = [lgCall EXCEPT ![c] = [at |-> "older", prefix |-> prefix, validAt |-> lgClock]]
        /\ lgList' = (IF lgList = Lang!Unread THEN Lang!Reading ELSE lgList)
        /\ UNCHANGED <<lgFacts, lgQueue, lgLast, lgTorn, lgClock>>
    BY DEF Lang!Search, Lang!LgBegins, Lang!LgGoes, Lang!LgIdle
  <1>2. [at |-> "older", prefix |-> prefix, validAt |-> lgClock] \in LgKinds
    BY DEF LgInv, LgTypes, LgKinds, LgSearching
  <1>3. /\ lgCall' \in [LgCallers -> LgKinds] /\ lgCall'[c].at = "older"
        /\ \A d \in LgCallers : d # c => lgCall'[d] = lgCall[d]
    BY <1>1, <1>2 DEF LgInv, LgTypes
  <1>4. \A d \in LgCallers : lgCall'[d] = lgCall[d] \/ (lgCall[d].at \notin LgPutting /\ lgCall'[d].at \notin LgPutting)
    BY <1>1, <1>3 DEF LgPutting
  <1>5. LgTypes' /\ LgPutsOK'
    BY <1>1, <1>3, <1>4, LgAside DEF LgInv
  <1>6. lgList'.at = "read" => lgList' = lgList
    BY <1>1 DEF Lang!Reading
  <1>7. LgOlderOK(lgFacts', lgList')
    BY <1>1, <1>6 DEF LgInv, LgSearchesOK, LgOlderOK
  <1>8. \A d \in LgCallers : LgAnswerOK(lgFacts', lgCall'[d])
    BY <1>1, <1>3 DEF LgInv, LgSearchesOK, LgAnswerOK
  <1> QED BY <1>5, <1>7, <1>8 DEF LgInv, LgSearchesOK

LEMMA LgOlderReadInv == ASSUME LgInv, Lang!OlderRead PROVE LgInv'
  <1>1. lgList' = [at |-> "read", names |-> Lang!OlderNamespaces] /\ UNCHANGED <<lgFacts, lgQueue, lgCall, lgLast, lgTorn, lgClock>>
    BY DEF Lang!OlderRead
  <1>2. LgTypes' /\ LgPutsOK'
    BY <1>1 DEF LgInv, LgTypes, LgPutsOK
  <1>3. LgOlderOK(lgFacts, lgList')
    BY <1>1 DEF LgOlderOK, Lang!OlderNamespaces, Lang!LiveFacts, Lang!LgIds
  <1> QED BY <1>1, <1>2, <1>3 DEF LgInv, LgSearchesOK

LEMMA LgOlderFailsInv == ASSUME LgInv, Lang!OlderFails PROVE LgInv'
  <1>1. /\ lgList' = Lang!Unread /\ UNCHANGED <<lgFacts, lgQueue, lgLast, lgTorn, lgClock>>
        /\ lgCall' = [c \in LgCallers |-> IF lgCall[c].at = "older" THEN Lang!LgIdle ELSE lgCall[c]]
    BY DEF Lang!OlderFails
  <1>2. Lang!LgIdle \in LgKinds /\ Lang!LgIdle.at = "idle"
    BY DEF LgKinds, Lang!LgIdle
  <1>3. /\ lgCall' \in [LgCallers -> LgKinds]
        /\ \A d \in LgCallers : lgCall'[d] = lgCall[d] \/ (lgCall[d].at = "older" /\ lgCall'[d].at = "idle")
    BY <1>1, <1>2 DEF LgInv, LgTypes
  <1>4. LgTypes' /\ LgPutsOK'
    <2>1. \A d \in LgCallers : lgCall'[d] = lgCall[d] \/ (lgCall[d].at \notin LgPutting /\ lgCall'[d].at \notin LgPutting)
      BY <1>3 DEF LgPutting
    <2> QED BY <1>1, <1>3, <2>1, LgAside DEF LgInv
  <1>5. LgOlderOK(lgFacts', lgList')
    BY <1>1 DEF LgOlderOK, Lang!Unread
  <1>6. \A d \in LgCallers : LgAnswerOK(lgFacts', lgCall'[d])
    BY <1>1, <1>3 DEF LgInv, LgSearchesOK, LgAnswerOK
  <1> QED BY <1>4, <1>5, <1>6 DEF LgInv, LgSearchesOK

LEMMA LgTakeInv == ASSUME LgInv, NEW c \in LgCallers, Lang!TakeAnswer(c) PROVE LgInv'
  <1>1. /\ lgCall[c].at = "answered" /\ lgCall' = [lgCall EXCEPT ![c] = Lang!LgIdle]
        /\ UNCHANGED <<lgFacts, lgQueue, lgList, lgLast, lgTorn, lgClock>>
    BY DEF Lang!TakeAnswer, Lang!LgGoes
  <1>2. /\ lgCall' \in [LgCallers -> LgKinds] /\ lgCall'[c].at = "idle"
        /\ \A d \in LgCallers : d # c => lgCall'[d] = lgCall[d]
    BY <1>1 DEF LgInv, LgTypes, LgKinds, Lang!LgIdle
  <1>3. LgTypes' /\ LgPutsOK'
    <2>1. \A d \in LgCallers : lgCall'[d] = lgCall[d] \/ (lgCall[d].at \notin LgPutting /\ lgCall'[d].at \notin LgPutting)
      BY <1>1, <1>2 DEF LgPutting
    <2> QED BY <1>1, <1>2, <2>1, LgAside DEF LgInv
  <1>4. \A d \in LgCallers : LgAnswerOK(lgFacts', lgCall'[d])
    BY <1>1, <1>2 DEF LgInv, LgSearchesOK, LgAnswerOK
  <1> QED BY <1>1, <1>3, <1>4 DEF LgInv, LgSearchesOK
LEMMA LgAtIsSame ==
  ASSUME NEW ns \in LgNamespaces, NEW prefix \in LgNamespaces, Lang!AtOrBelow(ns, prefix)
  PROVE  /\ Len(ns) \in Nat \ {0} /\ Len(prefix) \in 1 .. Len(ns)
         /\ Len(prefix) = Len(ns) => ns = prefix
  <1>1. \A m \in LgNamespaces : m # <<>> /\ m \in Seq({m[n] : n \in DOMAIN m})
    BY ServicesNamespaces
  <1>2. PICK S, T : ns \in Seq(S) /\ prefix \in Seq(T) /\ ns # <<>> /\ prefix # <<>>
    BY <1>1, Zenon
  <1>3. Len(prefix) <= Len(ns) /\ SubSeq(ns, 1, Len(prefix)) = prefix
    BY DEF Lang!AtOrBelow
  <1>4. ns = SubSeq(ns, 1, Len(ns))
    BY <1>2
  <1>5. Len(ns) \in Nat \ {0} /\ Len(prefix) \in Nat \ {0}
    BY <1>2
  <1>6. Len(prefix) = Len(ns) => ns = prefix
    BY <1>3, <1>4, Zenon
  <1>7. Len(prefix) \in 1 .. Len(ns)
    <2>1. Len(prefix) <= Len(ns)
      BY <1>3, Zenon
    <2> QED BY <1>5, <2>1
  <1> QED BY <1>5, <1>6, <1>7, Zenon

\* The tags a search asks for find everything at or below its prefix: what
\* 0.11.0 wrote by the list of its namespaces, the rest by the prefix's own tag.
LEMMA LgFoundBelowIs ==
  ASSUME lgFacts \in Seq(LgFact), NEW prefix \in LgNamespaces, lgList.at = "read", LgOlderOK(lgFacts, lgList)
  PROVE  {i \in Lang!FoundBelow(prefix, lgList.names) : Lang!AtOrBelow(lgFacts[i].ns, prefix)}
           = {i \in Lang!LiveFacts : Lang!AtOrBelow(lgFacts[i].ns, prefix)}
  <1> DEFINE below == {ns \in lgList.names : Len(ns) > Len(prefix) /\ Lang!AtOrBelow(ns, prefix)}
             tags == {<<"ns", LgTag[prefix]>>, <<"in", LgTag[prefix]>>} \cup {<<"ns", LgTag[ns]>> : ns \in below}
  <1>1. Lang!FoundBelow(prefix, lgList.names) = Lang!LiveFacts
        \/ Lang!FoundBelow(prefix, lgList.names) = {i \in Lang!LiveFacts : Lang!TagsOf(lgFacts[i]) \cap tags # {}}
    BY DEF Lang!FoundBelow
  <1>2. ASSUME NEW i \in Lang!LiveFacts, Lang!AtOrBelow(lgFacts[i].ns, prefix)
        PROVE  Lang!TagsOf(lgFacts[i]) \cap tags # {}
    <2> DEFINE ns == lgFacts[i].ns
    <2>1. i \in DOMAIN lgFacts /\ lgFacts[i] \in LgFact /\ ns \in LgNamespaces /\ lgFacts[i].older \in BOOLEAN /\ lgFacts[i].state = "live"
      <3>1. i \in DOMAIN lgFacts /\ lgFacts[i].state = "live"
        BY DEF Lang!LiveFacts, Lang!LgIds
      <3>2. lgFacts[i] \in LgFact
        BY <3>1
      <3> QED BY <3>1, <3>2 DEF LgFact
    <2>2. /\ Len(ns) \in Nat \ {0} /\ Len(prefix) \in 1 .. Len(ns)
          /\ Len(prefix) = Len(ns) => ns = prefix
      BY <1>2, <2>1, LgAtIsSame
    <2>3. <<"ns", LgTag[ns]>> \in Lang!TagsOf(lgFacts[i])
      BY DEF Lang!TagsOf
    <2>4. CASE ns = prefix
      BY <2>3, <2>4
    <2>5. CASE ns # prefix /\ lgFacts[i].older
      <3>1. Len(ns) > 1 /\ Len(ns) > Len(prefix)
        BY <2>2, <2>5
      <3>2. ns \in lgList.names
        BY <2>1, <2>5, <3>1 DEF LgOlderOK
      <3>3. ns \in below
        BY <1>2, <3>1, <3>2
      <3> QED BY <2>3, <3>3
    <2>6. CASE ns # prefix /\ ~lgFacts[i].older
      <3>1. Len(prefix) \in 1 .. Len(ns) - 1
        BY <2>2, <2>6
      <3>2. SubSeq(ns, 1, Len(prefix)) = prefix
        BY <1>2 DEF Lang!AtOrBelow
      <3>3. <<"in", LgTag[SubSeq(ns, 1, Len(prefix))]>> \in Lang!TagsOf(lgFacts[i])
        BY <2>6, <3>1 DEF Lang!TagsOf
      <3> QED BY <3>2, <3>3
    <2> QED BY <2>4, <2>5, <2>6
  <1> HIDE DEF tags
  <1> QED BY <1>1, <1>2

LEMMA LgSearchBelowInv == ASSUME LgInv, NEW c \in LgCallers, Lang!SearchBelow(c) PROVE LgInv'
  <1> DEFINE prefix == lgCall[c].prefix
             validAt == lgCall[c].validAt
             hits == {i \in Lang!FoundBelow(prefix, lgList.names) :
                        Lang!AtOrBelow(lgFacts[i].ns, prefix) /\ lgFacts[i].from <= validAt}
             call == [at |-> "answered", prefix |-> prefix, validAt |-> validAt, live |-> Lang!LiveFacts, hits |-> hits]
  <1>1. /\ lgCall[c].at = "older" /\ lgList.at = "read" /\ lgCall' = [lgCall EXCEPT ![c] = call]
        /\ UNCHANGED <<lgFacts, lgQueue, lgList, lgLast, lgTorn, lgClock>>
    BY DEF Lang!SearchBelow, Lang!LgGoes
  <1>2. /\ lgFacts \in Seq(LgFact) /\ lgCall \in [LgCallers -> LgKinds] /\ LgOlderOK(lgFacts, lgList)
    BY DEF LgInv, LgTypes, LgSearchesOK
  <1>3. prefix \in LgNamespaces /\ validAt \in Nat
    BY <1>1, <1>2, LgCallKinds DEF LgSearching
  <1>4. hits = {i \in Lang!LiveFacts : Lang!AtOrBelow(lgFacts[i].ns, prefix) /\ lgFacts[i].from <= validAt}
    <2>1. {i \in Lang!FoundBelow(prefix, lgList.names) : Lang!AtOrBelow(lgFacts[i].ns, prefix)}
            = {i \in Lang!LiveFacts : Lang!AtOrBelow(lgFacts[i].ns, prefix)}
      BY <1>1, <1>2, <1>3, LgFoundBelowIs
    <2> QED BY <2>1
  <1>5. Lang!LiveFacts \subseteq DOMAIN lgFacts /\ DOMAIN lgFacts \subseteq Nat
    BY <1>2 DEF Lang!LiveFacts, Lang!LgIds
  <1> HIDE DEF hits, prefix, validAt
  <1>6. call \in LgKinds
    BY <1>3, <1>4, <1>5 DEF LgKinds, LgAnswered
  <1>7. call.at = "answered" /\ LgAnswerOK(lgFacts, call)
    BY <1>4, <1>5 DEF LgAnswerOK
  <1> HIDE DEF call
  <1>8. /\ lgCall' \in [LgCallers -> LgKinds] /\ lgCall'[c] = call
        /\ \A d \in LgCallers : d # c => lgCall'[d] = lgCall[d]
    BY <1>1, <1>2, <1>6
  <1>9. LgTypes' /\ LgPutsOK'
    <2>1. \A d \in LgCallers : lgCall'[d] = lgCall[d] \/ (lgCall[d].at \notin LgPutting /\ lgCall'[d].at \notin LgPutting)
      BY <1>1, <1>7, <1>8 DEF LgPutting
    <2> QED BY <1>1, <1>8, <2>1, LgAside DEF LgInv
  <1>10. \A d \in LgCallers : LgAnswerOK(lgFacts', lgCall'[d])
    <2>1. \A d \in LgCallers : LgAnswerOK(lgFacts, lgCall[d])
      BY DEF LgInv, LgSearchesOK
    <2> QED BY <1>1, <1>7, <1>8, <2>1
  <1> QED BY <1>1, <1>2, <1>9, <1>10 DEF LgInv, LgSearchesOK

\* Time passes.
LEMMA LgTickInv == ASSUME LgInv, Lang!LgTick PROVE LgInv'
  <1>1. lgClock' = lgClock + 1 /\ UNCHANGED <<lgFacts, lgQueue, lgCall, lgList, lgLast, lgTorn>>
    BY DEF Lang!LgTick
  <1> QED BY <1>1 DEF LgInv, LgTypes, LgPutsOK, LgSearchesOK

LEMMA LgNextInv == ASSUME LgInv, [Lang!LgNext]_LangVars PROVE LgInv'
  <1>1. CASE UNCHANGED LangVars
    BY <1>1 DEF LangVars, LgInv, LgTypes, LgPutsOK, LgSearchesOK
  <1>2. CASE Lang!LgNext
    BY <1>2, LgPutInv, LgFindInv, LgAddInv, LgRetireInv, LgFailInv, LgElsewhereInv, LgSearchInv, LgOlderReadInv,
       LgOlderFailsInv, LgTakeInv, LgSearchBelowInv, LgTickInv DEF Lang!LgNext
  <1> QED BY <1>1, <1>2

\* However the puts of an entry overlap and fail, a get with no put in line
\* finds what the last that succeeded left, unless one was torn; and a search,
\* which asks about the instant it began, everything that is live when the store
\* is read, was there at that instant and is at or below its prefix, and nothing
\* else (langchain.ts:167-230).
THEOREM ServicesPutsAreFound == Spec => []PutsAreFound
  <1> DEFINE Inv == part = "lang" => LgInv
  <1>1. Init => Inv
    BY LgInitInv DEF Init
  <1>2. Inv /\ [Next]_vars => Inv'
    BY OnePartMoves, LgNextInv
  <1>3. ASSUME LgInv PROVE Lang!GetFindsLastPut
    <2> SUFFICES ASSUME NEW e \in Lang!Entries, lgQueue[e] = <<>>, e \notin lgTorn PROVE LgFound(lgFacts, e) = {lgLast[e]} \ {0}
      BY LgFoundIs DEF Lang!GetFindsLastPut, Lang!None
    <2>1. /\ lgLast[e] # 0 => lgLast[e] \in LgFound(lgFacts, e)
          /\ \A i \in LgFound(lgFacts, e) : i = lgLast[e] \/ \E c \in LgCallers : LgAdds(lgCall[c], e, i)
      BY <1>3 DEF LgInv, LgPutsOK, LgSettled
    <2>2. \A i : \A c \in LgCallers : ~LgAdds(lgCall[c], e, i)
      BY <1>3 DEF LgInv, LgPutsOK, LgLine, LgAdds, LgPutting
    <2>3. 0 \notin LgFound(lgFacts, e)
      BY <1>3 DEF LgInv, LgTypes, LgFound
    <2> QED BY <2>1, <2>2, <2>3
  <1>4. ASSUME LgInv PROVE Lang!SearchFindsAllBelow
    BY <1>4 DEF LgInv, LgSearchesOK, LgAnswerOK, Lang!SearchFindsAllBelow
  <1>5. Inv => PutsAreFound
    BY <1>3, <1>4 DEF PutsAreFound
  <1> HIDE DEF Inv
  <1> QED BY <1>1, <1>2, <1>5, PTL DEF Spec
----------------------------------------------------------------------------
(* The owner's sign-in *)

OaGrants == [id : Nat, app : OaApps, until : Nat]
OaTokens == [is : {"access", "refresh"}, id : Nat, app : OaApps, pair : Nat, until : Nat]
OaFiles == [pending : SUBSET OaGrants, codes : SUBSET OaGrants, access : SUBSET OaTokens, refresh : SUBSET OaTokens,
            byApp : [OaApps -> [count : Nat, lockedUntil : Nat, until : Nat]],
            recent : SUBSET [n : Nat, at : Nat], lockedUntil : Nat]

OaTypes ==
  /\ oaFile \in OaFiles /\ oaClock \in Nat \ {0} /\ oaSignIns \in Nat
  /\ oaPairs \in Seq([id : Nat, by : {"code", "refresh"}]) /\ oaHeld \in SUBSET OaTokens
  /\ oaMisses \in Seq(Nat) /\ oaLosses \in 0 .. OaMaxLosses

\* What is in a file: a sign-in is asked for, or let in, or has had a pair of
\* tokens, and of its refresh tokens one is left at most.
OaFileOK(file, signIns, pairs) ==
  /\ file \in OaFiles
  /\ \A g \in file.pending \cup file.codes : g.id \in 1 .. signIns /\ \A j \in DOMAIN pairs : pairs[j].id # g.id
  /\ \A p \in file.pending, c \in file.codes : p.id # c.id
  /\ \A p, q \in file.pending : p.id = q.id => p = q
  /\ \A g \in file.access \cup file.refresh : g.pair \in DOMAIN pairs /\ pairs[g.pair].id = g.id
  /\ \A g, h \in file.refresh : g.id = h.id => g = h

OaPairsOK ==
  /\ \A i \in DOMAIN oaPairs : oaPairs[i].id \in 1 .. oaSignIns
  /\ \A i, j \in DOMAIN oaPairs : oaPairs[i].by = "code" /\ oaPairs[j].by = "code" /\ oaPairs[i].id = oaPairs[j].id => i = j

\* A wrong passphrase of the last lock's length is in the file, or the file
\* locks every app for as long as it counts.
OaGuessesKept == oaLosses = 0 =>
  /\ \A i \in DOMAIN oaMisses : oaMisses[i] <= oaClock
  /\ IsFiniteSet(oaFile.recent) /\ Cardinality(oaFile.recent) < OaLockAllAfter
  /\ \A i \in DOMAIN oaMisses : oaMisses[i] + OaLock > oaClock =>
       [n |-> i, at |-> oaMisses[i]] \in oaFile.recent \/ oaMisses[i] + OaLock <= oaFile.lockedUntil

OaInv ==
  /\ OaTypes /\ OaFileOK(oaFile, oaSignIns, oaPairs) /\ OaPairsOK /\ OaGuessesKept
  /\ SignIn!GuessesAreLimited /\ SignIn!GivenTokensWork

\* The wrong passphrases judged less than a lock's length before an instant.
OaWindow(misses, now) == {i \in DOMAIN misses : misses[i] <= now /\ now < misses[i] + OaLock}

LEMMA OaLimited ==
  /\ SignIn!GuessesAreLimited <=>
       (oaLosses = 0 => \A now \in 1 .. oaClock : Cardinality(OaWindow(oaMisses, now)) <= OaLockAllAfter)
  /\ SignIn!GuessesAreLimited' <=>
       (oaLosses' = 0 => \A now \in 1 .. oaClock' : Cardinality(OaWindow(oaMisses', now)) <= OaLockAllAfter)
  BY DEF SignIn!GuessesAreLimited, OaWindow, SignIn!Cardinality, Cardinality, SignIn!IsFiniteSet, IsFiniteSet

\* What a save leaves of what it is given.
LEMMA OaSaves ==
  ASSUME OaTypes, NEW from, NEW file \in OaFiles, SignIn!Save(from, file)
  PROVE  /\ oaFile' \in OaFiles
         /\ oaFile'.pending = SignIn!Alive(file.pending) /\ oaFile'.codes = SignIn!Alive(file.codes)
         /\ oaFile'.access = SignIn!Alive(file.access) /\ oaFile'.refresh = SignIn!Alive(file.refresh)
         /\ oaFile'.recent = SignIn!RecentIn(file.recent) /\ oaFile'.lockedUntil = file.lockedUntil
         /\ oaLosses' = IF from = oaFile THEN oaLosses ELSE oaLosses + 1
  <1> DEFINE byApp == [a \in OaApps |-> IF file.byApp[a].until > oaClock THEN file.byApp[a] ELSE SignIn!NoMisses]
             P == SignIn!Alive(file.pending)
             C == SignIn!Alive(file.codes)
             A == SignIn!Alive(file.access)
             R == SignIn!Alive(file.refresh)
             T == SignIn!RecentIn(file.recent)
  <1>1. /\ oaFile' = [file EXCEPT !.pending = P, !.codes = C, !.access = A, !.refresh = R, !.byApp = byApp, !.recent = T]
        /\ oaLosses' = IF from = oaFile THEN oaLosses ELSE oaLosses + 1
    BY DEF SignIn!Save
  <1>2. byApp \in [OaApps -> [count : Nat, lockedUntil : Nat, until : Nat]]
    BY DEF OaFiles, SignIn!NoMisses
  <1>3. /\ P \in SUBSET OaGrants /\ C \in SUBSET OaGrants /\ A \in SUBSET OaTokens /\ R \in SUBSET OaTokens
        /\ T \in SUBSET [n : Nat, at : Nat] /\ file.lockedUntil \in Nat
    BY DEF OaFiles, SignIn!Alive, SignIn!RecentIn
  <1> DEFINE lock == file.lockedUntil
  <1> HIDE DEF byApp, P, C, A, R, T
  <1>4. oaFile' = [pending |-> P, codes |-> C, access |-> A, refresh |-> R, byApp |-> byApp, recent |-> T, lockedUntil |-> lock]
    BY <1>1 DEF OaFiles
  <1> HIDE DEF lock
  <1>5. /\ oaFile'.pending = P /\ oaFile'.codes = C /\ oaFile'.access = A /\ oaFile'.refresh = R
        /\ oaFile'.recent = T /\ oaFile'.lockedUntil = lock
    BY <1>4, Zenon
  <1>6. oaFile' \in OaFiles
    BY <1>2, <1>3, <1>4 DEF OaFiles, lock
  <1> QED BY <1>1, <1>5, <1>6 DEF P, C, A, R, T, lock

\* A save drops what expired, and leaves a file as sound as it was given it.
LEMMA OaSavedOK ==
  ASSUME OaTypes, NEW from, NEW file, NEW signIns, NEW pairs, SignIn!Save(from, file), OaFileOK(file, signIns, pairs)
  PROVE  OaFileOK(oaFile', signIns, pairs)
  <1>1. file \in OaFiles
    BY DEF OaFileOK
  <1>2. /\ oaFile' \in OaFiles
        /\ oaFile'.pending \subseteq file.pending /\ oaFile'.codes \subseteq file.codes
        /\ oaFile'.access \subseteq file.access /\ oaFile'.refresh \subseteq file.refresh
    BY <1>1, OaSaves DEF SignIn!Alive
  <1> QED BY <1>2 DEF OaFileOK

\* What a request has loaded: the file, or an empty one when it cannot be read.
LEMMA OaLoads ==
  ASSUME OaInv, NEW file \in SignIn!Loaded
  PROVE  /\ OaFileOK(file, oaSignIns, oaPairs) /\ file \in OaFiles
         /\ file # oaFile => oaLosses < OaMaxLosses
  <1>1. file = oaFile \/ (file = SignIn!EmptyFile /\ oaLosses < OaMaxLosses)
    BY DEF SignIn!Loaded
  <1>2. SignIn!EmptyFile \in OaFiles
    BY DEF SignIn!EmptyFile, SignIn!NoMisses, OaFiles
  <1>3. OaFileOK(SignIn!EmptyFile, oaSignIns, oaPairs)
    BY <1>2 DEF OaFileOK, SignIn!EmptyFile
  <1> QED BY <1>1, <1>3 DEF OaInv, OaFileOK

\* While nothing was lost, every request read the file.
LEMMA OaNoLoss ==
  ASSUME OaInv, NEW from \in SignIn!Loaded, NEW file \in OaFiles, SignIn!Save(from, file)
  PROVE  /\ oaLosses' \in 0 .. OaMaxLosses
         /\ oaLosses' = 0 => oaLosses = 0 /\ from = oaFile
  <1>1. oaLosses \in 0 .. OaMaxLosses /\ OaMaxLosses \in Nat
    BY ServicesLocks DEF OaInv, OaTypes
  <1>2. oaLosses' = IF from = oaFile THEN oaLosses ELSE oaLosses + 1
    BY DEF SignIn!Save
  <1>3. from # oaFile => oaLosses < OaMaxLosses
    BY OaLoads
  <1> QED BY <1>1, <1>2, <1>3

\* A request that judges no passphrase leaves the guesses as they were.
LEMMA OaGuessesRest ==
  ASSUME OaInv, NEW from \in SignIn!Loaded, NEW file \in OaFiles, SignIn!Save(from, file),
         oaClock' = oaClock, oaMisses' = oaMisses, file.recent = from.recent, file.lockedUntil = from.lockedUntil
  PROVE  OaGuessesKept' /\ SignIn!GuessesAreLimited'
  <1>1. oaLosses' = 0 => oaLosses = 0 /\ from = oaFile
    BY OaNoLoss
  <1>2. SignIn!GuessesAreLimited'
    BY <1>1 DEF OaInv, SignIn!GuessesAreLimited
  <1>3. SUFFICES ASSUME oaLosses' = 0 PROVE OaGuessesKept'
    BY <1>2 DEF OaGuessesKept
  <1>4. /\ oaFile'.recent = SignIn!RecentIn(oaFile.recent) /\ oaFile'.lockedUntil = oaFile.lockedUntil
        /\ OaGuessesKept /\ oaLosses = 0
    BY <1>1, <1>3, OaSaves DEF OaInv
  <1>5. IsFiniteSet(oaFile'.recent) /\ Cardinality(oaFile'.recent) <= Cardinality(oaFile.recent)
    <2>1. IsFiniteSet(oaFile.recent) /\ oaFile'.recent \subseteq oaFile.recent
      BY <1>4 DEF OaGuessesKept, SignIn!RecentIn
    <2> QED BY <2>1, FS_Subset
  <1>6. Cardinality(oaFile'.recent) < OaLockAllAfter
    <2>1. IsFiniteSet(oaFile.recent) /\ Cardinality(oaFile.recent) < OaLockAllAfter /\ OaLockAllAfter \in Nat
      BY <1>4, ServicesLocks DEF OaGuessesKept
    <2>2. Cardinality(oaFile.recent) \in Nat /\ Cardinality(oaFile'.recent) \in Nat
      BY <1>5, <2>1, FS_CardinalityType
    <2> QED BY <1>5, <2>1, <2>2
  <1>7. ASSUME NEW i \in DOMAIN oaMisses, oaMisses[i] + OaLock > oaClock
        PROVE  [n |-> i, at |-> oaMisses[i]] \in oaFile'.recent \/ oaMisses[i] + OaLock <= oaFile'.lockedUntil
    BY <1>4, <1>7 DEF OaGuessesKept, SignIn!RecentIn
  <1>8. \A i \in DOMAIN oaMisses : oaMisses[i] <= oaClock
    BY <1>4 DEF OaGuessesKept
  <1> QED BY <1>5, <1>6, <1>7, <1>8 DEF OaGuessesKept

\* What every request's step has to show.
LEMMA OaStep ==
  ASSUME OaInv, NEW from \in SignIn!Loaded, NEW file, SignIn!Save(from, file),
         OaFileOK(file, oaSignIns', oaPairs'), OaPairsOK', OaGuessesKept', SignIn!GuessesAreLimited',
         oaClock' = oaClock, oaSignIns' \in Nat, oaPairs' \in Seq([id : Nat, by : {"code", "refresh"}]),
         oaMisses' \in Seq(Nat), oaHeld' \in SUBSET OaTokens,
         oaLosses = 0 /\ from = oaFile =>
           \A h \in oaHeld' : h.until > oaClock => h \in (IF h.is = "access" THEN file.access ELSE file.refresh)
  PROVE  OaInv'
  <1>1. file \in OaFiles /\ OaTypes
    BY DEF OaFileOK, OaInv
  <1>2. oaLosses' \in 0 .. OaMaxLosses /\ (oaLosses' = 0 => oaLosses = 0 /\ from = oaFile)
    BY <1>1, OaNoLoss
  <1>3. OaFileOK(oaFile', oaSignIns', oaPairs')
    BY <1>1, OaSavedOK
  <1>4. OaTypes'
    BY <1>1, <1>2, <1>3 DEF OaTypes, OaFileOK
  <1>5. oaFile'.access = SignIn!Alive(file.access) /\ oaFile'.refresh = SignIn!Alive(file.refresh)
    BY <1>1, OaSaves
  <1>6. SignIn!GivenTokensWork'
    BY <1>2, <1>5 DEF SignIn!GivenTokensWork, SignIn!Accepts, SignIn!Alive
  <1> QED BY <1>3, <1>4, <1>6 DEF OaInv

LEMMA OaAuthorizeInv == ASSUME OaInv, NEW app \in OaApps, SignIn!Authorize(app) PROVE OaInv'
  <1>1. PICK from \in SignIn!Loaded :
          SignIn!Save(from, [from EXCEPT !.pending = @ \cup {[id |-> oaSignIns', app |-> app, until |-> oaClock + OaPendingTtl]}])
    BY DEF SignIn!Authorize
  <1>2. /\ oaSignIns' = oaSignIns + 1 /\ oaClock' = oaClock /\ oaPairs' = oaPairs /\ oaHeld' = oaHeld /\ oaMisses' = oaMisses
        /\ oaSignIns \in Nat /\ oaClock \in Nat /\ OaTypes /\ OaPairsOK
    BY DEF SignIn!Authorize, OaInv, OaTypes
  <1>3. OaFileOK(from, oaSignIns, oaPairs) /\ from \in OaFiles
    BY <1>1, OaLoads
  <1> DEFINE new == [id |-> oaSignIns + 1, app |-> app, until |-> oaClock + OaPendingTtl]
             P == from.pending \cup {new}
             file == [from EXCEPT !.pending = P]
  <1>4. SignIn!Save(from, file)
    BY <1>1, <1>2
  <1>5. new \in OaGrants /\ new.id = oaSignIns + 1
    BY <1>2, ServicesLocks DEF OaGrants
  <1> HIDE DEF new
  <1>6. /\ file \in OaFiles /\ file.pending = P /\ file.codes = from.codes /\ file.access = from.access
        /\ file.refresh = from.refresh /\ file.recent = from.recent /\ file.lockedUntil = from.lockedUntil
    <2>1. P \in SUBSET OaGrants
      BY <1>3, <1>5 DEF OaFiles
    <2> HIDE DEF P
    <2> QED BY <1>3, <2>1 DEF OaFiles
  <1> HIDE DEF file
  <1>7. OaFileOK(file, oaSignIns', oaPairs')
    <2>1. \A j \in DOMAIN oaPairs : oaPairs[j].id \in 1 .. oaSignIns
      BY <1>2 DEF OaPairsOK
    <2>2. \A g \in from.pending \cup from.codes : g.id \in 1 .. oaSignIns
      BY <1>3 DEF OaFileOK
    <2>3. new.id \notin 1 .. oaSignIns /\ new.id \in 1 .. oaSignIns' /\ 1 .. oaSignIns \subseteq 1 .. oaSignIns'
      BY <1>2, <1>5
    <2> QED BY <1>2, <1>3, <1>6, <2>1, <2>2, <2>3 DEF OaFileOK
  <1>8. OaPairsOK'
    <2>1. 1 .. oaSignIns \subseteq 1 .. oaSignIns'
      BY <1>2
    <2> QED BY <1>2, <2>1 DEF OaPairsOK
  <1>9. OaGuessesKept' /\ SignIn!GuessesAreLimited'
    BY <1>1, <1>2, <1>4, <1>6, OaGuessesRest
  <1>10. \A h \in oaHeld' : oaLosses = 0 /\ from = oaFile /\ h.until > oaClock =>
           h \in (IF h.is = "access" THEN file.access ELSE file.refresh)
    BY <1>2, <1>6 DEF OaInv, SignIn!GivenTokensWork, SignIn!Accepts
  <1>11. /\ oaSignIns' \in Nat /\ oaPairs' \in Seq([id : Nat, by : {"code", "refresh"}])
         /\ oaMisses' \in Seq(Nat) /\ oaHeld' \in SUBSET OaTokens
    BY <1>2 DEF OaTypes
  <1> QED BY <1>1, <1>2, <1>4, <1>7, <1>8, <1>9, <1>10, <1>11, OaStep

LEMMA OaRightInv ==
  ASSUME OaInv, NEW p \in oaFile.pending, SignIn!RightPassphrase(p)
  PROVE  OaInv'
  <1> DEFINE from == oaFile
             code == [id |-> p.id, app |-> p.app, until |-> oaClock + OaCodeTtl]
             byApp == [from.byApp EXCEPT ![p.app] = SignIn!NoMisses]
             P == from.pending \ {p}
             C == from.codes \cup {code}
             file == [from EXCEPT !.byApp = byApp, !.pending = P, !.codes = C]
  <1>1. /\ SignIn!Save(from, file) /\ from \in SignIn!Loaded
        /\ oaClock' = oaClock /\ oaSignIns' = oaSignIns /\ oaPairs' = oaPairs /\ oaHeld' = oaHeld /\ oaMisses' = oaMisses
    BY DEF SignIn!RightPassphrase, SignIn!Loaded
  <1>2. OaFileOK(from, oaSignIns, oaPairs) /\ from \in OaFiles /\ OaTypes /\ OaPairsOK /\ oaClock \in Nat /\ oaSignIns \in Nat
    BY DEF OaInv, OaFileOK, OaTypes
  <1>3. p \in OaGrants
    BY <1>2 DEF OaFiles
  <1>4. code \in OaGrants /\ code.id = p.id
    BY <1>2, <1>3, ServicesLocks DEF OaGrants
  <1> HIDE DEF from, code
  <1>5. /\ file \in OaFiles /\ file.pending = P /\ file.codes = C /\ file.access = from.access
        /\ file.refresh = from.refresh /\ file.recent = from.recent /\ file.lockedUntil = from.lockedUntil
    <2>1. P \in SUBSET OaGrants /\ C \in SUBSET OaGrants
      BY <1>2, <1>4 DEF OaFiles
    <2>2. byApp \in [OaApps -> [count : Nat, lockedUntil : Nat, until : Nat]]
      BY <1>2, <1>3 DEF OaFiles, SignIn!NoMisses
    <2> HIDE DEF byApp, P, C
    <2> QED BY <1>2, <2>1, <2>2 DEF OaFiles
  <1> HIDE DEF file
  <1>6. OaFileOK(file, oaSignIns', oaPairs')
    <2>1. p \in from.pending
      BY DEF from
    <2> QED BY <1>1, <1>2, <1>4, <1>5, <2>1 DEF OaFileOK
  <1>7. OaPairsOK'
    BY <1>1, <1>2 DEF OaPairsOK
  <1>8. OaGuessesKept' /\ SignIn!GuessesAreLimited'
    BY <1>1, <1>5, OaGuessesRest
  <1>9. \A h \in oaHeld' : oaLosses = 0 /\ from = oaFile /\ h.until > oaClock =>
          h \in (IF h.is = "access" THEN file.access ELSE file.refresh)
    BY <1>1, <1>5 DEF OaInv, SignIn!GivenTokensWork, SignIn!Accepts
  <1>10. /\ oaSignIns' \in Nat /\ oaPairs' \in Seq([id : Nat, by : {"code", "refresh"}])
         /\ oaMisses' \in Seq(Nat) /\ oaHeld' \in SUBSET OaTokens
    BY <1>1, <1>2 DEF OaTypes
  <1> QED BY <1>1, <1>6, <1>7, <1>8, <1>9, <1>10, OaStep

LEMMA OaRevokeInv == ASSUME OaInv, NEW held \in oaHeld, SignIn!Revoke(held) PROVE OaInv'
  <1>1. PICK from \in SignIn!Loaded : SignIn!Save(from, [from EXCEPT !.access = @ \ {held}, !.refresh = @ \ {held}])
    BY DEF SignIn!Revoke
  <1>2. /\ oaClock' = oaClock /\ oaSignIns' = oaSignIns /\ oaPairs' = oaPairs /\ oaHeld' = oaHeld \ {held} /\ oaMisses' = oaMisses
        /\ OaTypes /\ OaPairsOK
    BY DEF SignIn!Revoke, OaInv
  <1>3. OaFileOK(from, oaSignIns, oaPairs) /\ from \in OaFiles
    BY <1>1, OaLoads
  <1> DEFINE A == from.access \ {held}
             R == from.refresh \ {held}
             file == [from EXCEPT !.access = A, !.refresh = R]
  <1>4. SignIn!Save(from, file)
    BY <1>1
  <1>5. /\ file \in OaFiles /\ file.pending = from.pending /\ file.codes = from.codes /\ file.access = A
        /\ file.refresh = R /\ file.recent = from.recent /\ file.lockedUntil = from.lockedUntil
    <2>1. A \in SUBSET OaTokens /\ R \in SUBSET OaTokens
      BY <1>3 DEF OaFiles
    <2> HIDE DEF A, R
    <2> QED BY <1>3, <2>1 DEF OaFiles
  <1> HIDE DEF file
  <1>6. OaFileOK(file, oaSignIns', oaPairs')
    BY <1>2, <1>3, <1>5 DEF OaFileOK
  <1>7. OaPairsOK'
    BY <1>2 DEF OaPairsOK
  <1>8. OaGuessesKept' /\ SignIn!GuessesAreLimited'
    BY <1>1, <1>2, <1>4, <1>5, OaGuessesRest
  <1>9. \A h \in oaHeld' : oaLosses = 0 /\ from = oaFile /\ h.until > oaClock =>
          h \in (IF h.is = "access" THEN file.access ELSE file.refresh)
    BY <1>2, <1>5 DEF OaInv, SignIn!GivenTokensWork, SignIn!Accepts
  <1>10. /\ oaSignIns' \in Nat /\ oaPairs' \in Seq([id : Nat, by : {"code", "refresh"}])
         /\ oaMisses' \in Seq(Nat) /\ oaHeld' \in SUBSET OaTokens
    BY <1>2 DEF OaTypes
  <1> QED BY <1>1, <1>2, <1>4, <1>6, <1>7, <1>8, <1>9, <1>10, OaStep

\* What a pair changes: the tokens of the file and those given out.
OaIssued(rest, g, by) ==
  /\ OaFileOK(SignIn!Issue(rest, g), oaSignIns, oaPairs')
  /\ SignIn!Issue(rest, g).access = rest.access \cup {SignIn!AccessToken(g)}
  /\ SignIn!Issue(rest, g).refresh = rest.refresh \cup {SignIn!RefreshToken(g)}
  /\ SignIn!Issue(rest, g).recent = rest.recent /\ SignIn!Issue(rest, g).lockedUntil = rest.lockedUntil
  /\ SignIn!AccessToken(g) \in OaTokens /\ SignIn!AccessToken(g).is = "access"
  /\ SignIn!RefreshToken(g) \in OaTokens /\ SignIn!RefreshToken(g).is = "refresh"
  /\ oaPairs' \in Seq([id : Nat, by : {"code", "refresh"}])
  /\ DOMAIN oaPairs' = 1 .. Len(oaPairs) + 1 /\ oaPairs'[Len(oaPairs) + 1] = [id |-> g.id, by |-> by]
  /\ \A j \in 1 .. Len(oaPairs) : oaPairs'[j] = oaPairs[j]

\* A pair that is issued for a sign-in whose code and refresh token are spent.
LEMMA OaIssues ==
  ASSUME OaInv, NEW rest, OaFileOK(rest, oaSignIns, oaPairs),
         NEW g, g.id \in 1 .. oaSignIns, g.app \in OaApps, NEW by \in {"code", "refresh"},
         \A h \in rest.pending \cup rest.codes \cup rest.refresh : h.id # g.id,
         oaPairs' = Append(oaPairs, [id |-> g.id, by |-> by])
  PROVE  OaIssued(rest, g, by)
  <1> DEFINE a == SignIn!AccessToken(g)
             r == SignIn!RefreshToken(g)
             A == rest.access \cup {a}
             R == rest.refresh \cup {r}
             file == SignIn!Issue(rest, g)
             last == Len(oaPairs) + 1
             pair == [id |-> g.id, by |-> by]
  <1>1. /\ oaPairs \in Seq([id : Nat, by : {"code", "refresh"}]) /\ Len(oaPairs) \in Nat /\ last \in Nat
        /\ oaClock \in Nat /\ oaSignIns \in Nat /\ rest \in OaFiles /\ DOMAIN oaPairs = 1 .. Len(oaPairs)
    BY DEF OaInv, OaTypes, OaFileOK
  <1>2. pair \in [id : Nat, by : {"code", "refresh"}]
    BY <1>1
  <1>3. /\ oaPairs' \in Seq([id : Nat, by : {"code", "refresh"}]) /\ DOMAIN oaPairs' = 1 .. last
        /\ oaPairs'[last] = pair /\ \A j \in 1 .. Len(oaPairs) : oaPairs'[j] = oaPairs[j]
    BY <1>1, <1>2
  <1>4. /\ a \in OaTokens /\ a.is = "access" /\ a.id = g.id /\ a.pair = last
        /\ r \in OaTokens /\ r.is = "refresh" /\ r.id = g.id /\ r.pair = last
    <2>1. /\ oaClock + OaAccessTtl \in Nat /\ oaClock + OaRefreshTtl \in Nat /\ g.id \in Nat
      <3>1. OaAccessTtl \in Nat /\ OaRefreshTtl \in Nat /\ oaClock \in Nat /\ oaSignIns \in Nat
        BY <1>1, ServicesLocks
      <3> DEFINE id == g.id
      <3>2. id \in 1 .. oaSignIns
        OBVIOUS
      <3> HIDE DEF id
      <3>3. id \in Nat
        BY <3>1, <3>2
      <3> QED BY <3>1, <3>3 DEF id
    <2> DEFINE soon == oaClock + OaAccessTtl
               late == oaClock + OaRefreshTtl
    <2>2. /\ a = [is |-> "access", id |-> g.id, app |-> g.app, pair |-> last, until |-> soon]
          /\ r = [is |-> "refresh", id |-> g.id, app |-> g.app, pair |-> last, until |-> late]
      BY DEF SignIn!AccessToken, SignIn!RefreshToken, SignIn!Token
    <2>3. soon \in Nat /\ late \in Nat /\ last \in Nat
      BY <1>1, <2>1
    <2> HIDE DEF a, r, soon, late, last
    <2>4. a \in OaTokens /\ a.is = "access" /\ a.id = g.id /\ a.pair = last
      BY <2>1, <2>2, <2>3 DEF OaTokens
    <2>5. r \in OaTokens /\ r.is = "refresh" /\ r.id = g.id /\ r.pair = last
      BY <2>1, <2>2, <2>3 DEF OaTokens
    <2> QED BY <2>4, <2>5
  <1>5. file = [rest EXCEPT !.access = A, !.refresh = R]
    BY DEF SignIn!Issue
  <1> HIDE DEF a, r, file, pair
  <1>6. /\ file \in OaFiles /\ file.pending = rest.pending /\ file.codes = rest.codes /\ file.access = A
        /\ file.refresh = R /\ file.recent = rest.recent /\ file.lockedUntil = rest.lockedUntil
    <2>1. A \in SUBSET OaTokens /\ R \in SUBSET OaTokens
      BY <1>1, <1>4 DEF OaFiles
    <2> HIDE DEF A, R
    <2> QED BY <1>1, <1>5, <2>1 DEF OaFiles
  <1>7. \A j \in DOMAIN oaPairs' : j \in DOMAIN oaPairs \/ j = last
    BY <1>1, <1>3
  <1>8. OaFileOK(file, oaSignIns, oaPairs')
    <2>1. pair.id = g.id
      BY DEF pair
    <2>2. \A h \in file.pending \cup file.codes : h.id \in 1 .. oaSignIns /\ \A j \in DOMAIN oaPairs' : oaPairs'[j].id # h.id
      BY <1>1, <1>3, <1>6, <1>7, <2>1 DEF OaFileOK
    <2>3. \A h \in file.access \cup file.refresh : h.pair \in DOMAIN oaPairs' /\ oaPairs'[h.pair].id = h.id
      <3>1. \A h \in rest.access \cup rest.refresh : h.pair \in DOMAIN oaPairs /\ oaPairs[h.pair].id = h.id
        BY DEF OaFileOK
      <3>2. DOMAIN oaPairs \subseteq DOMAIN oaPairs' /\ last \in DOMAIN oaPairs'
        BY <1>1, <1>3
      <3> QED BY <1>1, <1>3, <1>4, <1>6, <2>1, <3>1, <3>2
    <2>4. \A h, k \in file.refresh : h.id = k.id => h = k
      BY <1>4, <1>6 DEF OaFileOK
    <2> QED BY <1>6, <2>2, <2>3, <2>4 DEF OaFileOK
  <1> QED BY <1>3, <1>4, <1>6, <1>8 DEF OaIssued, file, a, r, pair

\* A code is exchanged, or dropped.
LEMMA OaCodeInv ==
  ASSUME OaInv, NEW app \in OaApps, NEW id \in 1 .. oaSignIns, SignIn!ExchangeCode(app, id)
  PROVE  OaInv'
  <1>1. PICK from \in SignIn!Loaded, fits \in BOOLEAN :
          LET known == {g \in from.codes : g.id = id}
              rest == [from EXCEPT !.codes = @ \ known]
              good == {g \in known : g.app = app /\ g.until > oaClock /\ fits} IN
          IF good = {}
            THEN SignIn!Save(from, rest) /\ UNCHANGED <<oaPairs, oaHeld>>
            ELSE \E g \in good :
                   /\ SignIn!Save(from, SignIn!Issue(rest, g))
                   /\ oaPairs' = Append(oaPairs, [id |-> id, by |-> "code"])
                   /\ oaHeld' = oaHeld \cup {SignIn!AccessToken(g), SignIn!RefreshToken(g)}
    BY DEF SignIn!ExchangeCode
  <1>2. /\ oaClock' = oaClock /\ oaSignIns' = oaSignIns /\ oaMisses' = oaMisses
        /\ OaTypes /\ OaPairsOK /\ oaSignIns \in Nat
    BY DEF SignIn!ExchangeCode, OaInv, OaTypes
  <1>3. OaFileOK(from, oaSignIns, oaPairs) /\ from \in OaFiles
    BY <1>1, OaLoads
  <1> DEFINE C == from.codes \ {g \in from.codes : g.id = id}
             rest == [from EXCEPT !.codes = C]
  <1>4. \/ SignIn!Save(from, rest) /\ oaPairs' = oaPairs /\ oaHeld' = oaHeld
        \/ \E g \in from.codes :
             /\ g.id = id /\ g.app = app
             /\ SignIn!Save(from, SignIn!Issue(rest, g))
             /\ oaPairs' = Append(oaPairs, [id |-> id, by |-> "code"])
             /\ oaHeld' = oaHeld \cup {SignIn!AccessToken(g), SignIn!RefreshToken(g)}
    BY <1>1
  <1>5. /\ rest \in OaFiles /\ rest.pending = from.pending /\ rest.codes = C /\ rest.access = from.access
        /\ rest.refresh = from.refresh /\ rest.recent = from.recent /\ rest.lockedUntil = from.lockedUntil
    <2>1. C \in SUBSET OaGrants
      BY <1>3 DEF OaFiles
    <2> HIDE DEF C
    <2> QED BY <1>3, <2>1 DEF OaFiles
  <1> HIDE DEF rest
  <1>6. OaFileOK(rest, oaSignIns, oaPairs)
    BY <1>3, <1>5 DEF OaFileOK
  <1>7. \A h \in oaHeld : oaLosses = 0 /\ from = oaFile /\ h.until > oaClock =>
          h \in (IF h.is = "access" THEN rest.access ELSE rest.refresh)
    BY <1>5 DEF OaInv, SignIn!GivenTokensWork, SignIn!Accepts
  <1>8. oaMisses' \in Seq(Nat) /\ oaHeld \in SUBSET OaTokens /\ oaSignIns' \in Nat
    BY <1>2 DEF OaTypes
  <1>9. CASE SignIn!Save(from, rest) /\ oaPairs' = oaPairs /\ oaHeld' = oaHeld
    <2>1. OaGuessesKept' /\ SignIn!GuessesAreLimited'
      BY <1>1, <1>2, <1>5, <1>9, OaGuessesRest
    <2>2. OaPairsOK' /\ oaPairs' \in Seq([id : Nat, by : {"code", "refresh"}])
      BY <1>2, <1>9 DEF OaPairsOK, OaTypes
    <2>3. OaFileOK(rest, oaSignIns', oaPairs')
      BY <1>2, <1>6, <1>9
    <2> QED BY <1>1, <1>2, <1>7, <1>8, <1>9, <2>1, <2>2, <2>3, OaStep
  <1>10. ASSUME NEW g \in from.codes, g.id = id, g.app = app, SignIn!Save(from, SignIn!Issue(rest, g)),
                oaPairs' = Append(oaPairs, [id |-> id, by |-> "code"]),
                oaHeld' = oaHeld \cup {SignIn!AccessToken(g), SignIn!RefreshToken(g)}
         PROVE  OaInv'
    <2> DEFINE file == SignIn!Issue(rest, g)
               a == SignIn!AccessToken(g)
               r == SignIn!RefreshToken(g)
    <2>1. \A h \in rest.pending \cup rest.codes \cup rest.refresh : h.id # g.id
      <3>1. \A j \in DOMAIN oaPairs : oaPairs[j].id # g.id
        BY <1>3, <1>10 DEF OaFileOK
      <3> QED BY <1>3, <1>5, <1>10, <3>1 DEF OaFileOK
    <2>2. /\ OaFileOK(file, oaSignIns, oaPairs')
          /\ file.access = rest.access \cup {a} /\ file.refresh = rest.refresh \cup {r}
          /\ file.recent = rest.recent /\ file.lockedUntil = rest.lockedUntil
          /\ a \in OaTokens /\ a.is = "access" /\ r \in OaTokens /\ r.is = "refresh"
          /\ oaPairs' \in Seq([id : Nat, by : {"code", "refresh"}])
          /\ DOMAIN oaPairs' = 1 .. Len(oaPairs) + 1 /\ oaPairs'[Len(oaPairs) + 1] = [id |-> g.id, by |-> "code"]
          /\ \A j \in 1 .. Len(oaPairs) : oaPairs'[j] = oaPairs[j]
      <3>1. /\ g.id \in 1 .. oaSignIns /\ g.app \in OaApps /\ "code" \in {"code", "refresh"}
            /\ oaPairs' = Append(oaPairs, [id |-> g.id, by |-> "code"])
        BY <1>10
      <3>2. OaIssued(rest, g, "code")
        BY <1>6, <2>1, <3>1, OaIssues
      <3> QED BY <3>2 DEF OaIssued
    <2> HIDE DEF file, a, r
    <2>3. SignIn!Save(from, file) /\ oaHeld' = oaHeld \cup {a, r}
      BY <1>10 DEF file, a, r
    <2>4. OaGuessesKept' /\ SignIn!GuessesAreLimited'
      <3>1. file \in OaFiles
        BY <2>2 DEF OaFileOK
      <3> QED BY <1>1, <1>2, <1>5, <2>2, <2>3, <3>1, OaGuessesRest
    <2>5. OaPairsOK'
      <3>1. \A j \in DOMAIN oaPairs : oaPairs[j].id # id
        BY <1>3, <1>10 DEF OaFileOK
      <3>2. \A j \in DOMAIN oaPairs' : (j \in DOMAIN oaPairs /\ oaPairs'[j] = oaPairs[j]) \/ (j = Len(oaPairs) + 1 /\ oaPairs'[j].id = id)
        BY <1>2, <1>10, <2>2 DEF OaTypes
      <3> QED BY <1>2, <3>1, <3>2 DEF OaPairsOK
    <2>6. \A h \in oaHeld' : oaLosses = 0 /\ from = oaFile /\ h.until > oaClock =>
            h \in (IF h.is = "access" THEN file.access ELSE file.refresh)
      BY <1>7, <2>2, <2>3
    <2>7. oaHeld' \in SUBSET OaTokens
      BY <1>8, <2>2, <2>3
    <2>8. OaFileOK(file, oaSignIns', oaPairs')
      BY <1>2, <2>2
    <2> QED BY <1>1, <1>2, <1>8, <2>2, <2>3, <2>4, <2>5, <2>6, <2>7, <2>8, OaStep
  <1> QED BY <1>4, <1>9, <1>10

\* A refresh token is exchanged, or dropped.
LEMMA OaRefreshInv ==
  ASSUME OaInv, NEW app \in OaApps, NEW held \in oaHeld, SignIn!ExchangeRefresh(app, held)
  PROVE  OaInv'
  <1>1. PICK from \in SignIn!Loaded :
          LET rest == [from EXCEPT !.refresh = @ \ {held}] IN
          IF held \in from.refresh /\ held.app = app /\ held.until > oaClock
            THEN /\ SignIn!Save(from, SignIn!Issue(rest, held))
                 /\ oaPairs' = Append(oaPairs, [id |-> held.id, by |-> "refresh"])
                 /\ oaHeld' = (oaHeld \ {held}) \cup {SignIn!AccessToken(held), SignIn!RefreshToken(held)}
            ELSE /\ SignIn!Save(from, rest)
                 /\ oaHeld' = oaHeld \ {held}
                 /\ UNCHANGED oaPairs
    BY DEF SignIn!ExchangeRefresh
  <1>2. /\ oaClock' = oaClock /\ oaSignIns' = oaSignIns /\ oaMisses' = oaMisses
        /\ OaTypes /\ OaPairsOK /\ oaSignIns \in Nat /\ held.is = "refresh" /\ held \in OaTokens
    BY DEF SignIn!ExchangeRefresh, OaInv, OaTypes
  <1>3. OaFileOK(from, oaSignIns, oaPairs) /\ from \in OaFiles
    BY <1>1, OaLoads
  <1> DEFINE R == from.refresh \ {held}
             rest == [from EXCEPT !.refresh = R]
  <1>4. \/ SignIn!Save(from, rest) /\ oaPairs' = oaPairs /\ oaHeld' = oaHeld \ {held}
        \/ /\ held \in from.refresh /\ SignIn!Save(from, SignIn!Issue(rest, held))
           /\ oaPairs' = Append(oaPairs, [id |-> held.id, by |-> "refresh"])
           /\ oaHeld' = (oaHeld \ {held}) \cup {SignIn!AccessToken(held), SignIn!RefreshToken(held)}
    BY <1>1
  <1>5. /\ rest \in OaFiles /\ rest.pending = from.pending /\ rest.codes = from.codes /\ rest.access = from.access
        /\ rest.refresh = R /\ rest.recent = from.recent /\ rest.lockedUntil = from.lockedUntil
    <2>1. R \in SUBSET OaTokens
      BY <1>3 DEF OaFiles
    <2> HIDE DEF R
    <2> QED BY <1>3, <2>1 DEF OaFiles
  <1> HIDE DEF rest
  <1>6. OaFileOK(rest, oaSignIns, oaPairs)
    BY <1>3, <1>5 DEF OaFileOK
  <1>7. \A h \in oaHeld \ {held} : oaLosses = 0 /\ from = oaFile /\ h.until > oaClock =>
          h \in (IF h.is = "access" THEN rest.access ELSE rest.refresh)
    BY <1>5 DEF OaInv, SignIn!GivenTokensWork, SignIn!Accepts
  <1>8. oaMisses' \in Seq(Nat) /\ oaHeld \in SUBSET OaTokens /\ oaSignIns' \in Nat
    BY <1>2 DEF OaTypes
  <1>9. CASE SignIn!Save(from, rest) /\ oaPairs' = oaPairs /\ oaHeld' = oaHeld \ {held}
    <2>1. OaGuessesKept' /\ SignIn!GuessesAreLimited'
      BY <1>1, <1>2, <1>5, <1>9, OaGuessesRest
    <2>2. OaPairsOK' /\ oaPairs' \in Seq([id : Nat, by : {"code", "refresh"}])
      BY <1>2, <1>9 DEF OaPairsOK, OaTypes
    <2>3. OaFileOK(rest, oaSignIns', oaPairs')
      BY <1>2, <1>6, <1>9
    <2> QED BY <1>1, <1>2, <1>7, <1>8, <1>9, <2>1, <2>2, <2>3, OaStep
  <1>10. CASE /\ held \in from.refresh /\ SignIn!Save(from, SignIn!Issue(rest, held))
              /\ oaPairs' = Append(oaPairs, [id |-> held.id, by |-> "refresh"])
              /\ oaHeld' = (oaHeld \ {held}) \cup {SignIn!AccessToken(held), SignIn!RefreshToken(held)}
    <2> DEFINE file == SignIn!Issue(rest, held)
               a == SignIn!AccessToken(held)
               r == SignIn!RefreshToken(held)
    <2>1. /\ \A h \in rest.pending \cup rest.codes \cup rest.refresh : h.id # held.id
          /\ held.id \in 1 .. oaSignIns /\ held.app \in OaApps
      <3>1. held.pair \in DOMAIN oaPairs /\ oaPairs[held.pair].id = held.id
        BY <1>3, <1>10 DEF OaFileOK
      <3>2. held.id \in 1 .. oaSignIns /\ held.app \in OaApps
        BY <1>2, <3>1 DEF OaPairsOK, OaTokens
      <3> QED BY <1>3, <1>5, <1>10, <3>1, <3>2 DEF OaFileOK
    <2>2. /\ OaFileOK(file, oaSignIns, oaPairs')
          /\ file.access = rest.access \cup {a} /\ file.refresh = rest.refresh \cup {r}
          /\ file.recent = rest.recent /\ file.lockedUntil = rest.lockedUntil
          /\ a \in OaTokens /\ a.is = "access" /\ r \in OaTokens /\ r.is = "refresh"
          /\ oaPairs' \in Seq([id : Nat, by : {"code", "refresh"}])
          /\ DOMAIN oaPairs' = 1 .. Len(oaPairs) + 1 /\ oaPairs'[Len(oaPairs) + 1] = [id |-> held.id, by |-> "refresh"]
          /\ \A j \in 1 .. Len(oaPairs) : oaPairs'[j] = oaPairs[j]
      <3>1. /\ "refresh" \in {"code", "refresh"}
            /\ oaPairs' = Append(oaPairs, [id |-> held.id, by |-> "refresh"])
        BY <1>10
      <3>2. OaIssued(rest, held, "refresh")
        BY <1>6, <2>1, <3>1, OaIssues
      <3> QED BY <3>2 DEF OaIssued
    <2> HIDE DEF file, a, r
    <2>3. SignIn!Save(from, file) /\ oaHeld' = (oaHeld \ {held}) \cup {a, r}
      BY <1>10 DEF file, a, r
    <2>4. OaGuessesKept' /\ SignIn!GuessesAreLimited'
      <3>1. file \in OaFiles
        BY <2>2 DEF OaFileOK
      <3> QED BY <1>1, <1>2, <1>5, <2>2, <2>3, <3>1, OaGuessesRest
    <2>5. OaPairsOK'
      <3>1. \A j \in DOMAIN oaPairs' :
              \/ j \in DOMAIN oaPairs /\ oaPairs'[j] = oaPairs[j]
              \/ j = Len(oaPairs) + 1 /\ oaPairs'[j].id = held.id /\ oaPairs'[j].by = "refresh"
        <4>1. oaPairs \in Seq([id : Nat, by : {"code", "refresh"}])
          BY <1>2 DEF OaTypes
        <4>2. DOMAIN oaPairs = 1 .. Len(oaPairs) /\ Len(oaPairs) \in Nat
          BY <4>1
        <4>3. oaPairs'[Len(oaPairs) + 1].id = held.id /\ oaPairs'[Len(oaPairs) + 1].by = "refresh"
          BY <2>2
        <4> QED BY <2>2, <4>2, <4>3
      <3> QED BY <1>2, <2>1, <3>1 DEF OaPairsOK
    <2>6. \A h \in oaHeld' : oaLosses = 0 /\ from = oaFile /\ h.until > oaClock =>
            h \in (IF h.is = "access" THEN file.access ELSE file.refresh)
      BY <1>7, <2>2, <2>3
    <2>7. oaHeld' \in SUBSET OaTokens
      BY <1>8, <2>2, <2>3
    <2>8. OaFileOK(file, oaSignIns', oaPairs')
      BY <1>2, <2>2
    <2> QED BY <1>1, <1>2, <1>8, <2>2, <2>3, <2>4, <2>5, <2>6, <2>7, <2>8, OaStep
  <1> QED BY <1>4, <1>9, <1>10

LEMMA OaWindowFinite ==
  ASSUME NEW misses \in Seq(Nat), NEW now
  PROVE  IsFiniteSet(OaWindow(misses, now))
  <1>1. IsFiniteSet(1 .. Len(misses)) /\ OaWindow(misses, now) \subseteq 1 .. Len(misses)
    BY FS_Interval DEF OaWindow
  <1> QED BY <1>1, FS_Subset

LEMMA OaTickInv == ASSUME OaInv, SignIn!OaTick PROVE OaInv'
  <1>1. /\ oaClock' = oaClock + 1 /\ oaFile' = oaFile /\ oaSignIns' = oaSignIns /\ oaPairs' = oaPairs
        /\ oaHeld' = oaHeld /\ oaMisses' = oaMisses /\ oaLosses' = oaLosses
    BY DEF SignIn!OaTick
  <1>2. OaTypes /\ oaClock \in Nat \ {0} /\ oaMisses \in Seq(Nat) /\ OaLock \in Nat /\ OaLockAllAfter \in Nat
    BY ServicesLocks DEF OaInv, OaTypes
  <1>3. OaTypes' /\ OaFileOK(oaFile', oaSignIns', oaPairs') /\ OaPairsOK'
    BY <1>1, <1>2 DEF OaInv, OaTypes, OaPairsOK
  <1>4. SignIn!GivenTokensWork'
    <2>1. \A h \in oaHeld : h.until \in Nat
      BY <1>2 DEF OaTypes, OaTokens
    <2> QED BY <1>1, <1>2, <2>1 DEF OaInv, SignIn!GivenTokensWork, SignIn!Accepts
  <1>5. \A i \in DOMAIN oaMisses : oaMisses[i] \in Nat
    BY <1>2
  <1>6. OaGuessesKept'
    <2>1. OaGuessesKept
      BY DEF OaInv
    <2> QED BY <1>1, <1>2, <1>5, <2>1 DEF OaGuessesKept
  <1>7. SignIn!GuessesAreLimited'
    <2>1. SUFFICES ASSUME oaLosses = 0, NEW now \in 1 .. oaClock' PROVE Cardinality(OaWindow(oaMisses, now)) <= OaLockAllAfter
      BY <1>1, OaLimited
    <2>2. \A t \in 1 .. oaClock : Cardinality(OaWindow(oaMisses, t)) <= OaLockAllAfter
      BY <2>1, OaLimited DEF OaInv
    <2>3. CASE now \in 1 .. oaClock
      BY <2>2, <2>3
    <2>4. CASE now = oaClock + 1
      <3> DEFINE S == OaWindow(oaMisses, now)
                 T == OaWindow(oaMisses, oaClock)
      <3>1. \A i \in DOMAIN oaMisses : oaMisses[i] <= oaClock
        BY <2>1 DEF OaInv, OaGuessesKept
      <3>2. S \subseteq T
        BY <1>2, <1>5, <2>4, <3>1 DEF OaWindow
      <3>3. Cardinality(T) <= OaLockAllAfter
        BY <1>2, <2>2
      <3>4. IsFiniteSet(T)
        BY <1>2, OaWindowFinite
      <3>5. Cardinality(S) \in Nat /\ Cardinality(T) \in Nat /\ Cardinality(S) <= Cardinality(T)
        BY <3>2, <3>4, FS_Subset, FS_CardinalityType
      <3> HIDE DEF S, T
      <3>6. Cardinality(S) <= OaLockAllAfter
        BY <1>2, <3>3, <3>5
      <3> QED BY <3>6 DEF S
    <2> QED BY <1>1, <1>2, <2>3, <2>4
  <1> QED BY <1>3, <1>4, <1>6, <1>7 DEF OaInv

LEMMA OaWrongInv ==
  ASSUME OaInv, NEW p \in oaFile.pending, SignIn!WrongPassphrase(p)
  PROVE  OaInv'
  <1> DEFINE from == oaFile
             miss == [n |-> Len(oaMisses) + 1, at |-> oaClock]
             before == SignIn!RecentIn(oaFile.recent)
             recent == before \cup {miss}
             all == Cardinality(recent) >= OaLockAllAfter
             kept == IF all THEN {} ELSE recent
             lock == IF all THEN oaClock + OaLock ELSE oaFile.lockedUntil
             byApp == [oaFile.byApp EXCEPT ![p.app] = SignIn!Counted(oaFile.byApp[p.app])]
             file == [oaFile EXCEPT !.byApp = byApp, !.recent = kept, !.lockedUntil = lock]
  <1>1. /\ SignIn!Save(oaFile, file) /\ oaFile \in SignIn!Loaded /\ oaFile.lockedUntil <= oaClock
        /\ oaClock' = oaClock /\ oaSignIns' = oaSignIns /\ oaPairs' = oaPairs /\ oaHeld' = oaHeld
        /\ oaMisses' = Append(oaMisses, oaClock)
    <2>1. SignIn!Cardinality(recent) = Cardinality(recent)
      BY DEF SignIn!Cardinality, Cardinality, SignIn!IsFiniteSet, IsFiniteSet
    <2>2. oaFile.lockedUntil \in Nat /\ oaClock \in Nat /\ ~(oaFile.lockedUntil > oaClock)
      BY DEF OaInv, OaTypes, OaFiles, SignIn!WrongPassphrase, SignIn!Judged, SignIn!LockedOut
    <2>3. oaFile.lockedUntil <= oaClock /\ oaFile \in SignIn!Loaded
      BY <2>2 DEF SignIn!Loaded
    <2> QED BY <2>1, <2>3 DEF SignIn!WrongPassphrase
  <1>2. /\ OaTypes /\ OaPairsOK /\ OaFileOK(oaFile, oaSignIns, oaPairs) /\ oaFile \in OaFiles /\ oaSignIns \in Nat
        /\ oaClock \in Nat /\ oaMisses \in Seq(Nat) /\ Len(oaMisses) \in Nat /\ OaLock \in Nat /\ OaLockAllAfter \in Nat \ {0}
    BY ServicesLocks DEF OaInv, OaTypes
  <1>3. p \in OaGrants
    BY <1>2 DEF OaFiles
  <1>4. miss \in [n : Nat, at : Nat] /\ before \subseteq oaFile.recent /\ recent \in SUBSET [n : Nat, at : Nat]
    BY <1>2 DEF OaFiles, SignIn!RecentIn
  <1>5. /\ file \in OaFiles /\ file.pending = from.pending /\ file.codes = from.codes /\ file.access = from.access
        /\ file.refresh = from.refresh /\ file.recent = kept /\ file.lockedUntil = lock
    <2>1. kept \in SUBSET [n : Nat, at : Nat] /\ lock \in Nat
      BY <1>2, <1>4 DEF OaFiles
    <2>2. byApp \in [OaApps -> [count : Nat, lockedUntil : Nat, until : Nat]]
      <3>1. oaFile.byApp \in [OaApps -> [count : Nat, lockedUntil : Nat, until : Nat]]
        BY <1>2 DEF OaFiles
      <3>2. \A mine \in [count : Nat, lockedUntil : Nat, until : Nat] :
              SignIn!Counted(mine) \in [count : Nat, lockedUntil : Nat, until : Nat]
        BY <1>2 DEF SignIn!Counted
      <3>3. p.app \in OaApps
        BY <1>3 DEF OaGrants
      <3> QED BY <3>1, <3>2, <3>3
    <2> HIDE DEF byApp, kept, lock
    <2> QED BY <1>2, <2>1, <2>2 DEF OaFiles
  <1> HIDE DEF file
  <1>6. OaFileOK(file, oaSignIns', oaPairs')
    BY <1>1, <1>2, <1>5 DEF OaFileOK
  <1>7. OaPairsOK'
    BY <1>1, <1>2 DEF OaPairsOK
  <1>8. oaLosses' = 0 => oaLosses = 0
    BY <1>1, <1>5, OaNoLoss
  <1> DEFINE last == Len(oaMisses) + 1
  <1>9. /\ oaMisses' \in Seq(Nat) /\ DOMAIN oaMisses' = DOMAIN oaMisses \cup {last} /\ oaMisses'[last] = oaClock
        /\ \A i \in DOMAIN oaMisses : oaMisses'[i] = oaMisses[i] /\ oaMisses[i] \in Nat
    BY <1>1, <1>2
  <1>10. /\ oaFile'.recent = SignIn!RecentIn(kept) /\ oaFile'.lockedUntil = lock
    BY <1>1, <1>2, <1>5, OaSaves
  <1>11. ASSUME oaLosses = 0
         PROVE  /\ IsFiniteSet(before) /\ IsFiniteSet(recent)
                /\ Cardinality(before) \in Nat /\ Cardinality(before) < OaLockAllAfter /\ Cardinality(recent) \in Nat
                /\ \A i \in DOMAIN oaMisses : oaMisses[i] + OaLock > oaClock => [n |-> i, at |-> oaMisses[i]] \in before
                /\ \A i \in DOMAIN oaMisses : oaMisses[i] <= oaClock
    <2>1. OaGuessesKept
      BY DEF OaInv
    <2>2. /\ IsFiniteSet(oaFile.recent) /\ Cardinality(oaFile.recent) < OaLockAllAfter
          /\ \A i \in DOMAIN oaMisses : oaMisses[i] <= oaClock
          /\ \A i \in DOMAIN oaMisses : oaMisses[i] + OaLock > oaClock =>
               [n |-> i, at |-> oaMisses[i]] \in oaFile.recent \/ oaMisses[i] + OaLock <= oaFile.lockedUntil
      BY <1>11, <2>1 DEF OaGuessesKept
    <2>3. oaFile.lockedUntil \in Nat
      BY <1>2 DEF OaFiles
    <2>4. ASSUME NEW i \in DOMAIN oaMisses, oaMisses[i] + OaLock > oaClock PROVE [n |-> i, at |-> oaMisses[i]] \in before
      <3>1. oaMisses[i] \in Nat /\ ~(oaMisses[i] + OaLock <= oaFile.lockedUntil)
        BY <1>1, <1>2, <1>9, <2>3, <2>4
      <3>2. [n |-> i, at |-> oaMisses[i]] \in oaFile.recent
        BY <2>2, <2>4, <3>1
      <3> QED BY <2>4, <3>2 DEF SignIn!RecentIn
    <2>5. IsFiniteSet(before) /\ Cardinality(before) <= Cardinality(oaFile.recent)
      BY <1>4, <2>2, FS_Subset
    <2>6. IsFiniteSet(recent)
      BY <2>5, FS_AddElement
    <2>7. Cardinality(before) \in Nat /\ Cardinality(oaFile.recent) \in Nat /\ Cardinality(recent) \in Nat
      BY <2>2, <2>5, <2>6, FS_CardinalityType
    <2>8. Cardinality(before) < OaLockAllAfter
      <3> HIDE DEF before
      <3> QED BY <1>2, <2>2, <2>5, <2>7
    <2> HIDE DEF before, recent
    <2> QED BY <2>2, <2>4, <2>5, <2>6, <2>7, <2>8
  <1>12. OaGuessesKept'
    <2>1. SUFFICES ASSUME oaLosses = 0
                   PROVE  /\ \A i \in DOMAIN oaMisses' : oaMisses'[i] <= oaClock
                          /\ IsFiniteSet(oaFile'.recent) /\ Cardinality(oaFile'.recent) < OaLockAllAfter
                          /\ \A i \in DOMAIN oaMisses' : oaMisses'[i] + OaLock > oaClock =>
                               [n |-> i, at |-> oaMisses'[i]] \in oaFile'.recent \/ oaMisses'[i] + OaLock <= oaFile'.lockedUntil
      BY <1>1, <1>8 DEF OaGuessesKept
    <2>2. \A i \in DOMAIN oaMisses' : oaMisses'[i] <= oaClock
      BY <1>2, <1>9, <1>11, <2>1
    <2>3. IsFiniteSet(kept) /\ Cardinality(kept) \in Nat /\ Cardinality(kept) < OaLockAllAfter
      <3>1. CASE all
        BY <1>2, <3>1, FS_EmptySet
      <3>2. CASE ~all
        <4>1. IsFiniteSet(recent) /\ Cardinality(recent) \in Nat
          BY <1>11, <2>1
        <4> HIDE DEF recent
        <4> QED BY <1>2, <3>2, <4>1
      <3> QED BY <3>1, <3>2
    <2>4. IsFiniteSet(oaFile'.recent) /\ Cardinality(oaFile'.recent) < OaLockAllAfter
      <3>1. oaFile'.recent \subseteq kept
        BY <1>10 DEF SignIn!RecentIn
      <3> HIDE DEF kept
      <3>2. IsFiniteSet(oaFile'.recent) /\ Cardinality(oaFile'.recent) <= Cardinality(kept)
        BY <2>3, <3>1, FS_Subset
      <3>3. Cardinality(oaFile'.recent) \in Nat
        BY <3>2, FS_CardinalityType
      <3> QED BY <1>2, <2>3, <3>2, <3>3
    <2>5. ASSUME NEW i \in DOMAIN oaMisses', oaMisses'[i] + OaLock > oaClock
          PROVE  [n |-> i, at |-> oaMisses'[i]] \in oaFile'.recent \/ oaMisses'[i] + OaLock <= oaFile'.lockedUntil
      <3>1. oaMisses'[i] \in Nat
        BY <1>9
      <3>2. CASE all
        BY <1>2, <1>10, <2>2, <3>1, <3>2
      <3>3. CASE ~all
        <4>1. [n |-> i, at |-> oaMisses'[i]] \in recent
          BY <1>9, <1>11, <2>1, <2>5
        <4>2. kept = recent
          BY <3>3
        <4> HIDE DEF recent, kept
        <4> QED BY <1>10, <2>5, <4>1, <4>2 DEF SignIn!RecentIn
      <3> QED BY <3>2, <3>3
    <2> HIDE DEF kept, lock
    <2> QED BY <2>2, <2>4, <2>5
  <1>13. SignIn!GuessesAreLimited'
    <2>1. SUFFICES ASSUME oaLosses = 0, NEW now \in 1 .. oaClock
                   PROVE  Cardinality(OaWindow(oaMisses', now)) <= OaLockAllAfter
      BY <1>1, <1>8, OaLimited
    <2>2. CASE now # oaClock
      <3>1. OaWindow(oaMisses', now) = OaWindow(oaMisses, now)
        BY <1>2, <1>9, <2>2 DEF OaWindow
      <3>2. Cardinality(OaWindow(oaMisses, now)) <= OaLockAllAfter
        BY <2>1, OaLimited DEF OaInv
      <3> QED BY <3>1, <3>2
    <2>3. CASE now = oaClock
      <3> DEFINE W == OaWindow(oaMisses, oaClock)
                 V == OaWindow(oaMisses', oaClock)
                 f == [i \in W |-> [n |-> i, at |-> oaMisses[i]]]
      <3>1. f \in Injection(W, before)
        <4>1. \A i \in W : f[i] \in before
          BY <1>9, <1>11, <2>1, <1>2 DEF OaWindow
        <4>2. \A i, j \in W : f[i] = f[j] => i = j
          OBVIOUS
        <4>3. f \in [W -> before]
          BY <4>1
        <4> HIDE DEF f, W, before
        <4> QED BY <4>2, <4>3, Fun_IsInj
      <3>2. IsFiniteSet(W) /\ Cardinality(W) <= Cardinality(before)
        <4>1. IsFiniteSet(before)
          BY <1>11, <2>1
        <4> HIDE DEF f, W, before
        <4> QED BY <3>1, <4>1, FS_Injection
      <3>3. V \subseteq W \cup {last}
        BY <1>9 DEF OaWindow
      <3>4. IsFiniteSet(W \cup {last}) /\ Cardinality(W \cup {last}) <= Cardinality(W) + 1
        <4>1. Cardinality(W) \in Nat
          BY <3>2, FS_CardinalityType
        <4> HIDE DEF W, last
        <4>2. /\ IsFiniteSet(W \cup {last})
              /\ Cardinality(W \cup {last}) = IF last \in W THEN Cardinality(W) ELSE Cardinality(W) + 1
          BY <3>2, FS_AddElement, Zenon
        <4> QED BY <4>1, <4>2
      <3>5. IsFiniteSet(V) /\ Cardinality(V) <= Cardinality(W \cup {last})
        BY <3>3, <3>4, FS_Subset
      <3>6. Cardinality(V) \in Nat /\ Cardinality(W) \in Nat /\ Cardinality(W \cup {last}) \in Nat
        BY <3>2, <3>4, <3>5, FS_CardinalityType
      <3>7. Cardinality(before) \in Nat /\ Cardinality(before) < OaLockAllAfter
        BY <1>11, <2>1
      <3> DEFINE X == W \cup {last}
      <3> HIDE DEF V, W, X, before
      <3>8. Cardinality(V) <= OaLockAllAfter
        BY <1>2, <3>2, <3>4, <3>5, <3>6, <3>7 DEF X
      <3> QED BY <2>3, <3>8 DEF V
    <2> QED BY <2>2, <2>3
  <1>14. \A h \in oaHeld' : oaLosses = 0 /\ oaFile = oaFile /\ h.until > oaClock =>
           h \in (IF h.is = "access" THEN file.access ELSE file.refresh)
    BY <1>1, <1>5 DEF OaInv, SignIn!GivenTokensWork, SignIn!Accepts
  <1>15. /\ oaSignIns' \in Nat /\ oaPairs' \in Seq([id : Nat, by : {"code", "refresh"}])
         /\ oaMisses' \in Seq(Nat) /\ oaHeld' \in SUBSET OaTokens
    BY <1>1, <1>2, <1>9 DEF OaTypes
  <1> QED BY <1>1, <1>6, <1>7, <1>12, <1>13, <1>14, <1>15, OaStep

LEMMA OaInitInv == SignIn!OaInit => OaInv
  <1> SUFFICES ASSUME SignIn!OaInit PROVE OaInv
    OBVIOUS
  <1>1. /\ oaFile = SignIn!EmptyFile /\ oaClock = 1 /\ oaSignIns = 0 /\ oaPairs = <<>>
        /\ oaHeld = {} /\ oaMisses = <<>> /\ oaLosses = 0
    BY DEF SignIn!OaInit
  <1>2. /\ oaFile \in OaFiles /\ oaFile.pending = {} /\ oaFile.codes = {} /\ oaFile.access = {} /\ oaFile.refresh = {}
        /\ oaFile.recent = {}
    BY <1>1 DEF SignIn!EmptyFile, SignIn!NoMisses, OaFiles
  <1>3. DOMAIN oaPairs = {} /\ DOMAIN oaMisses = {}
    BY <1>1
  <1>4. OaTypes
    BY <1>1, <1>2, ServicesLocks DEF OaTypes
  <1>5. OaFileOK(oaFile, oaSignIns, oaPairs) /\ OaPairsOK
    BY <1>2, <1>3 DEF OaFileOK, OaPairsOK
  <1>6. IsFiniteSet({}) /\ Cardinality({}) = 0
    BY FS_EmptySet
  <1>7. OaGuessesKept
    BY <1>2, <1>3, <1>6, ServicesLocks DEF OaGuessesKept
  <1>8. SignIn!GuessesAreLimited
    <2>1. \A now \in 1 .. oaClock : OaWindow(oaMisses, now) = {}
      BY <1>3 DEF OaWindow
    <2> QED BY <1>6, <2>1, OaLimited, ServicesLocks
  <1>9. SignIn!GivenTokensWork
    BY <1>1 DEF SignIn!GivenTokensWork
  <1> QED BY <1>4, <1>5, <1>7, <1>8, <1>9 DEF OaInv

LEMMA OaNextInv == OaInv /\ [SignIn!OaNext]_SignInVars => OaInv'
  <1> SUFFICES ASSUME OaInv, [SignIn!OaNext]_SignInVars PROVE OaInv'
    OBVIOUS
  <1>1. CASE UNCHANGED SignInVars
    BY <1>1 DEF SignInVars, OaInv, OaTypes, OaPairsOK, OaGuessesKept, SignIn!GuessesAreLimited, SignIn!GivenTokensWork,
                SignIn!Accepts
  <1>2. CASE \E app \in OaApps : SignIn!Authorize(app)
    BY <1>2, OaAuthorizeInv
  <1>3. CASE \E p \in oaFile.pending : SignIn!WrongPassphrase(p) \/ SignIn!RightPassphrase(p)
    BY <1>3, OaWrongInv, OaRightInv
  <1>4. CASE \E app \in OaApps, id \in 1 .. oaSignIns : SignIn!ExchangeCode(app, id)
    BY <1>4, OaCodeInv
  <1>5. CASE \E app \in OaApps, held \in oaHeld : SignIn!ExchangeRefresh(app, held)
    BY <1>5, OaRefreshInv
  <1>6. CASE \E held \in oaHeld : SignIn!Revoke(held)
    BY <1>6, OaRevokeInv
  <1>7. CASE SignIn!OaTick
    BY <1>7, OaTickInv
  <1> QED BY <1>1, <1>2, <1>3, <1>4, <1>5, <1>6, <1>7 DEF SignIn!OaNext

\* Whoever asks, the passphrase is judged no more often in a lock's length than
\* locks every app out, a sign-in is one line of tokens, and a token that was
\* given works until it is spent, revoked or expires (owner-oauth.ts:231-342).
THEOREM ServicesSignInHolds == Spec => []SignInHolds
  <1>1. Init => OaInv
    BY OaInitInv DEF Init
  <1>2. OaInv /\ [Next]_vars => OaInv'
    <2> SUFFICES ASSUME OaInv, [Next]_vars PROVE OaInv'
      OBVIOUS
    <2>1. CASE part = "sign-in"
      BY <2>1, OnePartMoves, OaNextInv
    <2>2. CASE part # "sign-in"
      BY <2>2, OaNextInv DEF Next, vars, Alone, TableMoves, OpeningMoves, PostgresMoves, SearchMoves, SignInMoves, TeamMoves,
         LangMoves, ReleaseMoves, ImportMoves
    <2> QED BY <2>1, <2>2
  <1>3. OaInv => SignInHolds
    BY DEF OaInv, OaPairsOK, OaFileOK, SignInHolds, SignIn!OneLineOfTokens
  <1> QED BY <1>1, <1>2, <1>3, PTL DEF Spec

=============================================================================
