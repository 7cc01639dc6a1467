------------------------------ MODULE Release -------------------------------
(* How a version goes out: scripts/release.mjs and release-lib.mjs.  One     *)
(* command dates the notes, moves the versions, runs the gates, commits,    *)
(* tags and pushes; another, after npm serves the version, moves the pins   *)
(* and restarts the maintainer's connector.  Each is a script that may fail *)
(* or be stopped after any of its steps and be run again.                   *)
EXTENDS Naturals, Sequences, FiniteSets

CONSTANTS RlLast,        \* bound: the last version; the first is 1
          RlMaxCommits,  \* bound: commits of main
          RlTries,       \* refreshConnector()'s attempts
          RlMaxPids      \* bound: processes of the connector's job

VARIABLES rlTree,    \* the working tree: the version it names, the pin, the notes
          rlMain,    \* the commits of main in this clone
          rlOrigin,  \* how many of them origin has, and whether it has others
          rlTags,    \* the commit each tag names here, and the tags origin has
          rlNpm,     \* the versions staged and served, and the newest served
          rlRun,     \* the script that is running
          cnJob,     \* the connector's job: its process, and what it loaded
          cnDist,    \* the version dist/ was built from
          cnLed      \* how the refreshing ended, and what had happened by then

rlVars == <<rlTree, rlMain, rlOrigin, rlTags, rlNpm, rlRun>>
cnVars == <<cnJob, cnDist, cnLed>>
releaseVars == <<rlTree, rlMain, rlOrigin, rlTags, rlNpm, rlRun, cnJob, cnDist, cnLed>>

RlVersions == 1 .. RlLast
NoVersion == 0
RlIdle == [at |-> "idle"]
NoProcess == [pid |-> 0, code |-> NoVersion]

Tip == rlMain[Len(rlMain)]
Clean == rlTree = Tip.tree
NotRun == [at |-> "not run", version |-> 1, answered |-> NoProcess, restarted |-> FALSE]

ReleaseInit ==
  /\ rlTree = [version |-> 1, pin |-> 1, notes |-> NoVersion]
  /\ rlMain = <<[tree |-> rlTree, gated |-> TRUE]>>
  /\ rlOrigin = [has |-> 1, others |-> FALSE]
  /\ rlTags = [names |-> [v \in RlVersions |-> IF v = 1 THEN 1 ELSE 0], pushed |-> {1}]
  /\ rlNpm = [staged |-> {1}, served |-> {1}, latest |-> 1]
  /\ rlRun = RlIdle
  /\ cnJob = [pid |-> 1, code |-> 1]
  /\ cnDist = 1
  /\ cnLed = NotRun

----------------------------------------------------------------------------
(* What the maintainer and the world do between the steps *)

\* The changes are written up under "## X.Y.Z - unreleased", and committed.
WriteNotes(v) ==
  /\ rlRun = RlIdle /\ Clean /\ v > rlTree.version /\ Len(rlMain) < RlMaxCommits
  /\ rlTree' = [rlTree EXCEPT !.notes = v]
  /\ rlMain' = Append(rlMain, [tree |-> rlTree', gated |-> FALSE])
  /\ UNCHANGED <<rlOrigin, rlTags, rlNpm, rlRun, cnVars>>

\* What a failed gate left in the tree is thrown away, ...
Discard ==
  /\ rlRun = RlIdle /\ ~Clean
  /\ rlTree' = Tip.tree
  /\ UNCHANGED <<rlMain, rlOrigin, rlTags, rlNpm, rlRun, cnVars>>

\* ... main is pushed by hand, someone else pushes, what they pushed is pulled.
PushByHand ==
  /\ rlRun = RlIdle /\ ~rlOrigin.others
  /\ rlOrigin' = [rlOrigin EXCEPT !.has = Len(rlMain)]
  /\ UNCHANGED <<rlTree, rlMain, rlTags, rlNpm, rlRun, cnVars>>

OthersPush ==
  /\ ~rlOrigin.others
  /\ rlOrigin' = [rlOrigin EXCEPT !.others = TRUE]
  /\ UNCHANGED <<rlTree, rlMain, rlTags, rlNpm, rlRun, cnVars>>

Pull ==
  /\ rlRun = RlIdle /\ rlOrigin = [has |-> Len(rlMain), others |-> TRUE]
  /\ rlOrigin' = [rlOrigin EXCEPT !.others = FALSE]
  /\ UNCHANGED <<rlTree, rlMain, rlTags, rlNpm, rlRun, cnVars>>

\* The tag's workflow stages the version; a maintainer's approval serves it.
StageVersion(v) ==
  /\ v \in rlTags.pushed \ rlNpm.staged
  /\ rlNpm' = [rlNpm EXCEPT !.staged = @ \cup {v}]
  /\ UNCHANGED <<rlTree, rlMain, rlOrigin, rlTags, rlRun, cnVars>>

ApproveVersion(v) ==
  /\ v \in rlNpm.staged \ rlNpm.served
  /\ rlNpm' = [rlNpm EXCEPT !.served = @ \cup {v}, !.latest = v]
  /\ UNCHANGED <<rlTree, rlMain, rlOrigin, rlTags, rlRun, cnVars>>

----------------------------------------------------------------------------
(* npm run release *)

\* nextVersion(): forward only.  preflight(): clean, not behind what origin
\* answered, the tag free here.
MayRelease(v) == v > rlTree.version /\ Clean /\ ~rlOrigin.others /\ rlTags.names[v] = 0

\* unreleasedVersion() and dateChangelog(): the notes are of this version.
StartRelease(v) ==
  /\ rlRun = RlIdle
  /\ MayRelease(v) /\ rlTree.notes = v
  /\ rlTree' = [rlTree EXCEPT !.version = v, !.notes = NoVersion]
  /\ rlRun' = [at |-> "gates", does |-> "release", version |-> v]
  /\ UNCHANGED <<rlMain, rlOrigin, rlTags, rlNpm, cnVars>>

RlGoes(at) == rlRun' = IF at = "idle" THEN RlIdle ELSE [rlRun EXCEPT !.at = at]

\* Typecheck, tests and build (tests alone for the pins).  A failure leaves
\* the edited files and stops.
GatesPass == rlRun.at = "gates" /\ RlGoes("commit") /\ UNCHANGED <<rlTree, rlMain, rlOrigin, rlTags, rlNpm, cnVars>>

\* A failed gate, a command that fails, the script stopped: wherever it is.
StopScript ==
  /\ rlRun.at \in {"gates", "commit", "tag", "push main", "push tag", "connector"}
  /\ RlGoes("idle")
  /\ UNCHANGED <<rlTree, rlMain, rlOrigin, rlTags, rlNpm, cnVars>>

CommitTree ==
  /\ rlRun.at = "commit"
  /\ Len(rlMain) < RlMaxCommits
  /\ rlMain' = Append(rlMain, [tree |-> rlTree, gated |-> TRUE])
  /\ RlGoes(IF rlRun.does = "release" THEN "tag" ELSE "push main")
  /\ UNCHANGED <<rlTree, rlOrigin, rlTags, rlNpm, cnVars>>

TagCommit ==
  /\ rlRun.at = "tag"
  /\ rlTags' = [rlTags EXCEPT !.names[rlRun.version] = Len(rlMain)]
  /\ RlGoes("push main")
  /\ UNCHANGED <<rlTree, rlMain, rlOrigin, rlNpm, cnVars>>

\* main first: origin refuses it when it has commits this clone has not.
PushMain ==
  /\ rlRun.at = "push main"
  /\ ~rlOrigin.others
  /\ rlOrigin' = [rlOrigin EXCEPT !.has = Len(rlMain)]
  /\ RlGoes(IF rlRun.does = "release" THEN "push tag" ELSE "connector")
  /\ UNCHANGED <<rlTree, rlMain, rlTags, rlNpm, cnVars>>

PushTag ==
  /\ rlRun.at = "push tag"
  /\ rlTags' = [rlTags EXCEPT !.pushed = @ \cup {rlRun.version}]
  /\ RlGoes("idle")
  /\ UNCHANGED <<rlTree, rlMain, rlOrigin, rlNpm, cnVars>>

----------------------------------------------------------------------------
(* npm run release:pin *)

\* A variant that pins what the tree names, served or not.
MayPinClean == Clean

\* The newest version npm serves is the one the tree names.
MayPin == rlNpm.latest = rlTree.version /\ Clean

\* movePin() and movePluginPin(): the README's pin and the plugin's, together.
StartPin ==
  /\ rlRun = RlIdle
  /\ rlTree.pin # rlTree.version /\ MayPin
  /\ rlTree' = [rlTree EXCEPT !.pin = rlTree.version]
  /\ rlRun' = [at |-> "gates", does |-> "pin", version |-> rlTree.version]
  /\ UNCHANGED <<rlMain, rlOrigin, rlTags, rlNpm, cnVars>>

----------------------------------------------------------------------------
(* refreshConnector() *)

\* The job's process goes and launchd starts another, at any time: a crash, or
\* the signal that kickstart sent.  It loads what dist/ holds then.
JobGoes ==
  /\ cnJob.pid # 0
  /\ cnJob' = [cnJob EXCEPT !.pid = 0]
  /\ UNCHANGED <<rlVars, cnDist, cnLed>>

JobComesUp(pid) ==
  /\ cnJob.pid = 0
  /\ cnJob' = [pid |-> pid, code |-> cnDist]
  /\ cnLed' = [cnLed EXCEPT !.restarted = @ \/ rlRun.at = "build"]
  /\ UNCHANGED <<rlVars, cnDist>>

\* The job is printed first; no such job, and there is nothing to do.
PrintJob ==
  /\ rlRun.at = "connector"
  /\ rlRun' = [at |-> "build", before |-> cnJob.pid]
  /\ cnLed' = [NotRun EXCEPT !.version = rlTree.version]
  /\ UNCHANGED <<rlTree, rlMain, rlOrigin, rlTags, rlNpm, cnJob, cnDist>>

\* A failed build leaves the job with the code it loaded.
RebuildDist(passes) ==
  /\ rlRun.at = "build"
  /\ cnDist' = IF passes THEN rlTree.version ELSE cnDist
  /\ IF passes THEN RlGoes("kickstart") ELSE RlGoes("idle")
  /\ cnLed' = [cnLed EXCEPT !.at = IF passes THEN @ ELSE "failed"]
  /\ UNCHANGED <<rlTree, rlMain, rlOrigin, rlTags, rlNpm, cnJob>>

Kickstart(passes) ==
  /\ rlRun.at = "kickstart"
  /\ rlRun' = IF passes THEN [at |-> "wait", before |-> rlRun.before, pid |-> 0, tries |-> 0] ELSE RlIdle
  /\ cnLed' = [cnLed EXCEPT !.at = IF passes THEN @ ELSE "failed"]
  /\ UNCHANGED <<rlTree, rlMain, rlOrigin, rlTags, rlNpm, cnJob, cnDist>>

\* A pid counts once it is not the one from before.
NewPid == cnJob.pid # 0 /\ cnJob.pid # rlRun.before

\* One round of the loop: the pid is asked for until a new one is seen, and
\* /health from then on.
AskAgain ==
  /\ rlRun.at = "wait" /\ rlRun.tries < RlTries
  /\ \/ rlRun.pid = 0 /\ ~NewPid /\ rlRun' = [rlRun EXCEPT !.tries = @ + 1]
     \/ rlRun.pid = 0 /\ NewPid /\ rlRun' = [rlRun EXCEPT !.at = "health", !.pid = cnJob.pid]
     \/ rlRun.pid # 0 /\ rlRun' = [rlRun EXCEPT !.at = "health"]
  /\ UNCHANGED <<rlTree, rlMain, rlOrigin, rlTags, rlNpm, cnVars>>

HealthAnswers(ok) ==
  /\ rlRun.at = "health"
  /\ IF ok THEN /\ cnJob.pid # 0
                /\ cnLed' = [cnLed EXCEPT !.at = "ok", !.answered = cnJob]
                /\ RlGoes("idle")
           ELSE /\ rlRun' = [rlRun EXCEPT !.at = "wait", !.tries = @ + 1]
                /\ UNCHANGED cnLed
  /\ UNCHANGED <<rlTree, rlMain, rlOrigin, rlTags, rlNpm, cnJob, cnDist>>

GiveUpRefresh ==
  /\ rlRun.at = "wait" /\ rlRun.tries = RlTries
  /\ RlGoes("idle")
  /\ cnLed' = [cnLed EXCEPT !.at = "failed"]
  /\ UNCHANGED <<rlTree, rlMain, rlOrigin, rlTags, rlNpm, cnJob, cnDist>>

ReleaseNext ==
  \/ \E v \in RlVersions : WriteNotes(v) \/ StageVersion(v) \/ ApproveVersion(v) \/ StartRelease(v)
  \/ Discard \/ PushByHand \/ OthersPush \/ Pull
  \/ GatesPass \/ StopScript \/ CommitTree \/ TagCommit \/ PushMain \/ PushTag \/ StartPin
  \/ JobGoes \/ PrintJob \/ AskAgain \/ GiveUpRefresh
  \/ \E pid \in 1 .. RlMaxPids : JobComesUp(pid)
  \/ \E passes \in BOOLEAN : RebuildDist(passes) \/ Kickstart(passes) \/ HealthAnswers(passes)

ReleaseSpec == ReleaseInit /\ [][ReleaseNext]_releaseVars

----------------------------------------------------------------------------
(* Properties *)

\* The type of the clone and of the scripts' places in it.
RlTypeOK ==
  /\ rlTree.version \in RlVersions /\ rlTree.pin \in RlVersions /\ rlTree.notes \in RlVersions \cup {NoVersion}
  /\ rlOrigin.has \in 1 .. Len(rlMain)
  /\ rlNpm.latest \in rlNpm.served /\ rlNpm.served \subseteq rlNpm.staged

\* The install line on origin never names a version npm does not serve,
\* whichever steps of whichever runs failed or were stopped (release.mjs:12).
PinsAreServed == \A n \in 1 .. rlOrigin.has : rlMain[n].tree.pin \in rlNpm.served

\* A tag on origin, which starts the publishing, names a commit of origin's
\* main that passed the gates, is of that version and has its notes dated.
TagsAreGated ==
  \A v \in rlTags.pushed :
    LET n == rlTags.names[v] IN
    n \in 1 .. rlOrigin.has /\ rlMain[n].gated /\ rlMain[n].tree.version = v /\ rlMain[n].tree.notes = NoVersion

\* refreshConnector() says ok only when the process that answered had loaded
\* this build (release-lib.mjs:262), given launchd did not restart the job by
\* itself while the build ran.
OkIsTheNewBuild == cnLed.at = "ok" /\ ~cnLed.restarted => cnLed.answered.code = cnLed.version

\* ... and without that condition.
OkIsAlwaysTheNewBuild == cnLed.at = "ok" => cnLed.answered.code = cnLed.version
============================================================================
