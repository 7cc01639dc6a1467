------------------------------ MODULE Opening ------------------------------
(* Opening a project's database: src/project-memory.ts chooses the file and *)
(* src/sqlite-memory-store.ts opens it: migrate() brings the schema up to   *)
(* date and claimScope() stamps the file with its project.                  *)
(*                                                                          *)
(* Several processes open at once, for the same project or for projects     *)
(* whose names the old file naming could not tell apart.  Each project has  *)
(* a canonical path of its own; a file at the old path may be there from    *)
(* before, and records no project until it is claimed.                      *)
EXTENDS Naturals, Sequences

CONSTANTS OpenProcs,    \* processes
          OpenProjects, \* project names
          OpenSlug,     \* the old file name each project's name became
          OpenMaxTries  \* bound: times a database is opened

VARIABLES openFiles,  \* the database files there are
          openLock,   \* the process whose write transaction each file is in
          openAt,     \* what each process is doing
          openTries,  \* how many times a database was opened
          openFacts   \* of each path, the projects that captured facts in it

openVars == <<openFiles, openLock, openAt, openTries, openFacts>>

Canonical(p) == <<"canonical", p>>
Legacy(p) == <<"legacy", OpenSlug[p]>>
OpenPaths == {Canonical(p) : p \in OpenProjects} \cup {Legacy(p) : p \in OpenProjects}

NoFile == [there |-> FALSE]
NoHolder == "no process"
Unstamped == "unstamped"
Away == [at |-> "away"]

----------------------------------------------------------------------------
(* The schema *)

\* The kinds of migration there are, in the order of their versions: tables
\* made IF NOT EXISTS, columns added, values rewritten, an index rebuilt.
Migrations == <<"create", "column", "rewrite", "rebuild">>

NewFile == [there |-> TRUE, version |-> 0, done |-> {}, scope |-> Unstamped]

\* A file written before a scope was recorded, at the version it was left at.
OldFile(v) == [there |-> TRUE, version |-> v, done |-> 1 .. v, scope |-> Unstamped]

\* Replayed over a schema that has it, only the adding of a column fails.
StepFails(n, done) == Migrations[n] = "column" /\ n \in done

\* runMigrationStep(): a column that is there is what was wanted.
Tolerated(n) == Migrations[n] = "column"

\* migrate(): every version above the one read, in one transaction.
Migrated(file, from) ==
  [file EXCEPT !.version = Len(Migrations), !.done = @ \cup (from + 1) .. Len(Migrations)]

CanMigrate(file, from) == \A n \in (from + 1) .. Len(Migrations) : StepFails(n, file.done) => Tolerated(n)

----------------------------------------------------------------------------
(* The operations *)

OpenInit ==
  /\ \E old \in SUBSET {Legacy(p) : p \in OpenProjects}, v \in 1 .. 2 :
       openFiles = [f \in OpenPaths |-> IF f \in old THEN OldFile(v) ELSE NoFile]
  /\ openLock = [f \in OpenPaths |-> NoHolder]
  /\ openAt = [q \in OpenProcs |-> Away]
  /\ openTries = 0
  /\ openFacts = [f \in OpenPaths |-> {}]

Doing(q, s) == openAt[q].at = s
Becomes(q, c) == openAt' = [openAt EXCEPT ![q] = c]

\* readRecordedScope(): the project in a file, or none: no file, no table.
RecordedScope(f) == IF openFiles[f].there THEN openFiles[f].scope ELSE Unstamped

\* projectDbPath(), first look: a canonical file stamped with this project.
LookCanonical(q, p) ==
  /\ Doing(q, "away")
  /\ openTries < OpenMaxTries
  /\ openTries' = openTries + 1
  /\ Becomes(q, IF openFiles[Canonical(p)].there /\ RecordedScope(Canonical(p)) = p
                  THEN [at |-> "chosen", project |-> p, file |-> Canonical(p)]
                  ELSE [at |-> "looking", project |-> p])
  /\ UNCHANGED <<openFiles, openLock, openFacts>>

\* Second look: the old file, when it is unclaimed or this project's.
MayTake(scope, p) == scope \in {Unstamped, p}

LookLegacy(q) ==
  LET p == openAt[q].project IN
  /\ Doing(q, "looking")
  /\ Becomes(q, [at |-> "chosen", project |-> p,
                 file |-> IF openFiles[Legacy(p)].there /\ MayTake(RecordedScope(Legacy(p)), p)
                            THEN Legacy(p) ELSE Canonical(p)])
  /\ UNCHANGED <<openFiles, openLock, openTries, openFacts>>

\* The database is opened, and made if it is not there; migrate() takes the
\* write lock before it reads the version.
LockForMigration(q) ==
  LET f == openAt[q].file IN
  /\ Doing(q, "chosen")
  /\ openLock[f] = NoHolder
  /\ openLock' = [openLock EXCEPT ![f] = q]
  /\ openFiles' = [openFiles EXCEPT ![f] = IF @.there THEN @ ELSE NewFile]
  /\ Becomes(q, [at |-> "migrating", project |-> openAt[q].project, file |-> f,
                 from |-> IF openFiles[f].there THEN openFiles[f].version ELSE 0])
  /\ UNCHANGED <<openTries, openFacts>>

\* Every step ran and the transaction commits, or one failed and none did.
Migrate(q) ==
  LET f == openAt[q].file IN
  /\ Doing(q, "migrating")
  /\ openLock' = [openLock EXCEPT ![f] = NoHolder]
  /\ IF CanMigrate(openFiles[f], openAt[q].from)
       THEN /\ openFiles' = [openFiles EXCEPT ![f] = Migrated(@, openAt[q].from)]
            /\ Becomes(q, [at |-> "migrated", project |-> openAt[q].project, file |-> f])
       ELSE /\ Becomes(q, [at |-> "failed"])
            /\ UNCHANGED openFiles
  /\ UNCHANGED <<openTries, openFacts>>

\* A variant that writes its own name over another's.
StampOver(file, p) == [file EXCEPT !.scope = p]

\* claimScope(): the stamp goes in unless one is there, and what is read back
\* in the same transaction decides.
Stamp(file, p) == IF file.scope = Unstamped THEN [file EXCEPT !.scope = p] ELSE file

ClaimScope(q) ==
  LET p == openAt[q].project
      f == openAt[q].file
      stamped == Stamp(openFiles[f], p)
  IN
  /\ Doing(q, "migrated")
  /\ openLock[f] = NoHolder
  /\ openFiles' = [openFiles EXCEPT ![f] = stamped]
  /\ Becomes(q, IF stamped.scope = p THEN [at |-> "open", project |-> p, file |-> f] ELSE Away)
  /\ UNCHANGED <<openLock, openTries, openFacts>>

\* The lock stays busy through every retry, or the process ends: what its
\* transaction did is undone, a file it made stays.
GiveUp(q) ==
  /\ openAt[q].at \notin {"away", "failed"}
  /\ Becomes(q, Away)
  /\ openLock' = [f \in OpenPaths |-> IF openLock[f] = q THEN NoHolder ELSE openLock[f]]
  /\ UNCHANGED <<openFiles, openTries, openFacts>>

\* capture(): a fact of the project goes into the file it has open.
Capture(q) ==
  /\ Doing(q, "open")
  /\ openFacts' = [openFacts EXCEPT ![openAt[q].file] = @ \cup {openAt[q].project}]
  /\ UNCHANGED <<openFiles, openLock, openAt, openTries>>

\* A file nobody has open is restored from a dump, which carries no version.
RestoreDump(f) ==
  /\ openFiles[f].there
  /\ \A q \in OpenProcs : "file" \in DOMAIN openAt[q] => openAt[q].file # f
  /\ openFiles' = [openFiles EXCEPT ![f].version = 0]
  /\ UNCHANGED <<openLock, openAt, openTries, openFacts>>

OpenNext ==
  \/ \E q \in OpenProcs :
       \/ \E p \in OpenProjects : LookCanonical(q, p)
       \/ LookLegacy(q)
       \/ LockForMigration(q)
       \/ Migrate(q)
       \/ ClaimScope(q)
       \/ GiveUp(q)
       \/ Capture(q)
  \/ \E f \in OpenPaths : RestoreDump(f)

OpenSpec == OpenInit /\ [][OpenNext]_openVars

----------------------------------------------------------------------------
(* Properties *)

\* The type of the state of the files and of the processes that open them.
OpenTypeOK ==
  /\ \A f \in OpenPaths : openFiles[f].there =>
       /\ openFiles[f].version \in 0 .. Len(Migrations)
       /\ openFiles[f].done \subseteq 1 .. Len(Migrations)
       /\ openFiles[f].scope \in OpenProjects \cup {Unstamped}
  /\ openLock \in [OpenPaths -> OpenProcs \cup {NoHolder}]
  /\ openTries \in 0 .. OpenMaxTries
  /\ openFacts \in [OpenPaths -> SUBSET OpenProjects]

\* A file is never labelled with a version whose migrations it has not had, a
\* store in use has had them all, and no file ever fails to open for having
\* had some already - whichever processes opened it together, and if it was
\* restored from a dump that lost its label.
SchemaIsWhatItSays ==
  /\ \A f \in OpenPaths : openFiles[f].there => 1 .. openFiles[f].version \subseteq openFiles[f].done
  /\ \A q \in OpenProcs : Doing(q, "open") => openFiles[openAt[q].file].done = 1 .. Len(Migrations)
  /\ \A q \in OpenProcs : ~Doing(q, "failed")

\* Two projects never capture into one file, although their names may sanitise
\* alike and both may have found the old file unclaimed.
ProjectsNeverShare == \A f \in OpenPaths : \A p, r \in openFacts[f] : p = r

\* Everything a project captures goes into one file, whichever of its processes
\* opens it, whenever: none of it is left behind in another.
CapturesStayTogether == \A f, g \in OpenPaths : openFacts[f] \cap openFacts[g] # {} => f = g
============================================================================
