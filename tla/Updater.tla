--------------------------------- MODULE Updater ---------------------------------
(***************************************************************************)
(* runtime/update-existing.sh: an installed runtime (src, package.json and *)
(* .env, and the container built from them) is replaced by a new release,  *)
(* or put back as it was by the ERR trap. Any command may fail; whoever    *)
(* runs the script may kill it between two commands or in one, which runs  *)
(* no trap; and it is run again, also while another run is at work. A      *)
(* write that fails or is killed leaves a part.                            *)
(***************************************************************************)
EXTENDS Integers

CONSTANTS
  Runs,       \* runs of the script
  Open,       \* those with --open-registration
  MaxKills    \* bound on kills

ASSUME UpdaterAssumption == Open \subseteq Runs /\ MaxKills \in Nat

VARIABLES
  files,   \* src, package.json and .env of the installation
  backup,  \* [Runs -> what is in pact-backup-...], src, package.json, runtime.env
  aside,   \* [Runs -> installed-src]
  image,   \* the files the container was built from
  up,      \* whether it runs
  pc,      \* the command each run is at
  kills

updaterVars == <<files, backup, aside, image, up, pc, kills>>

Contents == {"none", "part", "old", "new"}
Names == {"src", "package", "env"}
Installed == [n \in Names |-> "old"]
Nothing == [n \in Names |-> "none"]

\* The commands that install, those of the trap, and what they write.
Install == {"backup", "stop", "move", "src", "package", "env", "up", "health"}
Trap == {"trap", "back src", "back package", "back env", "back up"}
Ended == {"done", "failed", "given up", "broken", "killed"}
AtWork(r) == pc[r] \in Install \cup Trap
Back == [src |-> "back src", package |-> "back package", env |-> "back env"]

\* Every variable keeps its type, and only one run holds the lock.
UpdaterTypeOK ==
  /\ files \in [Names -> Contents] /\ image \in [Names -> Contents]
  /\ backup \in [Runs -> [Names -> Contents]] /\ aside \in [Runs -> Contents]
  /\ up \in BOOLEAN
  /\ pc \in [Runs -> {"new"} \cup Install \cup Trap \cup Ended]
  /\ \A r, s \in Runs : AtWork(r) /\ AtWork(s) => r = s
  /\ kills \in 0 .. MaxKills

UpdaterInit ==
  /\ files = Installed /\ image = Installed /\ up = TRUE
  /\ backup = [r \in Runs |-> Nothing] /\ aside = [r \in Runs |-> "none"]
  /\ pc = [r \in Runs |-> "new"]
  /\ kills = 0

-----------------------------------------------------------------------------

Goto(r, c) == pc' = [pc EXCEPT ![r] = c]

\* Mutant of Unlocked: no flock.
Unguarded(r) == TRUE

Unlocked(r) == \A s \in Runs \ {r} : ~AtWork(s)

\* The checks; without src or a running container, "nothing changed".
Check(r) ==
  /\ pc[r] = "new" /\ files["src"] # "none" /\ up /\ Unlocked(r)
  /\ Goto(r, "backup")
  /\ UNCHANGED <<files, backup, aside, image, up, kills>>

\* Mutant of Backup: only the code is copied.
BackupCode(r) ==
  /\ pc[r] = "backup"
  /\ \/ Goto(r, "stop") /\ backup' = [backup EXCEPT ![r]["src"] = files["src"]]
     \/ Goto(r, "given up") /\ UNCHANGED backup
  /\ UNCHANGED <<files, aside, image, up, kills>>

\* Before the trap is set, a failure ends the script; what it had copied is of no use.
Backup(r) ==
  /\ pc[r] = "backup"
  /\ \/ Goto(r, "stop") /\ backup' = [backup EXCEPT ![r] = files]
     \/ Goto(r, "given up") /\ UNCHANGED backup
  /\ UNCHANGED <<files, aside, image, up, kills>>

\* When the stop fails, STOPPED is not set: the trap restores and starts nothing.
Stop(r) ==
  /\ pc[r] = "stop"
  /\ \/ Goto(r, "move") /\ up' = FALSE
     \/ Goto(r, "given up") /\ up' \in {up, FALSE}
  /\ UNCHANGED <<files, backup, aside, image, kills>>

Move(r) ==
  /\ pc[r] = "move"
  /\ \/ /\ Goto(r, "src")
        /\ aside' = [aside EXCEPT ![r] = files["src"]]
        /\ files' = [files EXCEPT !["src"] = "none"]
     \/ Goto(r, "trap") /\ UNCHANGED <<files, aside>>
  /\ UNCHANGED <<backup, image, up, kills>>

\* Mutant of After: the container is built before package.json is there.
AfterAtOnce(r, n) == "up"

\* The next command, once a file is written.
After(r, n) ==
  IF n = "src" THEN "package" ELSE IF n = "package" /\ r \in Open THEN "env" ELSE "up"

\* src and package.json of the release, HOSTED_REGISTRATION=open in .env.
Put(r, n) ==
  /\ pc[r] = n
  /\ \/ Goto(r, After(r, n)) /\ files' = [files EXCEPT ![n] = "new"]
     \/ Goto(r, "trap") /\ files' = [files EXCEPT ![n] = "part"]
  /\ UNCHANGED <<backup, aside, image, up, kills>>

\* docker compose up -d --build.
Start(r, command, ok, failed) ==
  /\ pc[r] = command
  /\ \/ Goto(r, ok) /\ image' = files /\ up' = TRUE
     \/ Goto(r, failed) /\ image' \in {image, files} /\ up' \in BOOLEAN
  /\ UNCHANGED <<files, backup, aside, kills>>

\* The new version answers within twenty attempts, or it does not.
Health(r) ==
  /\ pc[r] = "health"
  /\ Goto(r, "trap") \/ (Goto(r, "done") /\ up /\ image["src"] = "new")
  /\ UNCHANGED <<files, backup, aside, image, up, kills>>

\* src goes to failed-src; then the three are copied back. No trap is set any more.
Undo(r) ==
  /\ pc[r] = "trap"
  /\ \/ Goto(r, "back src") /\ files' = [files EXCEPT !["src"] = "none"]
     \/ Goto(r, "broken") /\ UNCHANGED files
  /\ UNCHANGED <<backup, aside, image, up, kills>>

\* Mutant of Then: .env is left as it is.
ThenUp(n) == IF n = "src" THEN "back package" ELSE "back up"

Then(n) == IF n = "src" THEN "back package" ELSE IF n = "package" THEN "back env" ELSE "back up"

Restore(r, n) ==
  /\ pc[r] = Back[n]
  /\ \/ Goto(r, Then(n)) /\ files' = [files EXCEPT ![n] = backup[r][n]]
     \/ Goto(r, "broken") /\ files' = [files EXCEPT ![n] = "part"]
  /\ UNCHANGED <<backup, aside, image, up, kills>>

-----------------------------------------------------------------------------

\* What a command that is cut off may have done.
CutOff(r) ==
  /\ \/ UNCHANGED files
     \/ \E n \in Names : pc[r] \in {n, Back[n]} /\ files' = [files EXCEPT ![n] = "part"]
  /\ IF pc[r] \in {"stop", "up", "back up"}
     THEN up' \in BOOLEAN /\ image' \in (IF pc[r] = "stop" THEN {image} ELSE {image, files})
     ELSE UNCHANGED <<up, image>>

Kill(r) ==
  /\ AtWork(r) /\ kills < MaxKills
  /\ kills' = kills + 1
  /\ CutOff(r) /\ Goto(r, "killed")
  /\ UNCHANGED <<backup, aside>>

\* The operator starts the container that is there.
OperatorStarts ==
  /\ ~up /\ \A r \in Runs : ~AtWork(r)
  /\ up' = TRUE
  /\ UNCHANGED <<files, backup, aside, image, pc, kills>>

UpdaterNext ==
  \/ \E r \in Runs :
       \/ Check(r) \/ Backup(r) \/ Stop(r) \/ Move(r) \/ Health(r) \/ Undo(r) \/ Kill(r)
       \/ Start(r, "up", "health", "trap") \/ Start(r, "back up", "failed", "failed")
       \/ \E n \in Names : Put(r, n) \/ Restore(r, n)
  \/ OperatorStarts

UpdaterSpec == UpdaterInit /\ [][UpdaterNext]_updaterVars

-----------------------------------------------------------------------------

\* "Never delete the only copy of old code": there is always a whole copy of the old
\* src, package.json and .env (which holds the keys), wherever the script failed or was
\* killed, in the trap too, and however often it was run after that.
OldKept ==
  \A n \in Names :
    \/ files[n] = "old"
    \/ \E r \in Runs : backup[r][n] = "old" \/ (n = "src" /\ aside[r] = "old")

\* While no run was killed or failed in its trap.
Undisturbed == kills = 0 /\ \A r \in Runs : pc[r] # "broken"

\* What the runs that succeeded were to make of the installation.
Outcome ==
  LET done == { r \in Runs : pc[r] = "done" }
      code == IF done = {} THEN "old" ELSE "new"
  IN [src |-> code, package |-> code, env |-> IF done \cap Open = {} THEN "old" ELSE "new"]

\* An update is all or nothing: when none is at work, the installation is the old one,
\* or the new one as the runs that succeeded were to make it, whatever failed.
AllOrNothing == Undisturbed /\ (\A r \in Runs : ~AtWork(r)) => files = Outcome

\* The container is never built from code of two versions or from a part of one, and
\* after a success it is never again the old one, whatever a later run does.
RunsWhole ==
  Undisturbed =>
    /\ image["src"] = image["package"]
    /\ "part" \notin { image[n] : n \in Names }
    /\ (\E r \in Runs : pc[r] = "done") => image["src"] = "new"
=============================================================================
