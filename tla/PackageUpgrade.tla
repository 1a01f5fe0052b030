--------------------------- MODULE PackageUpgrade ---------------------------
(***************************************************************************)
(* package.upgrade (package_upgrade_executor.py): the broker installs one  *)
(* tagged release into a venv.  An untrusted Kart task builds the wheel in *)
(* a directory it can always write; the broker verifies a private copy of  *)
(* it, backs up the entries of the package, writes the backup's manifest,  *)
(* runs pip, and restarts the workers.  What fails is rolled back from the *)
(* manifest: every entry is staged beside its target before any is swapped.*)
(*                                                                         *)
(* The private root, with its backup, is one per commit and not per venv.  *)
(* An entry is a path of the package in a venv and holds a version, or     *)
(* Absent.  Any file operation may fail and the broker may die.  Upgrades  *)
(* are run one at a time here, which no lock of the code sees to; receipts *)
(* and the restart of the workers, which nothing reads again, are left out.*)
(***************************************************************************)
EXTENDS Naturals

CONSTANTS
  Runs,                \* calls of execute_package_upgrade for one tag
  Venvs, Paths,
  Present,             \* [Venvs -> SUBSET Paths]: the entries there at first
  Shipped,             \* the entries the release has
  Absent, Old, Good, Bad,    \* versions; Bad: a wheel that is not the tag's source
  MaxSlips, MaxCrashes \* bounds: failed operations of rollbacks, deaths of the broker

ASSUME UpgradeAssumption ==
  /\ Present \in [Venvs -> SUBSET Paths] /\ Shipped \subseteq Paths
  /\ Absent \notin {Old, Good, Bad} /\ Old \notin {Good, Bad} /\ Good # Bad
  /\ MaxSlips \in Nat /\ MaxCrashes \in Nat

Version == {Absent, Old, Good, Bad}
Wheel == {Absent, Good, Bad}
Entry == Venvs \X Paths

VARIABLES
  disk,                \* [Entry -> Version]: the live entries
  parked,              \* [Entry -> Version]: <entry>.rollback-old
  staged,              \* [Entry -> Version]: <entry>.restoring
  backup,              \* [Entry -> Version]: the copies in the private root
  manifest,            \* the entries of the manifest, if there is one
  output, private,     \* the wheel Kart built, and the broker's copy of it
  step, target, todo,  \* [Runs -> ]: what a run is at, its venv, entries left
  digest,              \* [Runs -> ]: the wheel it hashed
  found,               \* history: [Runs -> ] the disk when the run began
  slips, crashes

wheelVars == <<output, private>>
backupVars == <<backup, manifest>>
sideVars == <<parked, staged>>
runVars == <<target, digest, found>>
upgradeVars == <<disk, sideVars, backupVars, wheelVars, step, todo, runVars,
                 slips, crashes>>

Empty == [e \in Entry |-> Absent]
NoManifest == {}

(* _related_paths: the entries of the package in a venv.  What a rollback   *)
(* that died left beside one of them counts or not, by its name.           *)
Has(v) == {e \in Entry : e[1] = v /\ disk[e] # Absent}
Leftover(v) == {e \in Entry : e[1] = v /\ (parked[e] # Absent \/ staged[e] # Absent)}

UpgradeInit ==
  /\ disk = [e \in Entry |-> IF e[2] \in Present[e[1]] THEN Old ELSE Absent]
  /\ parked = Empty /\ staged = Empty /\ backup = Empty
  /\ manifest = NoManifest
  /\ output = Absent /\ private = Absent
  /\ step = [r \in Runs |-> "idle"]
  /\ target \in [Runs -> Venvs]
  /\ todo = [r \in Runs |-> {}]
  /\ digest = [r \in Runs |-> Absent]
  /\ found = [r \in Runs |-> Empty]
  /\ slips = 0 /\ crashes = 0

Moves(r, from, to) == step[r] = from /\ step' = [step EXCEPT ![r] = to]
Active == {r \in Runs : step[r] \notin {"idle", "upgraded", "failed", "EROLLBACK", "dead"}}

(* The checks pass and the citation is spent.                              *)
BeginRun(r) ==
  /\ Active = {}
  /\ Moves(r, "idle", "cited")
  /\ found' = [found EXCEPT ![r] = disk]
  /\ UNCHANGED <<disk, sideVars, backupVars, wheelVars, todo, target, digest,
                 slips, crashes>>

(* Before the backup has a place, a failure has nothing to roll back.      *)
GiveUp(r) ==
  /\ step[r] \in {"cited", "built", "copied"}
  /\ step' = [step EXCEPT ![r] = "failed"]
  /\ UNCHANGED <<disk, sideVars, backupVars, wheelVars, todo, runVars, slips, crashes>>

(* run_kart_build; the build tree stays Kart's.                            *)
Build(r) ==
  /\ Moves(r, "cited", "built")
  /\ output' \in {Good, Bad}
  /\ UNCHANGED <<disk, sideVars, backupVars, private, todo, runVars, slips, crashes>>

KartWrites ==
  /\ output # Absent
  /\ output' \in {Good, Bad}
  /\ UNCHANGED <<disk, sideVars, backupVars, private, step, todo, runVars, slips, crashes>>

CopyWheel(r) ==
  /\ Moves(r, "built", "copied")
  /\ private' = output
  /\ digest' = [digest EXCEPT ![r] = output]
  /\ UNCHANGED <<disk, sideVars, backupVars, output, todo, target, found, slips, crashes>>

(* Mutated: the wheel in Kart's tree is verified.                          *)
VerifyOutput(r) ==
  /\ output = Good
  /\ Moves(r, "copied", "clear")
  /\ UNCHANGED <<disk, sideVars, backupVars, wheelVars, todo, runVars, slips, crashes>>

(* verify_wheel_against_source, and the entries to back up.  A venv that   *)
(* has none skips _backup_entries.                                         *)
VerifyWheel(r) ==
  /\ private = Good
  /\ \/ Has(target[r]) = {} /\ Moves(r, "copied", "rehash")
     \/ Has(target[r]) \union Leftover(target[r]) # {} /\ Moves(r, "copied", "clear")
  /\ UNCHANGED <<disk, sideVars, backupVars, wheelVars, todo, runVars, slips, crashes>>

ClearBackup(r) ==
  /\ Moves(r, "clear", "back")
  /\ backup' = Empty /\ manifest' = NoManifest
  /\ todo' = [todo EXCEPT ![r] = Has(target[r])]
  /\ UNCHANGED <<disk, sideVars, wheelVars, runVars, slips, crashes>>

BackUp(r) ==
  /\ step[r] = "back"
  /\ \E e \in todo[r] :
       /\ backup' = [backup EXCEPT ![e] = disk[e]]
       /\ todo' = [todo EXCEPT ![r] = @ \ {e}]
  /\ UNCHANGED <<disk, sideVars, manifest, wheelVars, step, runVars, slips, crashes>>

(* Mutated: an entry is named without its venv.                            *)
WriteManifestNames(r) ==
  /\ todo[r] = {} /\ Moves(r, "back", "rehash")
  /\ manifest' = {e[2] : e \in Has(target[r])}
  /\ UNCHANGED <<disk, sideVars, backup, wheelVars, todo, runVars, slips, crashes>>

(* Mutated: the manifest is written before the copies.                     *)
WriteManifestEarly(r) ==
  /\ Moves(r, "back", "rehash")
  /\ manifest' = Has(target[r]) \ todo[r]
  /\ UNCHANGED <<disk, sideVars, backup, wheelVars, todo, runVars, slips, crashes>>

(* Only when every copy has succeeded.                                     *)
WriteManifest(r) ==
  /\ todo[r] = {} /\ Moves(r, "back", "rehash")
  /\ manifest' = Has(target[r])
  /\ UNCHANGED <<disk, sideVars, backup, wheelVars, todo, runVars, slips, crashes>>

Rehash(r) ==
  /\ IF private = digest[r] THEN Moves(r, "rehash", "install")
                            ELSE Moves(r, "rehash", "rollback")
  /\ todo' = [todo EXCEPT ![r] = {e \in Entry : e[1] = target[r]}]
  /\ UNCHANGED <<disk, sideVars, backupVars, wheelVars, runVars, slips, crashes>>

(* pip replaces the entries of the old release by those of the wheel.      *)
Install(r) ==
  /\ step[r] = "install"
  /\ \E e \in todo[r] :
       /\ disk' = [disk EXCEPT ![e] = IF e[2] \in Shipped THEN private ELSE Absent]
       /\ todo' = [todo EXCEPT ![r] = @ \ {e}]
  /\ UNCHANGED <<sideVars, backupVars, wheelVars, step, runVars, slips, crashes>>

(* A fresh interpreter reports the version of the tag, and the workers     *)
(* restart; a worker that does not come up is reported, not rolled back.   *)
Finish(r) ==
  /\ todo[r] = {} /\ Moves(r, "install", "upgraded")
  /\ UNCHANGED <<disk, sideVars, backupVars, wheelVars, todo, runVars, slips, crashes>>

(* A copy, pip, the version check or a restart fails or times out.         *)
Fail(r) ==
  /\ step[r] \in {"back", "rehash", "install"}
  /\ step' = [step EXCEPT ![r] = "rollback"]
  /\ UNCHANGED <<disk, sideVars, backupVars, wheelVars, todo, runVars, slips, crashes>>

(***************************************************************************)
(* _rollback_from_manifest.                                                *)
(***************************************************************************)
Slip(n) == slips + n <= MaxSlips /\ slips' = slips + n

LoadManifest(r) ==
  /\ IF manifest = NoManifest THEN Moves(r, "rollback", "failed")
                              ELSE Moves(r, "rollback", "stage")
  /\ todo' = [todo EXCEPT ![r] = {e \in manifest : backup[e] # Absent}]
  /\ UNCHANGED <<disk, sideVars, backupVars, wheelVars, runVars, slips, crashes>>

(* A manifest that cannot be read is taken for none.                       *)
ManifestUnread(r) ==
  /\ Slip(1)
  /\ Moves(r, "rollback", "failed")
  /\ UNCHANGED <<disk, sideVars, backupVars, wheelVars, todo, runVars, crashes>>

Stage(r) ==
  /\ step[r] = "stage"
  /\ \E e \in todo[r] :
       /\ staged' = [staged EXCEPT ![e] = backup[e]]
       /\ todo' = [todo EXCEPT ![r] = @ \ {e}]
  /\ UNCHANGED <<disk, parked, backupVars, wheelVars, step, runVars, slips, crashes>>

AllStaged(r) ==
  /\ todo[r] = {} /\ Moves(r, "stage", "swap")
  /\ todo' = [todo EXCEPT ![r] = {e \in manifest : backup[e] # Absent}]
  /\ UNCHANGED <<disk, sideVars, backupVars, wheelVars, runVars, slips, crashes>>

(* os.replace(original, aside), for the one entry mid-swap.                *)
SetAside(r) ==
  /\ Moves(r, "swap", "put")
  /\ \E e \in todo[r] :
       /\ parked' = [parked EXCEPT ![e] = disk[e]]
       /\ disk' = [disk EXCEPT ![e] = Absent]
       /\ todo' = [todo EXCEPT ![r] = {e}]
  /\ UNCHANGED <<staged, backupVars, wheelVars, runVars, slips, crashes>>

(* os.replace(staged, original), and the next entry.                       *)
PutInPlace(r) ==
  /\ Moves(r, "put", "swap")
  /\ \E e \in todo[r] :
       /\ disk' = [disk EXCEPT ![e] = staged[e]]
       /\ staged' = [staged EXCEPT ![e] = Absent]
       /\ parked' = [parked EXCEPT ![e] = Absent]
       /\ todo' = [todo EXCEPT ![r] = {d \in manifest : staged'[d] # Absent}]
  /\ UNCHANGED <<backupVars, wheelVars, runVars, slips, crashes>>

(* Mutated: the live entry stays aside.                                    *)
LeaveAside(r) ==
  /\ Slip(1)
  /\ Moves(r, "put", "EROLLBACK")
  /\ UNCHANGED <<disk, sideVars, backupVars, wheelVars, todo, runVars, crashes>>

(* The replace fails: the live entry goes back.                            *)
PutBack(r) ==
  /\ Slip(1)
  /\ Moves(r, "put", "EROLLBACK")
  /\ \E e \in todo[r] :
       /\ disk' = [disk EXCEPT ![e] = parked[e]]
       /\ parked' = [parked EXCEPT ![e] = Absent]
  /\ UNCHANGED <<staged, backupVars, wheelVars, todo, runVars, crashes>>

(* The put-back fails too.                                                 *)
PutBackFails(r) ==
  /\ Slip(2)
  /\ Moves(r, "put", "EROLLBACK")
  /\ UNCHANGED <<disk, sideVars, backupVars, wheelVars, todo, runVars, crashes>>

(* Staging, or setting an entry aside, fails.                               *)
RollbackFails(r) ==
  /\ Slip(1)
  /\ Moves(r, "stage", "EROLLBACK") \/ Moves(r, "swap", "EROLLBACK")
  /\ UNCHANGED <<disk, sideVars, backupVars, wheelVars, todo, runVars, crashes>>

(* The entries the manifest does not name are swept last; one that cannot  *)
(* be removed is passed over.                                              *)
Sweep(r) ==
  /\ todo[r] = {} /\ Moves(r, "swap", "failed")
  /\ LET extras == Has(target[r]) \ manifest IN
     \E S \in SUBSET extras :
       /\ IF S = extras THEN UNCHANGED slips ELSE Slip(1)
       /\ disk' = [e \in Entry |-> IF e \in S THEN Absent ELSE disk[e]]
  /\ UNCHANGED <<sideVars, backupVars, wheelVars, todo, runVars, crashes>>

BrokerDies(r) ==
  /\ crashes < MaxCrashes /\ crashes' = crashes + 1
  /\ r \in Active
  /\ step' = [step EXCEPT ![r] = "dead"]
  /\ UNCHANGED <<disk, sideVars, backupVars, wheelVars, todo, runVars, slips>>

Upgrade(r) ==
  \/ BeginRun(r) \/ GiveUp(r) \/ Build(r) \/ CopyWheel(r) \/ VerifyWheel(r)
  \/ ClearBackup(r) \/ BackUp(r) \/ WriteManifest(r) \/ Rehash(r) \/ Install(r)
  \/ Finish(r) \/ Fail(r)
  \/ LoadManifest(r) \/ ManifestUnread(r) \/ Stage(r) \/ AllStaged(r) \/ SetAside(r) \/ PutInPlace(r)
  \/ PutBack(r) \/ PutBackFails(r) \/ RollbackFails(r) \/ Sweep(r)

UpgradeNext == KartWrites \/ \E r \in Runs : Upgrade(r) \/ BrokerDies(r)

UpgradeSpec == UpgradeInit /\ [][UpgradeNext]_upgradeVars

-----------------------------------------------------------------------------
(* Properties.                                                             *)

UpgradeTypeOK ==
  /\ disk \in [Entry -> Version]
  /\ parked \in [Entry -> Version] /\ staged \in [Entry -> Version]
  /\ backup \in [Entry -> Version] /\ manifest \subseteq Entry
  /\ output \in Wheel /\ private \in Wheel
  /\ step \in [Runs -> {"idle", "cited", "built", "copied", "clear", "back", "rehash",
                        "install", "upgraded", "rollback", "stage", "swap", "put",
                        "failed", "EROLLBACK", "dead"}]
  /\ target \in [Runs -> Venvs] /\ todo \in [Runs -> SUBSET Entry]
  /\ digest \in [Runs -> Wheel] /\ found \in [Runs -> [Entry -> Version]]
  /\ slips \in 0..MaxSlips /\ crashes \in 0..MaxCrashes

(* A run that fails, and whose rollback does not, leaves every venv as it  *)
(* found it, if the package was there to be backed up and no operation of  *)
(* the rollback that the code passes over failed.                          *)
UpgradeRestores ==
  [][\A r \in Runs :
       /\ step[r] # "failed" /\ step'[r] = "failed" /\ slips' = slips
       /\ \E p \in Paths : found[r][<<target[r], p>>] # Absent
       => disk' = found[r]]_upgradeVars

(* A rollback that fails leaves the entries that both releases have: "a     *)
(* failure partway through only affects the ONE entry mid-swap", and that  *)
(* one "is never left empty" unless its put-back fails as well.            *)
NothingLost ==
  [][\A r \in Runs :
       /\ step[r] # "EROLLBACK" /\ step'[r] = "EROLLBACK" /\ slips' <= slips + 1
       => \A e \in Entry : /\ e[1] = target[r] /\ e[2] \in Shipped
                           /\ found[r][e] # Absent
                           => disk'[e] # Absent]_upgradeVars

(* Whatever Kart writes into the tree it built in, and whenever, no venv   *)
(* ever holds a release that is not the tag's source.                      *)
InstalledIsVerified == \A e \in Entry : disk[e] # Bad
=============================================================================
