------------------------ MODULE PackageUpgradeProofs ------------------------
(***************************************************************************)
(* package.upgrade, for every number of runs, venvs, entries and deaths of *)
(* the broker: the type invariant, that no venv holds an unverified wheel, *)
(* and that a rollback restores what the run found and empties no entry.   *)
(*                                                                         *)
(* The inductive invariant says of each run what it has saved so far, up   *)
(* to its phase: before pip runs the disk is as found and the copies made  *)
(* are true; from the manifest on, the manifest names what was found and   *)
(* every copy is true; while rolling back, what is staged or back in place *)
(* is what was found; and no other venv is touched.                        *)
(***************************************************************************)
EXTENDS PackageUpgrade, TLAPS

(* What a run may be at. *)
Phases == {"idle", "cited", "built", "copied", "clear", "back", "rehash",
           "install", "upgraded", "rollback", "stage", "swap", "put",
           "failed", "EROLLBACK", "dead"}

(* The type invariant, conjunct by conjunct. *)
LEMMA UpParts ==
  UpgradeTypeOK =>
  /\ disk \in [Entry -> Version]
  /\ parked \in [Entry -> Version] /\ staged \in [Entry -> Version]
  /\ backup \in [Entry -> Version] /\ manifest \subseteq Entry
  /\ output \in Wheel /\ private \in Wheel
  /\ step \in [Runs -> Phases]
  /\ target \in [Runs -> Venvs] /\ todo \in [Runs -> SUBSET Entry]
  /\ digest \in [Runs -> Wheel] /\ found \in [Runs -> [Entry -> Version]]
  /\ slips \in 0..MaxSlips /\ crashes \in 0..MaxCrashes
  BY DEF UpgradeTypeOK, Phases

(* A wheel is a version. *)
LEMMA Versions ==
  /\ Wheel \subseteq Version /\ {Absent, Old, Good, Bad} = Version
  /\ Absent \in Wheel /\ Good \in Wheel /\ Bad \in Wheel
  BY DEF Wheel, Version

(* The bound on failed rollback operations is kept. *)
LEMMA Slipping ==
  ASSUME UpgradeTypeOK, NEW n \in Nat, Slip(n) PROVE slips' \in 0..MaxSlips /\ slips' = slips + n
  BY UpgradeAssumption DEF UpgradeTypeOK, Slip

(* Every step of a run keeps the types. *)
LEMMA RunType ==
  ASSUME UpgradeTypeOK, NEW r \in Runs, Upgrade(r) PROVE UpgradeTypeOK'
<1> USE DEF sideVars, backupVars, wheelVars, runVars, Moves, Upgrade, BeginRun, GiveUp, Build,
            CopyWheel, VerifyWheel, ClearBackup, BackUp, WriteManifest, Rehash, Install, Finish,
            Fail, LoadManifest, ManifestUnread, Stage, AllStaged, SetAside, PutInPlace, PutBack,
            PutBackFails, RollbackFails, Sweep
<1>0. /\ disk \in [Entry -> Version]
      /\ parked \in [Entry -> Version] /\ staged \in [Entry -> Version]
      /\ backup \in [Entry -> Version] /\ manifest \subseteq Entry
      /\ output \in Wheel /\ private \in Wheel
      /\ step \in [Runs -> Phases]
      /\ target \in [Runs -> Venvs] /\ todo \in [Runs -> SUBSET Entry]
      /\ digest \in [Runs -> Wheel] /\ found \in [Runs -> [Entry -> Version]]
      /\ slips \in 0..MaxSlips /\ crashes \in 0..MaxCrashes
  BY UpParts
<1>p. {"cited", "built", "copied", "clear", "back", "rehash", "install", "upgraded", "rollback", "stage", "swap", "put", "failed", "EROLLBACK"} \subseteq Phases
  BY DEF Phases
<1>h. \A v : Has(v) \subseteq Entry
  BY DEF Has
<1>z. 0 \in Nat /\ 1 \in Nat /\ 2 \in Nat
  OBVIOUS
<1>1. step' \in [Runs -> Phases]
  <2>1. \E s \in Phases : step' = [step EXCEPT ![r] = s] \/ step' = step
    BY <1>p
  <2> QED BY <2>1, <1>0
<1>2. slips' \in 0..MaxSlips /\ crashes' \in 0..MaxCrashes
  <2>1. slips' = slips \/ \E n \in {1, 2} : Slip(n)
    OBVIOUS
  <2>2. crashes' = crashes
    OBVIOUS
  <2> QED BY <2>1, <2>2, <1>0, Slipping
<1>3. output' \in Wheel /\ private' \in Wheel /\ digest' \in [Runs -> Wheel]
  BY <1>0, Versions
<1>4. found' \in [Runs -> [Entry -> Version]] /\ target' \in [Runs -> Venvs]
  BY <1>0
<1>5. manifest' \subseteq Entry /\ backup' \in [Entry -> Version]
  BY <1>0, <1>h, Versions DEF NoManifest, Empty
<1>6. todo' \in [Runs -> SUBSET Entry]
  BY <1>0, <1>h
<1>7. disk' \in [Entry -> Version]
  BY <1>0, Versions
<1>8. parked' \in [Entry -> Version] /\ staged' \in [Entry -> Version]
  BY <1>0, Versions
<1> QED BY <1>1, <1>2, <1>3, <1>4, <1>5, <1>6, <1>7, <1>8 DEF UpgradeTypeOK, Phases

(* A run that has not begun, or is over. *)
Resting == {"idle", "upgraded", "failed", "EROLLBACK", "dead"}

(* One upgrade at a time. *)
Solo == \A q, r \in Active : q = r

(* Nothing on disk, aside, staged or saved is an unverified wheel, and a
   run past the verification has a private wheel that was verified. *)
Clean ==
  /\ \A e \in Entry : disk[e] # Bad /\ parked[e] # Bad /\ staged[e] # Bad /\ backup[e] # Bad
  /\ \A r \in Runs : step[r] \in {"clear", "back", "rehash", "install"} => private = Good

(* The first state satisfies the invariant. *)
LEMMA CleanInit == UpgradeInit => UpgradeTypeOK /\ Solo /\ Clean
<1> SUFFICES ASSUME UpgradeInit PROVE UpgradeTypeOK /\ Solo /\ Clean
  OBVIOUS
<1> USE UpgradeAssumption DEF UpgradeInit, Empty, NoManifest
<1>0. Absent \in Wheel /\ Absent \in Version /\ Old \in Version /\ "idle" \in Phases
  BY DEF Wheel, Version, Phases
<1>1. disk \in [Entry -> Version] /\ \A e \in Entry : disk[e] \in {Old, Absent}
  BY <1>0
<1>2. /\ parked \in [Entry -> Version] /\ staged \in [Entry -> Version] /\ backup \in [Entry -> Version]
      /\ output \in Wheel /\ private \in Wheel /\ step \in [Runs -> Phases]
      /\ target \in [Runs -> Venvs] /\ todo \in [Runs -> SUBSET Entry]
      /\ digest \in [Runs -> Wheel] /\ found \in [Runs -> [Entry -> Version]]
      /\ slips \in 0..MaxSlips /\ crashes \in 0..MaxCrashes /\ manifest \subseteq Entry
  BY <1>0
<1>3. UpgradeTypeOK
  BY <1>1, <1>2 DEF UpgradeTypeOK, Phases
<1>4. Solo
  BY DEF Solo, Active
<1>5. Clean
  BY <1>1 DEF Clean
<1> QED BY <1>3, <1>4, <1>5

(* A run steps alone: every other run is at rest and keeps its fields. *)
LEMMA SoloStep ==
  ASSUME UpgradeTypeOK, Solo, NEW r \in Runs, Upgrade(r) \/ BrokerDies(r)
  PROVE  /\ Solo'
         /\ \A q \in Runs \ {r} : step'[q] = step[q] /\ target'[q] = target[q] /\ found'[q] = found[q]
                                  /\ todo'[q] = todo[q] /\ step[q] \in {"idle", "upgraded", "failed", "EROLLBACK", "dead"}
<1> USE DEF sideVars, backupVars, wheelVars, runVars, Moves, Upgrade, BeginRun, GiveUp, Build,
            CopyWheel, VerifyWheel, ClearBackup, BackUp, WriteManifest, Rehash, Install, Finish,
            Fail, LoadManifest, ManifestUnread, Stage, AllStaged, SetAside, PutInPlace, PutBack,
            PutBackFails, RollbackFails, Sweep, BrokerDies
<1>0. step \in [Runs -> Phases] /\ target \in [Runs -> Venvs] /\ todo \in [Runs -> SUBSET Entry]
      /\ found \in [Runs -> [Entry -> Version]]
  BY UpParts
<1>1. Active = {} \/ r \in Active
  BY DEF Active
<1>2. \A q \in Runs \ {r} : q \notin Active
  BY <1>1 DEF Solo
<1>3. \A q \in Runs \ {r} : step[q] \in {"idle", "upgraded", "failed", "EROLLBACK", "dead"}
  BY <1>2 DEF Active
<1>4. \A q \in Runs \ {r} : step'[q] = step[q]
  BY <1>0
<1>5. \A q \in Runs \ {r} : target'[q] = target[q] /\ found'[q] = found[q] /\ todo'[q] = todo[q]
  BY <1>0
<1>6. Solo'
  BY <1>3, <1>4 DEF Solo, Active
<1> QED BY <1>3, <1>4, <1>5, <1>6

(* No step of a run brings an unverified wheel in. *)
LEMMA CleanStep ==
  ASSUME UpgradeTypeOK, Solo, Clean, NEW r \in Runs, Upgrade(r) PROVE Clean'
<1> USE DEF sideVars, backupVars, wheelVars, runVars, Moves, Upgrade, BeginRun, GiveUp, Build,
            CopyWheel, VerifyWheel, ClearBackup, BackUp, WriteManifest, Rehash, Install, Finish,
            Fail, LoadManifest, ManifestUnread, Stage, AllStaged, SetAside, PutInPlace, PutBack,
            PutBackFails, RollbackFails, Sweep
<1>0. /\ disk \in [Entry -> Version] /\ parked \in [Entry -> Version]
      /\ staged \in [Entry -> Version] /\ backup \in [Entry -> Version]
      /\ step \in [Runs -> Phases] /\ todo \in [Runs -> SUBSET Entry]
      /\ Absent # Bad /\ Good # Bad
  BY UpParts, UpgradeAssumption
<1>1. step[r] = "install" => private = Good
  BY DEF Clean
<1>2. \A e \in Entry : disk'[e] # Bad
  BY <1>0, <1>1 DEF Clean
<1>3. \A e \in Entry : parked'[e] # Bad
  BY <1>0 DEF Clean
<1>4. \A e \in Entry : staged'[e] # Bad
  BY <1>0 DEF Clean
<1>5. \A e \in Entry : backup'[e] # Bad
  BY <1>0 DEF Clean, Empty
<1>6. ASSUME NEW q \in Runs, step'[q] \in {"clear", "back", "rehash", "install"} PROVE private' = Good
  <2>1. q = r
    BY <1>6, SoloStep
  <2>2. step'[r] \in {"clear", "back", "rehash", "install"}
    BY <1>6, <2>1
  <2>3. private' = private
    BY <2>2, <1>0
  <2> QED BY <2>2, <2>3, <1>0 DEF Clean
<1> QED BY <1>2, <1>3, <1>4, <1>5, <1>6 DEF Clean

(* The entries a run found in its venv, which a rollback gives back. *)
Kept(r) == {e \in Entry : e[1] = target[r] /\ found[r][e] # Absent}

(* An entry is staged to be swapped in, or is back in place. *)
Placed(r, e) == staged[e] = found[r][e] \/ (staged[e] = Absent /\ disk[e] = found[r][e])

(* Until pip runs the disk is as found, and the copies made are true. *)
Before(r) ==
  /\ step[r] \in {"cited", "built", "copied", "clear", "back", "rehash"} => disk = found[r]
  /\ step[r] = "back" => /\ manifest = {}
                         /\ \A e \in Kept(r) \ todo[r] : backup[e] = found[r][e]
  /\ step[r] = "rollback" /\ manifest = {} => disk = found[r]

(* The manifest names what was found, and every copy is true. *)
Saved(r) ==
  \/ step[r] \in {"rehash", "install", "stage", "swap", "put"}
  \/ step[r] = "rollback" /\ manifest # {}
  => manifest = Kept(r) /\ \A e \in Kept(r) : backup[e] = found[r][e]

(* What a rollback has staged and put back is what was found. *)
Back(r) ==
  /\ step[r] = "stage" => \A e \in Kept(r) \ todo[r] : staged[e] = found[r][e]
  /\ step[r] = "swap" => /\ todo[r] \subseteq Kept(r)
                         /\ \A e \in todo[r] : staged[e] = found[r][e]
                         /\ \A e \in Kept(r) \ todo[r] : disk[e] = found[r][e]
                         /\ \A e \in Kept(r) : Placed(r, e)
  /\ step[r] = "put" => \E e \in Kept(r) : /\ todo[r] = {e} /\ staged[e] = found[r][e]
                                           /\ \A d \in Kept(r) \ {e} : Placed(r, d)

(* Other venvs are as found, and an entry both releases have is never
   empty but while it is mid-swap, with the live one beside it. *)
Around(r) ==
  /\ step[r] = "install" => \A e \in todo[r] : e[1] = target[r]
  /\ step[r] = "put" => \A e \in todo[r] : e[2] \in Shipped => parked[e] # Absent
  /\ r \in Active =>
       /\ \A e \in Entry : e[1] # target[r] => disk[e] = found[r][e]
       /\ \A e \in Kept(r) : e[2] \in Shipped => disk[e] # Absent \/ (step[r] = "put" /\ e \in todo[r])

(* What a run has to keep so that it can be rolled back, if it found the
   package in its venv. *)
Restorable(r) == Kept(r) # {} => Before(r) /\ Saved(r) /\ Back(r) /\ Around(r)

(* Every step of a run keeps what its rollback needs. *)
LEMMA RestorableStep ==
  ASSUME UpgradeTypeOK, Solo, Clean, NEW r \in Runs, Restorable(r), Upgrade(r) PROVE Restorable(r)'
<1> USE DEF sideVars, backupVars, wheelVars, runVars, Moves
<1>0. /\ disk \in [Entry -> Version] /\ parked \in [Entry -> Version]
      /\ staged \in [Entry -> Version] /\ backup \in [Entry -> Version]
      /\ step \in [Runs -> Phases] /\ todo \in [Runs -> SUBSET Entry] /\ manifest \subseteq Entry
      /\ target \in [Runs -> Venvs] /\ found \in [Runs -> [Entry -> Version]]
      /\ Absent # Good
  BY UpParts, UpgradeAssumption
<1>r. step'[r] \in Resting => Restorable(r)'
  BY DEF Restorable, Before, Saved, Back, Around, Active, Resting
<1>1. CASE BeginRun(r)
  <2> USE <1>1 DEF BeginRun
  <2>1. step'[r] = "cited" /\ disk' = disk /\ found'[r] = disk /\ target' = target
    BY <1>0
  <2>2. Before(r)' /\ Saved(r)' /\ Back(r)'
    BY <2>1 DEF Before, Saved, Back
  <2>3. Around(r)'
    BY <2>1, <1>0 DEF Around, Kept
  <2> QED BY <2>2, <2>3 DEF Restorable
<1>2. CASE GiveUp(r) \/ Finish(r) \/ ManifestUnread(r) \/ PutBack(r) \/ PutBackFails(r)
           \/ RollbackFails(r) \/ Sweep(r)
  BY <1>2, <1>r, <1>0 DEF GiveUp, Finish, ManifestUnread, PutBack, PutBackFails, RollbackFails, Sweep, Resting
<1>k. CASE \/ Build(r) \/ CopyWheel(r) \/ VerifyWheel(r) \/ ClearBackup(r) \/ BackUp(r)
           \/ WriteManifest(r) \/ Rehash(r) \/ Install(r) \/ Fail(r) \/ LoadManifest(r)
           \/ Stage(r) \/ AllStaged(r) \/ SetAside(r) \/ PutInPlace(r)
  <2>k. target' = target /\ found' = found
    BY <1>k DEF Build, CopyWheel, VerifyWheel, ClearBackup, BackUp, WriteManifest,
         Rehash, Install, Fail, LoadManifest, Stage, AllStaged, SetAside, PutInPlace
  <2>0. Kept(r)' = Kept(r)
    BY <2>k DEF Kept
  <2> SUFFICES ASSUME Kept(r) # {} PROVE Before(r)' /\ Saved(r)' /\ Back(r)' /\ Around(r)'
    BY <2>0 DEF Restorable
  <2>1. Before(r) /\ Saved(r) /\ Back(r) /\ Around(r)
    BY DEF Restorable
  <2>h. disk = found[r] => Has(target[r]) = Kept(r)
    BY DEF Has, Kept
  <2>3. CASE Build(r)
    <3> USE <2>3 DEF Build
    <3>1. Before(r)'
      BY <2>k, <2>0, <2>1, <2>h, <1>0 DEF Before, Saved
    <3>2. Saved(r)'
      BY <2>k, <2>0, <2>1, <2>h, <1>0 DEF Before, Saved
    <3>3. Back(r)'
      BY <2>k, <2>0, <2>1, <2>h, <1>0 DEF Back, Placed, Saved
    <3>4. Around(r)'
      BY <2>k, <2>0, <2>1, <2>h, <1>0 DEF Around, Active, Back, Saved, Before
    <3> QED BY <3>1, <3>2, <3>3, <3>4
  <2>4. CASE CopyWheel(r)
    <3> USE <2>4 DEF CopyWheel
    <3>1. Before(r)'
      BY <2>k, <2>0, <2>1, <2>h, <1>0 DEF Before, Saved
    <3>2. Saved(r)'
      BY <2>k, <2>0, <2>1, <2>h, <1>0 DEF Before, Saved
    <3>3. Back(r)'
      BY <2>k, <2>0, <2>1, <2>h, <1>0 DEF Back, Placed, Saved
    <3>4. Around(r)'
      BY <2>k, <2>0, <2>1, <2>h, <1>0 DEF Around, Active, Back, Saved, Before
    <3> QED BY <3>1, <3>2, <3>3, <3>4
  <2>5. CASE VerifyWheel(r)
    <3> USE <2>5 DEF VerifyWheel
    <3>1. Before(r)'
      BY <2>k, <2>0, <2>1, <2>h, <1>0 DEF Before, Saved
    <3>2. Saved(r)'
      BY <2>k, <2>0, <2>1, <2>h, <1>0 DEF Before, Saved
    <3>3. Back(r)'
      BY <2>k, <2>0, <2>1, <2>h, <1>0 DEF Back, Placed, Saved
    <3>4. Around(r)'
      BY <2>k, <2>0, <2>1, <2>h, <1>0 DEF Around, Active, Back, Saved, Before
    <3> QED BY <3>1, <3>2, <3>3, <3>4
  <2>6. CASE ClearBackup(r)
    <3> USE <2>6 DEF ClearBackup
    <3>1. Before(r)'
      <4>1. disk = found[r] /\ step'[r] = "back" /\ todo'[r] = Has(target[r])
        BY <1>0, <2>1 DEF Before
      <4>2. todo'[r] = Kept(r) /\ disk' = found'[r] /\ manifest' = {}
        BY <4>1, <2>h, <2>k DEF NoManifest
      <4> QED BY <4>1, <4>2, <2>0 DEF Before
    <3>2. Saved(r)'
      BY <2>k, <2>0, <2>1, <2>h, <1>0 DEF Before, Saved
    <3>3. Back(r)'
      BY <2>k, <2>0, <2>1, <2>h, <1>0 DEF Back, Placed, Saved
    <3>4. Around(r)'
      BY <2>k, <2>0, <2>1, <2>h, <1>0 DEF Around, Active, Back, Saved, Before
    <3> QED BY <3>1, <3>2, <3>3, <3>4
  <2>7. CASE BackUp(r)
    <3> USE <2>7 DEF BackUp
    <3>1. Before(r)'
      BY <2>k, <2>0, <2>1, <2>h, <1>0 DEF Before, Saved
    <3>2. Saved(r)'
      BY <2>k, <2>0, <2>1, <2>h, <1>0 DEF Before, Saved
    <3>3. Back(r)'
      BY <2>k, <2>0, <2>1, <2>h, <1>0 DEF Back, Placed, Saved
    <3>4. Around(r)'
      BY <2>k, <2>0, <2>1, <2>h, <1>0 DEF Around, Active, Back, Saved, Before
    <3> QED BY <3>1, <3>2, <3>3, <3>4
  <2>8. CASE WriteManifest(r)
    <3> USE <2>8 DEF WriteManifest
    <3>1. Before(r)'
      BY <2>k, <2>0, <2>1, <2>h, <1>0 DEF Before, Saved
    <3>2. Saved(r)'
      BY <2>k, <2>0, <2>1, <2>h, <1>0 DEF Before, Saved
    <3>3. Back(r)'
      BY <2>k, <2>0, <2>1, <2>h, <1>0 DEF Back, Placed, Saved
    <3>4. Around(r)'
      BY <2>k, <2>0, <2>1, <2>h, <1>0 DEF Around, Active, Back, Saved, Before
    <3> QED BY <3>1, <3>2, <3>3, <3>4
  <2>9. CASE Rehash(r)
    <3> USE <2>9 DEF Rehash
    <3>1. Before(r)'
      BY <2>k, <2>0, <2>1, <2>h, <1>0 DEF Before, Saved
    <3>2. Saved(r)'
      BY <2>k, <2>0, <2>1, <2>h, <1>0 DEF Before, Saved
    <3>3. Back(r)'
      BY <2>k, <2>0, <2>1, <2>h, <1>0 DEF Back, Placed, Saved
    <3>4. Around(r)'
      BY <2>k, <2>0, <2>1, <2>h, <1>0 DEF Around, Active, Back, Saved, Before
    <3> QED BY <3>1, <3>2, <3>3, <3>4
  <2>10. CASE Install(r)
    <3> USE <2>10 DEF Install
    <3>1. Before(r)'
      BY <2>k, <2>0, <2>1, <2>h, <1>0 DEF Before, Saved
    <3>2. Saved(r)'
      BY <2>k, <2>0, <2>1, <2>h, <1>0 DEF Before, Saved
    <3>3. Back(r)'
      BY <2>k, <2>0, <2>1, <2>h, <1>0 DEF Back, Placed, Saved
    <3>4. Around(r)'
      <4>1. PICK e \in todo[r] : /\ disk' = [disk EXCEPT ![e] = IF e[2] \in Shipped THEN private ELSE Absent]
                                 /\ todo' = [todo EXCEPT ![r] = todo[r] \ {e}]
        OBVIOUS
      <4>2. step[r] = "install" /\ step'[r] = "install" /\ private = Good /\ r \in Active
        BY DEF Clean, Active
      <4>3. e[1] = target[r] /\ e \in Entry /\ todo'[r] \subseteq todo[r]
        BY <4>1, <4>2, <2>1, <1>0 DEF Around
      <4>4. \A d \in Entry : d # e => disk'[d] = disk[d]
        BY <4>1, <1>0
      <4>5. e[2] \in Shipped => disk'[e] # Absent
        BY <4>1, <4>2, <4>3, <1>0
      <4>6. \A d \in todo'[r] : d[1] = target'[r]
        BY <4>2, <4>3, <2>1, <2>k DEF Around
      <4>7. \A d \in Entry : d[1] # target'[r] => disk'[d] = found'[r][d]
        BY <4>2, <4>3, <4>4, <2>1, <2>k DEF Around
      <4>8. \A d \in Kept(r) : d[2] \in Shipped => disk'[d] # Absent
        <5> TAKE d \in Kept(r)
        <5>1. d \in Entry
          BY DEF Kept
        <5>2. d[2] \in Shipped => disk[d] # Absent
          BY <4>2, <2>1 DEF Around
        <5> QED BY <5>1, <5>2, <4>4, <4>5
      <4> QED BY <4>2, <4>6, <4>7, <4>8, <2>0 DEF Around
    <3> QED BY <3>1, <3>2, <3>3, <3>4
  <2>11. CASE Fail(r)
    <3> USE <2>11 DEF Fail
    <3>1. Before(r)'
      BY <2>k, <2>0, <2>1, <2>h, <1>0 DEF Before, Saved
    <3>2. Saved(r)'
      BY <2>k, <2>0, <2>1, <2>h, <1>0 DEF Before, Saved
    <3>3. Back(r)'
      BY <2>k, <2>0, <2>1, <2>h, <1>0 DEF Back, Placed, Saved
    <3>4. Around(r)'
      BY <2>k, <2>0, <2>1, <2>h, <1>0 DEF Around, Active, Back, Saved, Before
    <3> QED BY <3>1, <3>2, <3>3, <3>4
  <2>12. CASE LoadManifest(r)
    <3> USE <2>12 DEF LoadManifest
    <3>1. Before(r)'
      BY <2>k, <2>0, <2>1, <2>h, <1>0 DEF Before, Saved
    <3>2. Saved(r)'
      <4>1. CASE manifest = {}
        BY <4>1, <1>0 DEF Saved, NoManifest
      <4>2. CASE manifest # {}
        BY <4>2, <2>0, <2>1, <2>k, <1>0 DEF Saved, NoManifest
      <4> QED BY <4>1, <4>2
    <3>3. Back(r)'
      <4>1. CASE manifest = {}
        BY <4>1, <1>0 DEF Back, NoManifest
      <4>2. CASE manifest # {}
        <5>1. manifest = Kept(r) /\ \A e \in Kept(r) : backup[e] = found[r][e]
          BY <4>2, <2>1 DEF Saved
        <5>2. \A e \in Kept(r) : backup[e] # Absent
          BY <5>1 DEF Kept
        <5>3. todo'[r] = Kept(r) /\ step'[r] = "stage"
          BY <5>1, <5>2, <4>2, <1>0 DEF NoManifest
        <5> QED BY <5>3, <2>0 DEF Back
      <4> QED BY <4>1, <4>2
    <3>4. Around(r)'
      BY <2>k, <2>0, <2>1, <2>h, <1>0 DEF Around, Active, Back, Saved, Before
    <3> QED BY <3>1, <3>2, <3>3, <3>4
  <2>13. CASE Stage(r)
    <3> USE <2>13 DEF Stage
    <3>1. Before(r)'
      BY <2>k, <2>0, <2>1, <2>h, <1>0 DEF Before, Saved
    <3>2. Saved(r)'
      BY <2>k, <2>0, <2>1, <2>h, <1>0 DEF Before, Saved
    <3>3. Back(r)'
      BY <2>k, <2>0, <2>1, <2>h, <1>0 DEF Back, Placed, Saved
    <3>4. Around(r)'
      BY <2>k, <2>0, <2>1, <2>h, <1>0 DEF Around, Active, Back, Saved, Before
    <3> QED BY <3>1, <3>2, <3>3, <3>4
  <2>14. CASE AllStaged(r)
    <3> USE <2>14 DEF AllStaged
    <3>1. Before(r)'
      BY <2>k, <2>0, <2>1, <2>h, <1>0 DEF Before, Saved
    <3>2. Saved(r)'
      BY <2>k, <2>0, <2>1, <2>h, <1>0 DEF Before, Saved
    <3>3. Back(r)'
      <4>1. /\ manifest = Kept(r) /\ \A e \in Kept(r) : backup[e] = found[r][e]
            /\ \A e \in Kept(r) : staged[e] = found[r][e]
        BY <2>1 DEF Saved, Back
      <4>2. \A e \in Kept(r) : backup[e] # Absent
        BY <4>1 DEF Kept
      <4>3. todo'[r] = Kept(r) /\ step'[r] = "swap"
        BY <4>1, <4>2, <1>0
      <4> QED BY <4>1, <4>3, <2>0, <2>k DEF Back, Placed
    <3>4. Around(r)'
      BY <2>k, <2>0, <2>1, <2>h, <1>0 DEF Around, Active, Back, Saved, Before
    <3> QED BY <3>1, <3>2, <3>3, <3>4
  <2>15. CASE SetAside(r)
    <3> USE <2>15 DEF SetAside
    <3>1. Before(r)'
      BY <2>k, <2>0, <2>1, <2>h, <1>0 DEF Before, Saved
    <3>2. Saved(r)'
      BY <2>k, <2>0, <2>1, <2>h, <1>0 DEF Before, Saved
    <3>3. Back(r)'
      BY <2>k, <2>0, <2>1, <2>h, <1>0 DEF Back, Placed, Saved
    <3>4. Around(r)'
      <4>1. PICK e \in todo[r] : /\ parked' = [parked EXCEPT ![e] = disk[e]]
                                 /\ disk' = [disk EXCEPT ![e] = Absent]
                                 /\ todo' = [todo EXCEPT ![r] = {e}]
        OBVIOUS
      <4>2. step[r] = "swap" /\ step'[r] = "put" /\ r \in Active /\ todo'[r] = {e}
        BY <4>1, <1>0 DEF Active
      <4>3. e \in Kept(r)
        BY <4>2, <2>1 DEF Back
      <4>4. e \in Entry /\ e[1] = target[r] /\ (e[2] \in Shipped => disk[e] # Absent)
        BY <4>2, <4>3, <2>1 DEF Around, Kept
      <4>5. \A d \in Entry : d # e => disk'[d] = disk[d]
        BY <4>1, <1>0
      <4>6. parked'[e] = disk[e]
        BY <4>1, <4>4, <1>0
      <4>7. \A d \in Entry : d[1] # target'[r] => disk'[d] = found'[r][d]
        BY <4>2, <4>4, <4>5, <2>1, <2>k DEF Around
      <4>8. \A d \in Kept(r) : d[2] \in Shipped => disk'[d] # Absent \/ d \in todo'[r]
        <5> TAKE d \in Kept(r)
        <5>1. d \in Entry
          BY DEF Kept
        <5>2. d[2] \in Shipped => disk[d] # Absent
          BY <4>2, <2>1 DEF Around
        <5> QED BY <5>1, <5>2, <4>2, <4>5
      <4> QED BY <4>2, <4>4, <4>6, <4>7, <4>8, <2>0 DEF Around
    <3> QED BY <3>1, <3>2, <3>3, <3>4
  <2>16. CASE PutInPlace(r)
    <3> USE <2>16 DEF PutInPlace
    <3>p. PICK e \in todo[r] : /\ disk' = [disk EXCEPT ![e] = staged[e]]
                               /\ staged' = [staged EXCEPT ![e] = Absent]
                               /\ parked' = [parked EXCEPT ![e] = Absent]
                               /\ todo' = [todo EXCEPT ![r] = {d \in manifest : staged'[d] # Absent}]
      OBVIOUS
    <3>m. manifest = Kept(r)
      BY <2>1 DEF Saved
    <3>e. /\ e \in Kept(r) /\ todo[r] = {e} /\ staged'[e] = Absent /\ disk'[e] = found[r][e]
          /\ \A d \in Kept(r) \ {e} : Placed(r, d)
      <4>1. e \in Kept(r) /\ todo[r] = {e} /\ staged[e] = found[r][e] /\ \A d \in Kept(r) \ {e} : Placed(r, d)
        BY <2>1 DEF Back
      <4> QED BY <4>1, <3>p, <1>0 DEF Kept
    <3>1. Before(r)'
      BY <2>k, <2>0, <2>1, <2>h, <1>0 DEF Before, Saved
    <3>2. Saved(r)'
      BY <2>k, <2>0, <2>1, <2>h, <1>0 DEF Before, Saved
    <3>3. Back(r)'
      <4>3. todo'[r] = {d \in Kept(r) : staged'[d] # Absent} /\ step'[r] = "swap"
        BY <3>m, <3>p, <1>0
      <4>4. \A d \in Kept(r) : Placed(r, d)'
        <5> TAKE d \in Kept(r)
        <5>1. CASE d = e
          BY <5>1, <3>e, <2>k DEF Placed
        <5>2. CASE d # e
          <6>1. d \in Entry /\ Placed(r, d)
            BY <5>2, <3>e DEF Kept
          <6>2. disk'[d] = disk[d] /\ staged'[d] = staged[d]
            BY <5>2, <6>1, <3>p, <1>0
          <6> QED BY <6>1, <6>2, <2>k DEF Placed
        <5> QED BY <5>1, <5>2
      <4>5. \A d \in Kept(r) : found[r][d] # Absent
        BY DEF Kept
      <4> QED BY <4>3, <4>4, <4>5, <2>0, <2>k DEF Back, Placed
    <3>4. Around(r)'
      <4>1. step[r] = "put" /\ step'[r] = "swap" /\ r \in Active /\ r \in Active'
        BY <1>0 DEF Active
      <4>2. e[1] = target[r] /\ e \in Entry /\ disk'[e] # Absent
        BY <3>e DEF Kept
      <4>3. \A d \in Entry : d # e => disk'[d] = disk[d]
        BY <3>p, <1>0
      <4>4. \A d \in Entry : d[1] # target'[r] => disk'[d] = found'[r][d]
        BY <4>1, <4>2, <4>3, <2>1, <2>k DEF Around
      <4>5. \A d \in Kept(r) : d[2] \in Shipped => disk'[d] # Absent
        <5> TAKE d \in Kept(r)
        <5>1. d \in Entry
          BY DEF Kept
        <5>2. d # e /\ d[2] \in Shipped => disk[d] # Absent
          BY <4>1, <3>e, <2>1 DEF Around
        <5> QED BY <5>1, <5>2, <4>2, <4>3
      <4> QED BY <4>1, <4>4, <4>5, <2>0 DEF Around
    <3> QED BY <3>1, <3>2, <3>3, <3>4
  <2> QED BY <2>3, <2>4, <2>5, <2>6, <2>7, <2>8, <2>9, <2>10, <2>11, <2>12, <2>13, <2>14, <2>15, <2>16, <1>k
<1> QED BY <1>1, <1>2, <1>k DEF Upgrade

(* The inductive invariant.                                                *)
UpgradeInductive ==
  UpgradeTypeOK /\ Solo /\ Clean /\ \A r \in Runs : Restorable(r)

(* A run at rest has nothing to keep.                                      *)
LEMMA RestNeedsNothing ==
  ASSUME NEW r \in Runs, step[r] \in Resting PROVE Restorable(r)
  BY DEF Restorable, Before, Saved, Back, Around, Active, Resting

(* Every step of a run keeps the invariant.                                *)
LEMMA RunInductive ==
  ASSUME UpgradeInductive, NEW r \in Runs, Upgrade(r) PROVE UpgradeInductive'
<1>1. UpgradeTypeOK /\ Solo /\ Clean /\ \A q \in Runs : Restorable(q)
  BY DEF UpgradeInductive
<1>2. UpgradeTypeOK' /\ Solo' /\ Clean'
  BY <1>1, RunType, SoloStep, CleanStep
<1>3. ASSUME NEW q \in Runs PROVE Restorable(q)'
  <2>1. CASE q = r
    BY <2>1, <1>1, RestorableStep
  <2>2. CASE q # r
    <3>1. step'[q] \in Resting
      BY <2>2, <1>1, SoloStep DEF Resting
    <3> QED BY <3>1 DEF Restorable, Before, Saved, Back, Around, Active, Resting
  <2> QED BY <2>1, <2>2
<1> QED BY <1>2, <1>3 DEF UpgradeInductive

(* The death of the broker keeps the invariant.                            *)
LEMMA DeathInductive ==
  ASSUME UpgradeInductive, NEW r \in Runs, BrokerDies(r) PROVE UpgradeInductive'
<1>1. UpgradeTypeOK /\ Solo /\ Clean /\ \A q \in Runs : Restorable(q)
  BY DEF UpgradeInductive
<1>2. step' = [step EXCEPT ![r] = "dead"] /\ step \in [Runs -> Phases]
  BY <1>1, UpParts DEF BrokerDies
<1>3. /\ UNCHANGED <<disk, parked, staged, backup, manifest, output, private, todo, target,
                     digest, found, slips>>
      /\ crashes' \in 0..MaxCrashes
  BY <1>1, UpParts, UpgradeAssumption DEF BrokerDies, sideVars, backupVars, wheelVars, runVars
<1>4. UpgradeTypeOK'
  <2>1. step' \in [Runs -> Phases]
    BY <1>2 DEF Phases
  <2> QED BY <2>1, <1>1, <1>3 DEF UpgradeTypeOK, Phases
<1>5. Solo'
  BY <1>1, SoloStep
<1>6. Clean'
  BY <1>1, <1>2, <1>3 DEF Clean
<1>7. ASSUME NEW q \in Runs PROVE Restorable(q)'
  <2>1. step'[q] \in Resting
    BY <1>1, <1>2, SoloStep DEF Resting
  <2> QED BY <2>1 DEF Restorable, Before, Saved, Back, Around, Active, Resting
<1> QED BY <1>4, <1>5, <1>6, <1>7 DEF UpgradeInductive

(* A write into the tree of the build keeps the invariant.                 *)
LEMMA KartInductive ==
  ASSUME UpgradeInductive, KartWrites PROVE UpgradeInductive'
<1>1. /\ UNCHANGED <<disk, parked, staged, backup, manifest, private, step, todo, target,
                     digest, found, slips, crashes>>
      /\ output' \in Wheel
  BY DEF KartWrites, sideVars, backupVars, runVars, Wheel
<1>2. UpgradeTypeOK' /\ Solo' /\ Clean'
  BY <1>1 DEF UpgradeInductive, UpgradeTypeOK, Solo, Active, Clean
<1>3. \A q \in Runs : Restorable(q)'
  BY <1>1 DEF UpgradeInductive, Restorable, Kept, Before, Saved, Back, Placed, Around, Active
<1> QED BY <1>2, <1>3 DEF UpgradeInductive

(* A step that changes nothing keeps the invariant.                        *)
LEMMA StutterInductive ==
  ASSUME UpgradeInductive, UNCHANGED upgradeVars PROVE UpgradeInductive'
<1>1. UNCHANGED <<disk, parked, staged, backup, manifest, output, private, step, todo, target,
                  digest, found, slips, crashes>>
  BY DEF upgradeVars, sideVars, backupVars, wheelVars, runVars
<1>2. UpgradeTypeOK' /\ Solo' /\ Clean'
  BY <1>1 DEF UpgradeInductive, UpgradeTypeOK, Solo, Active, Clean
<1>3. \A q \in Runs : Restorable(q)'
  BY <1>1 DEF UpgradeInductive, Restorable, Kept, Before, Saved, Back, Placed, Around, Active
<1> QED BY <1>2, <1>3 DEF UpgradeInductive

(* The inductive invariant holds in every reachable state: each run of     *)
(* execute_package_upgrade can be rolled back from where it is.            *)
THEOREM UpgradeInductiveCorrect == UpgradeSpec => []UpgradeInductive
<1>1. UpgradeInit => UpgradeInductive
  <2>1. UpgradeInit => \A r \in Runs : step[r] \in Resting
    BY DEF UpgradeInit, Resting
  <2> QED BY <2>1, CleanInit, RestNeedsNothing DEF UpgradeInductive
<1>2. UpgradeInductive /\ [UpgradeNext]_upgradeVars => UpgradeInductive'
  BY RunInductive, DeathInductive, KartInductive, StutterInductive DEF UpgradeNext
<1> QED BY <1>1, <1>2, PTL DEF UpgradeSpec

(* Every variable keeps its type.                                          *)
THEOREM UpgradeTypeCorrect == UpgradeSpec => []UpgradeTypeOK
<1>1. UpgradeInductive => UpgradeTypeOK
  BY DEF UpgradeInductive
<1> QED BY <1>1, UpgradeInductiveCorrect, PTL

(* Whatever Kart writes into the tree it built in, and whenever, no venv   *)
(* ever holds a release that is not the tag's source.                      *)
THEOREM OnlyVerifiedInstalled == UpgradeSpec => []InstalledIsVerified
<1>1. UpgradeInductive => InstalledIsVerified
  BY DEF UpgradeInductive, Clean, InstalledIsVerified
<1> QED BY <1>1, UpgradeInductiveCorrect, PTL

(* A step that ends a run as failed leaves the disk as the run found it.   *)
LEMMA FailureRestores ==
  ASSUME UpgradeInductive, NEW r \in Runs, Upgrade(r), step[r] # "failed", step'[r] = "failed",
         slips' = slips, Kept(r) # {}
  PROVE  disk' = found[r]
<1>0. /\ disk \in [Entry -> Version] /\ step \in [Runs -> Phases]
      /\ found \in [Runs -> [Entry -> Version]] /\ slips \in Nat
  BY UpParts, UpgradeAssumption DEF UpgradeInductive
<1>1. Before(r) /\ Saved(r) /\ Back(r) /\ Around(r)
  BY DEF UpgradeInductive, Restorable
<1> USE DEF Moves
<1>2. GiveUp(r) \/ LoadManifest(r) \/ ManifestUnread(r) \/ Sweep(r)
  BY <1>0 DEF Upgrade, BeginRun, Build, CopyWheel, VerifyWheel, ClearBackup, BackUp,
     WriteManifest, Rehash, Install, Finish, Fail, Stage, AllStaged, SetAside, PutInPlace,
     PutBack, PutBackFails, RollbackFails
<1>3. CASE GiveUp(r)
  BY <1>1, <1>3 DEF GiveUp, Before
<1>4. CASE LoadManifest(r)
  BY <1>0, <1>1, <1>4 DEF LoadManifest, Before, NoManifest
<1>5. CASE ManifestUnread(r)
  BY <1>0, <1>5 DEF ManifestUnread, Slip
<1>6. CASE Sweep(r)
  <2>1. /\ step[r] = "swap" /\ todo[r] = {} /\ r \in Active
        /\ disk' = [e \in Entry |-> IF e \in Has(target[r]) \ manifest THEN Absent ELSE disk[e]]
    BY <1>0, <1>6 DEF Sweep, Slip, Active
  <2>2. manifest = Kept(r) /\ \A e \in Kept(r) : disk[e] = found[r][e]
    BY <2>1, <1>1 DEF Saved, Back
  <2>3. ASSUME NEW e \in Entry PROVE disk'[e] = found[r][e]
    <3>1. CASE e[1] # target[r]
      BY <3>1, <2>1, <1>1 DEF Around, Has
    <3>2. CASE e \in Kept(r)
      BY <3>2, <2>1, <2>2
    <3>3. CASE e[1] = target[r] /\ e \notin Kept(r)
      BY <3>3, <2>1, <2>2 DEF Has, Kept
    <3> QED BY <3>1, <3>2, <3>3
  <2> QED BY <2>1, <2>3, <1>0
<1> QED BY <1>2, <1>3, <1>4, <1>5, <1>6

(* A run that fails, and whose rollback does not, leaves every venv as it  *)
(* found it, if the package was there to be backed up.                     *)
THEOREM RollbackRestores == UpgradeSpec => UpgradeRestores
<1>1. ASSUME UpgradeInductive, [UpgradeNext]_upgradeVars, NEW r \in Runs,
             step[r] # "failed", step'[r] = "failed", slips' = slips,
             NEW p \in Paths, found[r][<<target[r], p>>] # Absent
      PROVE  disk' = found[r]
  <2>1. UpgradeTypeOK /\ Solo
    BY <1>1 DEF UpgradeInductive
  <2>2. Upgrade(r)
    <3>1. PICK q \in Runs : Upgrade(q) \/ BrokerDies(q)
      BY <1>1 DEF UpgradeNext, KartWrites, upgradeVars
    <3>2. q = r
      BY <3>1, <1>1, <2>1, SoloStep
    <3>3. ~BrokerDies(r)
      BY <1>1, <2>1, UpParts DEF BrokerDies
    <3> QED BY <3>1, <3>2, <3>3
  <2>3. Kept(r) # {}
    <3>1. <<target[r], p>> \in Kept(r)
      BY <1>1, <2>1, UpParts DEF Kept, Entry
    <3> QED BY <3>1
  <2> QED BY <1>1, <2>2, <2>3, FailureRestores
<1>2. UpgradeInductive /\ [UpgradeNext]_upgradeVars =>
        [\A r \in Runs : /\ step[r] # "failed" /\ step'[r] = "failed" /\ slips' = slips
                         /\ \E p \in Paths : found[r][<<target[r], p>>] # Absent
                         => disk' = found[r]]_upgradeVars
  BY <1>1
<1> QED BY <1>2, UpgradeInductiveCorrect, PTL DEF UpgradeSpec, UpgradeRestores

(* A rollback that fails, with its put-back done, empties no entry that    *)
(* both releases have.                                                     *)
LEMMA BrokenRollback ==
  ASSUME UpgradeInductive, NEW r \in Runs, Upgrade(r), step[r] # "EROLLBACK",
         step'[r] = "EROLLBACK", slips' <= slips + 1,
         NEW e \in Kept(r), e[2] \in Shipped
  PROVE  disk'[e] # Absent
<1>0. /\ disk \in [Entry -> Version] /\ step \in [Runs -> Phases]
      /\ slips \in Nat /\ e \in Entry
  BY UpParts, UpgradeAssumption DEF UpgradeInductive, Kept
<1>1. Around(r) /\ Back(r)
  BY DEF UpgradeInductive, Restorable
<1> USE DEF Moves
<1>2. PutBack(r) \/ PutBackFails(r) \/ RollbackFails(r)
  BY <1>0 DEF Upgrade, BeginRun, GiveUp, Build, CopyWheel, VerifyWheel, ClearBackup, BackUp,
     WriteManifest, Rehash, Install, Finish, Fail, LoadManifest, ManifestUnread, Stage,
     AllStaged, SetAside, PutInPlace, Sweep
<1>3. CASE PutBack(r)
  <2>1. PICK d \in todo[r] : disk' = [disk EXCEPT ![d] = parked[d]]
    BY <1>3 DEF PutBack
  <2>2. step[r] = "put" /\ r \in Active
    BY <1>3 DEF PutBack, Active
  <2>3. d[2] \in Shipped => parked[d] # Absent
    BY <2>1, <2>2, <1>1 DEF Around
  <2>4. e = d \/ disk[e] # Absent
    <3>1. todo[r] = {d}
      BY <2>1, <2>2, <1>1 DEF Back
    <3> QED BY <3>1, <2>2, <1>1 DEF Around
  <2> QED BY <2>1, <2>3, <2>4, <1>0
<1>4. CASE PutBackFails(r)
  BY <1>0, <1>4 DEF PutBackFails, Slip
<1>5. CASE RollbackFails(r)
  BY <1>0, <1>1, <1>5 DEF RollbackFails, Around, Active
<1> QED BY <1>2, <1>3, <1>4, <1>5

(* A rollback that fails leaves the entries that both releases have, the   *)
(* one mid-swap included, unless its put-back fails as well.               *)
THEOREM RollbackLosesNothing == UpgradeSpec => NothingLost
<1>1. ASSUME UpgradeInductive, [UpgradeNext]_upgradeVars, NEW r \in Runs,
             step[r] # "EROLLBACK", step'[r] = "EROLLBACK", slips' <= slips + 1,
             NEW e \in Entry, e[1] = target[r], e[2] \in Shipped, found[r][e] # Absent
      PROVE  disk'[e] # Absent
  <2>1. UpgradeTypeOK /\ Solo
    BY <1>1 DEF UpgradeInductive
  <2>2. Upgrade(r)
    <3>1. PICK q \in Runs : Upgrade(q) \/ BrokerDies(q)
      BY <1>1 DEF UpgradeNext, KartWrites, upgradeVars
    <3>2. q = r
      BY <3>1, <1>1, <2>1, SoloStep
    <3>3. ~BrokerDies(r)
      BY <1>1, <2>1, UpParts DEF BrokerDies
    <3> QED BY <3>1, <3>2, <3>3
  <2>3. e \in Kept(r)
    BY <1>1 DEF Kept
  <2> QED BY <1>1, <2>2, <2>3, BrokenRollback
<1>2. UpgradeInductive /\ [UpgradeNext]_upgradeVars =>
        [\A r \in Runs :
           /\ step[r] # "EROLLBACK" /\ step'[r] = "EROLLBACK" /\ slips' <= slips + 1
           => \A e \in Entry : /\ e[1] = target[r] /\ e[2] \in Shipped
                               /\ found[r][e] # Absent
                               => disk'[e] # Absent]_upgradeVars
  BY <1>1
<1> QED BY <1>2, UpgradeInductiveCorrect, PTL DEF UpgradeSpec, NothingLost
=============================================================================
