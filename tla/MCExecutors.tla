---------------------------- MODULE MCExecutors ----------------------------
(* Small instances of Grants, PackageUpgrade and EnvelopeRegister.  What   *)
(* they do shares no state, so one run checks all three: a behaviour is    *)
(* one of one of them, and the others stay as they are.                    *)
EXTENDS Grants, PackageUpgrade, EnvelopeRegister

CONSTANTS p1, s1, s2, g1, c1, c2, v1, v2, code, info1, info2, r1, r2,
          e1, e2, b1, b2, oneshot

BothSeats == [p \in Pairs |-> <<s1, s2>>]
OneGroup == [p \in Pairs |-> <<g1>>]
NoneOrFirst == {[s \in Seats |-> IF s \in S THEN {g1} ELSE {}] : S \in {{}, {s1}}}
FirstVenv == [v \in Venvs |-> IF v = v1 THEN {code, info1} ELSE {}]

(* Any two calls may overlap.                                              *)
AnyTwo == {{op, other} : op, other \in DOMAIN Route}

VARIABLE verb

ExecutorsInit ==
  /\ GrantsInit /\ UpgradeInit /\ EnvelopesInit
  /\ verb \in {"manifest.grant", "package.upgrade", "envelope"}
  /\ verb # "manifest.grant" => held = [s \in Seats |-> {}]
  /\ verb # "package.upgrade" => target = [r \in Runs |-> v1]
  /\ verb # "envelope" => box = "single"

Granting == /\ verb = "manifest.grant" /\ GrantsNext
            /\ UNCHANGED <<upgradeVars, envelopeVars, verb>>
Upgrading == /\ verb = "package.upgrade" /\ UpgradeNext
             /\ UNCHANGED <<grantVars, envelopeVars, verb>>
Authoring == /\ verb = "envelope" /\ EnvelopesNext
             /\ UNCHANGED <<grantVars, upgradeVars, verb>>

ExecutorsSpec ==
  /\ ExecutorsInit
  /\ [][Granting \/ Upgrading \/ Authoring]_<<grantVars, upgradeVars, envelopeVars, verb>>
  /\ WF_grantVars(verb = "manifest.grant" /\ Apply)
=============================================================================
