----------------------------- MODULE PartsProofs -----------------------------
(***************************************************************************)
(* The parts side by side behave as each does alone, so that what is        *)
(* proved of a part holds of the composition, and what TLC finds in the     *)
(* composition is a behaviour of the part.                                  *)
(***************************************************************************)
EXTENDS MCParts, BudgetProofs, WritesProofs, BucketProofs, ReportsProofs

\* The parts start as they do alone, and a step of the composition is a step of
\* the part that runs and leaves the others alone.
THEOREM PartsAsAlone ==
  MCSpec => /\ Spec /\ SettingSpec /\ IamSpec /\ LifeSpec /\ LockSpec /\ SecretSpec
            /\ ScanSpec /\ GaugeSpec /\ CliSpec
<1>1. MCSpec => Spec
  <2>1. MCInit => Init
    BY DEF MCInit
  <2>2. [MCNext]_partVars => [Next]_vars
    BY DEF MCNext, OthersStand, Standing, partVars
  <2> QED
    BY <2>1, <2>2, PTL DEF MCSpec, Spec
<1>2. MCSpec => SettingSpec
  <2>1. MCInit => SettingInit
    BY DEF MCInit
  <2>2. [MCNext]_partVars => [SettingNext]_settingVars
    BY DEF MCNext, OthersStand, Standing, partVars
  <2> QED
    BY <2>1, <2>2, PTL DEF MCSpec, SettingSpec
<1>3. MCSpec => IamSpec
  <2>1. MCInit => IamInit
    BY DEF MCInit
  <2>2. [MCNext]_partVars => [IamNext]_iamVars
    BY DEF MCNext, OthersStand, Standing, partVars
  <2> QED
    BY <2>1, <2>2, PTL DEF MCSpec, IamSpec
<1>4. MCSpec => LifeSpec
  <2>1. MCInit => LifeInit
    BY DEF MCInit
  <2>2. [MCNext]_partVars => [LifeNext]_lifeVars
    BY DEF MCNext, OthersStand, Standing, partVars
  <2> QED
    BY <2>1, <2>2, PTL DEF MCSpec, LifeSpec
<1>5. MCSpec => LockSpec
  <2>1. MCInit => LockInit
    BY DEF MCInit
  <2>2. [MCNext]_partVars => [LockNext]_lockVars
    BY DEF MCNext, OthersStand, Standing, partVars
  <2> QED
    BY <2>1, <2>2, PTL DEF MCSpec, LockSpec
<1>6. MCSpec => SecretSpec
  <2>1. MCInit => SecretInit
    BY DEF MCInit
  <2>2. [MCNext]_partVars => [SecretNext]_secretVars
    BY DEF MCNext, OthersStand, Standing, partVars
  <2> QED
    BY <2>1, <2>2, PTL DEF MCSpec, SecretSpec
<1>7. MCSpec => ScanSpec
  <2>1. MCInit => ScanInit
    BY DEF MCInit
  <2>2. [MCNext]_partVars => [ScanNext]_scanVars
    BY DEF MCNext, OthersStand, Standing, partVars
  <2> QED
    BY <2>1, <2>2, PTL DEF MCSpec, ScanSpec
<1>8. MCSpec => GaugeSpec
  <2>1. MCInit => GaugeInit
    BY DEF MCInit
  <2>2. [MCNext]_partVars => [GaugeNext]_gaugeVars
    BY DEF MCNext, ChangesOnce, GaugeNext, OthersStand, Standing, partVars
  <2> QED
    BY <2>1, <2>2, PTL DEF MCSpec, GaugeSpec
<1>9. MCSpec => CliSpec
  <2>1. MCInit => CliInit
    BY DEF MCInit
  <2>2. [MCNext]_partVars => [CliNext]_cliVars
    BY DEF MCNext, OthersStand, Standing, partVars
  <2> QED
    BY <2>1, <2>2, PTL DEF MCSpec, CliSpec
<1> QED
  BY <1>1, <1>2, <1>3, <1>4, <1>5, <1>6, <1>7, <1>8, <1>9

\* Every part keeps its inductive invariant, the one that runs and those that
\* stand still.
THEOREM PartsInvariant == MCSpec => []PartsInv
<1>1. /\ BInv /\ BurstInv /\ SettingInv /\ IamInv /\ LifeInv /\ LockInv /\ SecretInv /\ ScanInv
      /\ GaugeInv /\ CliInv
      => PartsInv
  BY DEF PartsInv
<1> QED
  BY <1>1, PartsAsAlone, TrackerInvariant, BurstInvariant, SettingInvariant, IamInvariant,
     LifeInvariant, LockInvariant, SecretInvariant, ScanInvariant, GaugeInvariant, CliInvariant, PTL
=============================================================================
