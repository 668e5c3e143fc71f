------------------------------ MODULE MCParts ------------------------------
(* The parts of the system that share no state with one another, side by     *)
(* side: which of them runs is chosen once, and the others stand still.  The *)
(* state space is the sum of theirs, and each property is about one part.    *)
EXTENDS Budget, SettingWrites, IamUsers, BucketLife, ObjectLocks, SecretFile, Scans,
        Gauges, CliExit, TLC

CONSTANTS t1, t2, f1, u1, u2, w1, w2, e1, e2

VARIABLE part

partVars == <<part, vars, settingVars, iamVars, lifeVars, lockVars, secretVars,
              scanVars, gaugeVars, cliVars>>

PartNames == {"budget", "settings", "iam", "buckets", "locks", "secrets", "scans",
              "gauges", "cli"}

\* The worst there is of each kind, for the subjects after the first.
Worst(aim) ==
  [Clean EXCEPT !.lock = IF aim = "retention" THEN "no rule" ELSE "none",
                !.policy = IF aim = "exposure" THEN "public write" ELSE "private",
                !.size = IF aim = "lifecycle" THEN "large" ELSE "small",
                !.rules = IF aim = "lifecycle" THEN "none" ELSE "tidy",
                !.group = IF aim = "iam" THEN "admin" ELSE "none"]

\* Rules that a diagnosis does not tell from others: retention sees none outlive
\* the tidy ones, and for exposure any will do.
SameRules(aim) == CASE aim = "retention" -> {"none"} [] aim = "exposure" -> {"week"} [] OTHER -> {}

\* The first subject is anything, the others are the worst there is.
FewWorlds ==
  /\ scanAim \in {"retention", "exposure", "lifecycle", "iam"}
  /\ \E first \in {k \in Kind(scanAim) : k.rules \notin SameRules(scanAim)} :
       world = [x \in Subject |-> IF x = Subjects[1] THEN first ELSE Worst(scanAim)]

\* One gauge at most is missing.  Nothing heals yet, and of the erasure sets,
\* which are alike, the one that has more drives online is the same.
FewPlants ==
  /\ hidden \in {{}} \cup {{g} : g \in Gauge}
  /\ plant \in {p \in Plants : p.healing = 0 /\ p.online[e1] >= p.online[e2]}

\* A part that stands still starts in one of its initial states.
MCInit ==
  /\ part \in PartNames
  /\ IF part = "settings" THEN TRUE ELSE settingKind = "quota"
  /\ IF part = "iam" THEN TRUE ELSE own = FALSE
  /\ IF part = "buckets" THEN TRUE ELSE lifeAim = "bucket"
  /\ IF part = "locks" THEN TRUE ELSE lockAim = "hold" /\ holds = <<FALSE>>
  /\ IF part = "secrets" THEN TRUE ELSE file = Missing
  /\ IF part = "scans" THEN FewWorlds
     ELSE scanAim = "iam" /\ world = [x \in Subject |-> Clean]
  /\ IF part = "gauges" THEN FewPlants
     ELSE plant = [online |-> [e \in ErasureSet |-> WriteQuorum], healing |-> 0,
                   used |-> 80, offline |-> 0] /\ hidden = {}
  /\ Init /\ SettingInit /\ IamInit /\ LifeInit /\ LockInit /\ SecretInit /\ ScanInit
  /\ GaugeInit /\ CliInit

Standing(p, v) == IF part = p THEN TRUE ELSE UNCHANGED v

OthersStand ==
  /\ part' = part
  /\ Standing("budget", vars)       /\ Standing("settings", settingVars)
  /\ Standing("iam", iamVars)       /\ Standing("buckets", lifeVars)
  /\ Standing("locks", lockVars)    /\ Standing("secrets", secretVars)
  /\ Standing("scans", scanVars)    /\ Standing("gauges", gaugeVars)
  /\ Standing("cli", cliVars)

\* An administrator changes one thing of an account at a time.
OneThingAtATime ==
  iamCall' = iamCall =>
    \/ NoAccount \in {account, account'}
    \/ Cardinality({f \in DOMAIN account : account'[f] # account[f]}) = 1

\* Once two commands have overlapped nothing is promised of the server, and it
\* is asked no more.
NotServed == overlapped => UNCHANGED <<cached, served, seen>>

\* The deployment changes in one respect, and once, while it is read.
NearPlants ==
  {[plant EXCEPT !.online = o] : o \in [ErasureSet -> OnlineDrives]}
  \cup {[plant EXCEPT !.healing = 1 - plant.healing], [plant EXCEPT !.offline = 1 - plant.offline]}
  \cup {[plant EXCEPT !.used = u] : u \in {80, 85, 95}}

ChangesOnce == ~unsteady /\ \E p \in NearPlants \cap Plants : PlantChanges(p)

MCNext ==
  \/ part = "budget"   /\ Next        /\ OthersStand
  \/ part = "settings" /\ SettingNext /\ OthersStand
  \/ part = "iam"      /\ IamNext     /\ OneThingAtATime /\ OthersStand
  \/ part = "buckets"  /\ LifeNext    /\ OthersStand
  \/ part = "locks"    /\ LockNext    /\ OthersStand
  \/ part = "secrets"  /\ SecretNext  /\ NotServed /\ OthersStand
  \/ part = "scans"    /\ ScanNext    /\ OthersStand
  \/ part = "gauges"   /\ (ReadingNext \/ ChangesOnce) /\ OthersStand
  \/ part = "cli"      /\ CliNext     /\ OthersStand

MCSpec == MCInit /\ [][MCNext]_partVars

\* Policies that deny the tool's key nothing or one right, the put in a form the
\* guard recognises and in one it does not, and one the guard mistakes for that.
SomeDocuments == {{}, {"get"}, {"delete"}, {"put"}, {"put", "caught"}, {"caught"}}

TwoSubjects == <<"s1", "s2">>

\* Threads are interchangeable.
Alike == Permutations(Thread)

\* The inductive invariants of the parts, each for the part that runs: they are
\* stated beside it and proved for every value of the constants in the modules of
\* proofs.  The budget's includes its ceiling.
PartsInv ==
  /\ part = "budget"   => BInv /\ BurstInv
  /\ part = "settings" => SettingInv
  /\ part = "iam"      => IamInv
  /\ part = "buckets"  => LifeInv
  /\ part = "locks"    => LockInv
  /\ part = "secrets"  => SecretInv
  /\ part = "scans"    => ScanInv
  /\ part = "gauges"   => GaugeInv
  /\ part = "cli"      => CliInv
=============================================================================
