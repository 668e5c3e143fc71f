------------------------------- MODULE Gauges -------------------------------
(* The deployment's health as this tool reports it: three health probes, the *)
(* metrics of three endpoints scraped one after the other and merged, and    *)
(* the verdicts of healing_health, capacity_rca, cluster_status and the      *)
(* overview.  The deployment changes meanwhile and may not export a gauge.   *)
EXTENDS Integers, FiniteSets

CONSTANTS ErasureSet,    \* the erasure sets
          WriteQuorum    \* drives a set needs online to take writes

ASSUME GaugeAssumption == ErasureSet # {} /\ WriteQuorum \in Nat \ {0}

VARIABLES plant,     \* the deployment: drives online per set, nodes offline, use
          hidden,    \* the gauges this server does not export
          reading,   \* where the reading is
          health,    \* whether every health probe so far was answered well
          merged,    \* the gauges read so far; what is absent has no value
          unsteady,  \* history: the deployment changed since the reading began
          offlines   \* history: the nodes offline at any time since

gaugeVars == <<plant, hidden, reading, health, merged, unsteady, offlines>>

OnlineDrives == (WriteQuorum - 1)..(WriteQuorum + 2)
Plants == [online : [ErasureSet -> OnlineDrives], healing : {0, 1},
           used : {80, 85, 95}, offline : {0, 1}]
Gauge == {"online", "quorum", "healing", "used", "offline"}

\* Every gauge below is exported by /cluster; the offline nodes by /node too.
TextOf(p) == [g \in Gauge |->
                IF g \in hidden THEN {}
                ELSE CASE g = "online"  -> {p.online}
                       [] g = "quorum"  -> {WriteQuorum}
                       [] g = "healing" -> {p.healing}
                       [] g = "used"    -> {p.used}
                       [] g = "offline" -> {p.offline}]
ClusterText == TextOf(plant)
NodeText == [g \in Gauge |-> IF g = "offline" THEN ClusterText["offline"] ELSE {}]
NoText == [g \in Gauge |-> {}]

GaugeInit ==
  /\ plant \in Plants
  /\ hidden \in SUBSET Gauge
  /\ reading = "idle"
  /\ health = TRUE
  /\ merged = NoText
  /\ unsteady = FALSE
  /\ offlines = {plant.offline}

------------------------------------------------------------------------------
HasQuorum(p) == \A e \in ErasureSet : p.online[e] >= WriteQuorum

\* service_health: live, ready and the write quorum; unreachable is unhealthy.
Probing == <<"idle", "live", "ready", "cluster">>

ProbeHealth(i, reachable) ==
  /\ reading = Probing[i]
  /\ reading' = Probing[i + 1]
  /\ health' = (health /\ reachable /\ (i = 3 => HasQuorum(plant)))
  /\ UNCHANGED <<plant, hidden, merged, unsteady, offlines>>

\* Adds up what two endpoints export.
MergeByAdding(old, new) ==
  [g \in Gauge |-> IF g = "offline" /\ old[g] # {} /\ new[g] # {}
                   THEN {a + b : a \in old[g], b \in new[g]} ELSE old[g] \cup new[g]]

\* Keeps both samples of a series that two endpoints export.
MergeKeepingBoth(old, new) == [g \in Gauge |-> old[g] \cup new[g]]

\* MinioConnection.metrics: a series read once is not read again.
Merge(old, new) == [g \in Gauge |-> IF old[g] # {} THEN old[g] ELSE new[g]]

\* A scrape of a required endpoint that fails fails the whole reading.
ScrapeCluster(ok) ==
  /\ reading = "cluster"
  /\ reading' = IF ok THEN "scraped cluster" ELSE "unreadable"
  /\ merged' = IF ok THEN Merge(merged, ClusterText) ELSE merged
  /\ UNCHANGED <<plant, hidden, health, unsteady, offlines>>

ScrapeNode(ok) ==
  /\ reading = "scraped cluster"
  /\ reading' = IF ok THEN "scraped node" ELSE "unreadable"
  /\ merged' = IF ok THEN Merge(merged, NodeText) ELSE NoText
  /\ UNCHANGED <<plant, hidden, health, unsteady, offlines>>

\* /bucket is best effort, and the verdicts use none of its gauges.
ScrapeBucket ==
  /\ reading = "scraped node"
  /\ reading' = "reported"
  /\ UNCHANGED <<plant, hidden, health, merged, unsteady, offlines>>

\* Drives and nodes come and go.
PlantChanges(p) ==
  /\ reading \notin {"idle", "reported", "unreadable"}
  /\ plant' = p /\ p # plant
  /\ unsteady' = TRUE
  /\ offlines' = offlines \cup {p.offline}
  /\ UNCHANGED <<hidden, reading, health, merged>>

ReadingNext ==
  \/ \E i \in 1..3, reachable \in BOOLEAN : ProbeHealth(i, reachable)
  \/ \E ok \in BOOLEAN : ScrapeCluster(ok) \/ ScrapeNode(ok)
  \/ ScrapeBucket

GaugeNext == ReadingNext \/ \E p \in Plants : PlantChanges(p)

GaugeSpec == GaugeInit /\ [][GaugeNext]_gaugeVars

------------------------------------------------------------------------------
\* healing_health: the margin of each set over its quorum, where both are read.
Margins ==
  IF merged["online"] = {} \/ merged["quorum"] = {} THEN {}
  ELSE {o[e] - q : o \in merged["online"], q \in merged["quorum"], e \in ErasureSet}

HealingFindings ==
  {IF m < 0 THEN "quorum lost" ELSE IF m = 0 THEN "at the edge" ELSE "low tolerance" :
     m \in {n \in Margins : n <= 1}}

\* Null when no set was read.
HealingHealthy == IF merged["online"] = {} THEN {} ELSE {HealingFindings = {}}

\* capacity_rca: null when the capacity was not read.
CapacityFindings ==
  UNION { {"full" : u \in {v \in merged["used"] : v >= 95}},
          {"near full" : u \in {v \in merged["used"] : v >= 85 /\ v < 95}},
          {"nodes offline" : u \in merged["offline"] \ {0}} }
CapacityHealthy == IF merged["used"] = {} THEN {} ELSE {CapacityFindings = {}}

\* cluster_status, and the overview that repeats it.
Degraded == merged["offline"] \ {0} # {}

------------------------------------------------------------------------------
\* Types: a gauge has one value at most, and a reading that failed has none.
GaugeTypeOK ==
  /\ plant \in Plants
  /\ hidden \subseteq Gauge
  /\ reading \in {"idle", "live", "ready", "cluster", "scraped cluster", "scraped node",
                  "reported", "unreadable"}
  /\ health \in BOOLEAN /\ unsteady \in BOOLEAN
  /\ DOMAIN merged = Gauge
  /\ \A g \in Gauge : Cardinality(merged[g]) <= 1
  /\ reading = "unreadable" => merged = NoText

\* A clean verdict was measured.  Of a deployment that did not change meanwhile,
\* it is true, or rests on a gauge this server does not export: then healing,
\* capacity and the overview's "degraded" say less than they seem to.  The
\* offline nodes reported are as many as were offline at some moment, once.
CleanVerdictsMeasured ==
  /\ merged["offline"] \subseteq offlines
  /\ reading \in {"reported", "unreadable"} /\ ~unsteady =>
       /\ HealingHealthy = {TRUE} =>
            \/ \A e \in ErasureSet : plant.online[e] > WriteQuorum + 1
            \/ "quorum" \in hidden
       /\ CapacityHealthy = {TRUE} =>
            plant.used < 85 /\ (plant.offline = 0 \/ "offline" \in hidden)
       /\ ~Degraded => plant.offline = 0 \/ "offline" \in hidden \/ reading = "unreadable"
       /\ health => HasQuorum(plant) /\ "quorum lost" \notin HealingFindings
------------------------------------------------------------------------------
\* The inductive invariant.  What was merged is the text of one moment, now if
\* the deployment did not change ...
ReadAtOnce ==
  /\ plant.offline \in offlines
  /\ reading \in {"idle", "live", "ready", "cluster", "unreadable"} => merged = NoText
  /\ reading \in {"scraped cluster", "scraped node", "reported"} =>
       \E p \in Plants : /\ merged = TextOf(p)
                         /\ p.offline \in offlines
                         /\ ~unsteady => p = plant

\* ... and so is the health that was probed.
ProbedHealth ==
  /\ reading \notin {"idle", "live", "ready"} /\ ~unsteady /\ health => HasQuorum(plant)

GaugeInv == GaugeTypeOK /\ ReadAtOnce /\ ProbedHealth /\ CleanVerdictsMeasured
=============================================================================
