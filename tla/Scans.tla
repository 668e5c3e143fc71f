------------------------------- MODULE Scans -------------------------------
(* The four read-only diagnoses.  Each lists its subjects - buckets, or IAM  *)
(* users - probes them one after the other, any probe failing, while others  *)
(* change them, and reports what it found, ranked and cut.                   *)
EXTENDS Naturals, Sequences, FiniteSets

CONSTANTS Subjects,      \* the buckets or users, in the order they are listed
          MaxFailures,   \* probes that fail in one scan
          MaxLimit,      \* the largest limit a caller gives
          MaxAltered     \* bounds the changes by others in one scan

Subject == {Subjects[i] : i \in DOMAIN Subjects}

\* Names are unique in a listing.
ASSUME ScanAssumption ==
  /\ Subjects \in Seq(Subject) /\ Subjects # <<>>
  /\ \A i, j \in DOMAIN Subjects : Subjects[i] = Subjects[j] => i = j
  /\ MaxFailures \in Nat /\ MaxLimit \in Nat \ {0} /\ MaxAltered \in Nat

VARIABLES scanAim,     \* the diagnosis this behaviour is about
          world,       \* each subject as it is
          scan,        \* the scan under way: its phase, limit and last probe
          got,         \* what the probes answered
          failures,    \* history: how many probes failed
          altered      \* history: the subjects others changed during the scan

scanVars == <<scanAim, world, scan, got, failures, altered>>

\* What is asked of a subject, in order.
Probes(aim) ==
  CASE aim = "retention" -> <<"rules", "lock", "versioning">>
    [] aim = "exposure"  -> <<"policy", "encryption", "versioning", "rules">>
    [] aim = "lifecycle" -> <<"rules", "versioning", "uploads">>
    [] aim = "iam"       -> <<"group">>

\* What one call answers for all subjects: the usage metrics, the user list.
Listed(aim) ==
  CASE aim = "lifecycle" -> {"size"}
    [] aim = "iam"       -> {"own", "enabled"}
    [] OTHER             -> {}

\* A locked bucket has no default rule, one of COMPLIANCE for a year or a month,
\* or one of GOVERNANCE for a month.  Rules expire objects in a week, or, tidy,
\* after every retention, old versions and abandoned uploads too.
Domain(f) ==
  CASE f = "lock"       -> {"none", "no rule", "year", "month", "bypassable"}
    [] f = "versioning" -> {"Enabled", "Suspended"}
    [] f = "rules"      -> {"none", "week", "tidy"}
    [] f = "policy"     -> {"private", "public read", "public write"}
    [] f = "encryption" -> {"none", "sse"}
    [] f = "uploads"    -> {"none", "stale"}
    [] f = "size"       -> {"small", "large"}
    [] f = "own"        -> {"none", "data", "admin"}
    [] f = "enabled"    -> {"yes", "no"}
    [] f = "group"      -> {"none", "admin"}

Probed(aim) == {Probes(aim)[i] : i \in DOMAIN Probes(aim)}
Fields(aim) == Probed(aim) \cup Listed(aim)
AllFields == {"lock", "versioning", "rules", "policy", "encryption", "uploads",
              "size", "own", "enabled", "group"}

Clean == [f \in AllFields |->
            CASE f = "versioning" -> "Enabled" [] f = "rules" -> "tidy"
              [] f = "policy" -> "private"     [] f = "encryption" -> "sse"
              [] f = "own" -> "data"           [] f = "enabled" -> "yes"
              [] f = "size" -> "small"         [] OTHER -> "none"]
Unread == [f \in AllFields |-> "unread"]

Kind(aim) ==
  {[f \in AllFields |-> IF f \in Fields(aim) THEN k[f] ELSE Clean[f]] :
     k \in {g \in [Fields(aim) -> UNION {Domain(f) : f \in Fields(aim)}] :
              \A f \in Fields(aim) : g[f] \in Domain(f)}}

NoScan == [phase |-> "idle", limit |-> 0, at |-> 0]

ScanInit ==
  /\ scanAim \in {"retention", "exposure", "lifecycle", "iam"}
  /\ world \in [Subject -> Kind(scanAim)]
  /\ scan = NoScan
  /\ got = [x \in Subject |-> Unread]
  /\ failures = 0
  /\ altered = {}

------------------------------------------------------------------------------
Least(a, b) == IF a < b THEN a ELSE b

\* exposure and lifecycle look at the first limit buckets; the others at all.
Reach(limit) ==
  IF scanAim \in {"exposure", "lifecycle"} THEN Least(limit, Len(Subjects)) ELSE Len(Subjects)

Scanned(limit) == {Subjects[i] : i \in 1..Reach(limit)}

\* The probes of a scan, subject by subject: no diagnosis has more than four.
Plan(limit) == Scanned(limit) \X Probed(scanAim)

Place(x) == CHOOSE i \in DOMAIN Subjects : Subjects[i] = x
Turn(f) == CHOOSE i \in DOMAIN Probes(scanAim) : Probes(scanAim)[i] = f
Position(p) == 4 * Place(p[1]) + Turn(p[2])

\* The listing.  Without metrics the lifecycle analysis goes on without sizes;
\* the others fail as a whole, which no property is about.
StartScan(limit, metrics) ==
  /\ scan.phase = "idle"
  /\ metrics \/ scanAim = "lifecycle"
  /\ scan' = [phase |-> "probing", limit |-> limit, at |-> 0]
  /\ got' = [x \in Subject |->
               [f \in AllFields |->
                  IF f \notin Listed(scanAim) THEN "unread"
                  ELSE IF metrics THEN world[x][f] ELSE "failed"]]
  /\ UNCHANGED <<scanAim, world, failures, altered>>

\* A probe the answers so far make needless: the rest of a bucket that could not
\* be read, the versioning of one without lock, uploads that a rule aborts.
Needless(x, f, answers) ==
  \/ scanAim = "retention" /\ "failed" \in {answers[x][g] : g \in AllFields}
  \/ scanAim = "retention" /\ f = "versioning" /\ answers[x].lock = "none"
  \/ scanAim = "lifecycle" /\ f = "uploads" /\ answers[x].rules = "tidy"

Todo ==
  {p \in Plan(scan.limit) : Position(p) > scan.at /\ ~Needless(p[1], p[2], got)}

\* The one whose turn it is, if any is left.
Upcoming ==
  LET todo   == Todo
      places == {Position(q) : q \in todo}
  IN {p \in todo : \A i \in places : Position(p) <= i}

\* The upcoming probe answers or fails.
ProbeNext(p, ok) ==
  /\ scan.phase = "probing"
  /\ ok \/ failures < MaxFailures
  /\ failures' = IF ok THEN failures ELSE failures + 1
  /\ got' = [got EXCEPT ![p[1]][p[2]] = IF ok THEN world[p[1]][p[2]] ELSE "failed"]
  /\ scan' = [scan EXCEPT !.at = Position(p)]
  /\ UNCHANGED <<scanAim, world, altered>>

\* Others change one field of one subject.
OthersChange(x, f, v) ==
  /\ scan.phase = "probing"
  /\ world[x][f] # v
  /\ world' = [world EXCEPT ![x][f] = v]
  /\ altered' = altered \cup {x}
  /\ UNCHANGED <<scanAim, scan, got, failures>>

ScanNext ==
  \/ \E limit \in 1..MaxLimit, metrics \in BOOLEAN : StartScan(limit, metrics)
  \/ \E p \in Upcoming, ok \in BOOLEAN : ProbeNext(p, ok)
  \/ /\ Cardinality(altered) < MaxAltered /\ Todo # {}    \* while the scan runs
     /\ \E x \in Subject, f \in Fields(scanAim) : \E v \in Domain(f) : OthersChange(x, f, v)

ScanSpec == ScanInit /\ [][ScanNext]_scanVars

------------------------------------------------------------------------------
\* What the answers about a subject amount to.

RetentionDays(lock) ==
  CASE lock = "year" -> 365 [] lock \in {"month", "bypassable"} -> 30 [] OTHER -> 0
ExpirationDays(rules) ==
  CASE rules = "week" -> 7 [] rules = "tidy" -> 400 [] OTHER -> 1000

\* _bucket_findings.
RetentionFault(code, a) ==
  CASE code = "versioning" -> a.lock # "none" /\ a.versioning # "Enabled"
    [] code = "no default" -> a.lock = "no rule"
    [] code = "long"       -> a.lock \in {"year", "month"} /\ RetentionDays(a.lock) >= 365
    [] code = "bypassable" -> a.lock = "bypassable"
    [] code = "outlived"   -> ExpirationDays(a.rules) < RetentionDays(a.lock)
    [] OTHER -> FALSE

\* Takes a failed probe for the setting being off.
ExposureFaultIfUnread(code, a) ==
  CASE code = "public write"  -> a.policy = "public write"
    [] code = "public read"   -> a.policy = "public read"
    [] code = "unencrypted"   -> a.encryption # "sse"
    [] code = "not versioned" -> a.versioning # "Enabled"
    [] code = "no rules"      -> a.rules \notin {"week", "tidy"}
    [] OTHER -> FALSE

\* audit_bucket: a failed probe gives no reason.
ExposureFault(code, a) ==
  CASE code = "public write"  -> a.policy = "public write"
    [] code = "public read"   -> a.policy = "public read"
    [] code = "unencrypted"   -> a.encryption = "none"
    [] code = "not versioned" -> a.versioning = "Suspended"
    [] code = "no rules"      -> a.rules = "none"
    [] OTHER -> FALSE

\* lifecycle_gap_analysis: rules that could not be read count as none.
LifecycleFault(code, a) ==
  CASE code = "old versions" -> a.versioning = "Enabled" /\ a.rules # "tidy"
    [] code = "uploads"      -> a.rules # "tidy" /\ a.uploads = "stale"
    [] code = "large"        -> a.rules \in {"none", "failed"} /\ a.size = "large"
    [] OTHER -> FALSE

\* _effective_policies: a group that could not be read gives none.
Effective(a) == {a.own, a.group} \cap {"data", "admin"}

\* diagnose_iam_exposure.
IamFault(code, a) ==
  CASE code = "no policy"  -> Effective(a) = {}
    [] code = "full admin" -> "admin" \in Effective(a)
    [] code = "broad data" -> Effective(a) = {"data"}
    [] code = "disabled"   -> a.enabled = "no" /\ Effective(a) # {}
    [] OTHER -> FALSE

Fault(code, a) ==
  CASE scanAim = "retention" -> RetentionFault(code, a)
    [] scanAim = "exposure"  -> ExposureFault(code, a)
    [] scanAim = "lifecycle" -> LifecycleFault(code, a)
    [] scanAim = "iam"       -> IamFault(code, a)

\* The severity of a finding about a bucket, or what a reason adds to the score
\* of a user.
Weight(code) ==
  CASE code \in {"versioning", "no default", "outlived"} -> 3
    [] code = "long" -> 2        [] code = "bypassable" -> 1
    [] code = "full admin" -> 60 [] code = "no policy" -> 40
    [] code = "broad data" -> 25 [] code = "disabled" -> 15
    [] OTHER -> 0

Codes ==
  CASE scanAim = "retention" -> {"versioning", "no default", "long", "bypassable", "outlived"}
    [] scanAim = "exposure"  -> {"public write", "public read", "unencrypted",
                                 "not versioned", "no rules"}
    [] scanAim = "lifecycle" -> {"old versions", "uploads", "large"}
    [] scanAim = "iam"       -> {"no policy", "full admin", "broad data", "disabled"}

Finished == scan.phase = "probing" /\ Todo = {}

\* bucketErrors: what could not be looked at.
BucketErrors ==
  IF scanAim = "retention"
  THEN {x \in Subject : "failed" \in {got[x][f] : f \in AllFields}} ELSE {}

Findings ==
  {f \in Subject \X Codes :
     f[1] \in Scanned(scan.limit) \ BucketErrors /\ Fault(f[2], got[f[1]])}

\* The rows of a report: findings, or subjects with all their reasons.
RowOf(f) == IF scanAim = "retention" THEN f ELSE <<f[1], "all">>
Rows == {RowOf(f) : f \in Findings}

ScoreOf(x) ==
  LET adds(code) == IF <<x, code>> \in Findings THEN Weight(code) ELSE 0
  IN adds("no policy") + adds("full admin") + adds("broad data") + adds("disabled")

\* Findings rank by their own severity, users by the sum of their reasons.
RankOf(r) == IF scanAim = "retention" THEN Weight(r[2]) ELSE ScoreOf(r[1])

\* The order the rows are collected in.
Collected(q, r) ==
  LET turn(code) == CASE code = "versioning" -> 1 [] code = "outlived" -> 3 [] OTHER -> 2
  IN Place(q[1]) < Place(r[1]) \/ (q[1] = r[1] /\ turn(q[2]) < turn(r[2]))

\* Not sorted at all.
AheadUnsorted(r) == {q \in Rows : Collected(q, r)}

\* Worst first; the sort is stable.
Ahead(r) ==
  {q \in Rows : RankOf(q) > RankOf(r) \/ (RankOf(q) = RankOf(r) /\ Collected(q, r))}

\* Sorted, then cut to the limit: exposure and lifecycle cut the subjects instead.
Shown ==
  {f \in Findings : scanAim \in {"retention", "iam"} =>
                       Cardinality(Ahead(RowOf(f))) < scan.limit}

------------------------------------------------------------------------------
Values == UNION {Domain(f) : f \in AllFields}

\* Types: what there is of a field, and what is answered, is in its domain.
ScanTypeOK ==
  /\ scanAim \in {"retention", "exposure", "lifecycle", "iam"}
  /\ scan \in [phase : {"idle", "probing"}, limit : 0..MaxLimit, at : Nat]
  /\ scan.phase = "probing" => scan.limit # 0
  /\ world \in [Subject -> [AllFields -> Values]]
  /\ got \in [Subject -> [AllFields -> Values \cup {"unread", "failed"}]]
  /\ \A x \in Subject, f \in AllFields :
       world[x][f] \in Domain(f) /\ got[x][f] \in Domain(f) \cup {"unread", "failed"}
  /\ failures \in 0..MaxFailures
  /\ altered \subseteq Subject

\* A probe failed that this fault can be told by.
Unseen(x, code) ==
  \E f \in Fields(scanAim) :
    /\ got[x][f] = "failed"
    /\ \E v \in Domain(f) : ~Fault(code, [world[x] EXCEPT ![f] = v])

\* A clean report means the subjects are clean: a fault of a subject that nobody
\* changed during the scan is shown, or the report owns up to it - the bucket
\* is among its errors, was beyond the limit, or lost its place to worse ones -
\* or the very probe that would have shown it failed.
NoFalseAllClear ==
  Finished =>
    \A x \in Subject \ altered, code \in Codes :
      Fault(code, world[x]) /\ <<x, code>> \notin Shown =>
        \/ x \in BucketErrors
        \/ Place(x) > Reach(scan.limit)
        \/ /\ Cardinality(Rows) > scan.limit
           /\ <<x, code>> \in Findings
           /\ \A f \in Shown : RankOf(f) >= RankOf(<<x, code>>)
        \/ scanAim # "retention" /\ Unseen(x, code)

\* What a diagnosis reports of a subject that nobody changed is so.  Two fall
\* short of it and say so beside the finding: gaps of a bucket whose rules could
\* not be read, and users without a policy when a group could not be.
FindingsTrue ==
  Finished =>
    \A f \in Shown :
      f[1] \notin altered =>
        \/ Fault(f[2], world[f[1]])
        \/ scanAim = "lifecycle" /\ got[f[1]].rules = "failed"
        \/ scanAim = "iam" /\ got[f[1]].group = "failed"
------------------------------------------------------------------------------
\* The inductive invariant the two rest on.  An answer about a subject nobody changed is so ...
AnswersTrue ==
  \A x \in Subject \ altered, f \in AllFields :
    got[x][f] \in {world[x][f], "unread", "failed"}

\* ... and the probes before the last one were made, or passed over as needless;
\* those after it were not.
ReadInOrder ==
  scan.phase = "probing" =>
    /\ \A x \in Subject, f \in Listed(scanAim) :
         got[x][f] # "unread" /\ (got[x][f] = "failed" => scanAim = "lifecycle")
    /\ \A p \in Plan(scan.limit) :
         IF Position(p) <= scan.at
         THEN got[p[1]][p[2]] # "unread" \/ Needless(p[1], p[2], got)
         ELSE got[p[1]][p[2]] = "unread"

ScanInv == ScanTypeOK /\ AnswersTrue /\ ReadInOrder
=============================================================================
