------------------------------ MODULE Patterns ------------------------------
(***************************************************************************)
(* The auto-remediation pattern engine of one process: calls of one tool   *)
(* reload the pattern files if they changed, pick the first armable        *)
(* pattern, arm it within its rate limits and unless its circuit breaker   *)
(* is open, and report how the call ended.  Reloading takes no lock, arming *)
(* and reporting take one.                                                 *)
(***************************************************************************)
EXTENDS Integers, Sequences, FiniteSets

CONSTANTS
  Thread,            \* the threads of the process that issue calls
  Target,            \* the targets of the calls
  Id,                \* the pattern ids
  Contents,          \* what the patterns directory may hold: sequences of
                     \* files in the order of their names
  Hour, Day,         \* the lengths of the two rate windows
  DefaultThreshold,  \* of a pattern that is no longer loaded,
  DefaultDisable,    \* and its cooldown
  NoFile,
  MaxVersions,       \* bounds the edits of the directory
  Horizon            \* bounds the clock

File == [id : Id, valid : BOOLEAN, low : BOOLEAN, approved : BOOLEAN,
         expires : Nat, hour : Nat, day : Nat,
         threshold : Nat \ {0}, disable : Nat \ {0}]

ASSUME FilesAssumption == Contents \subseteq Seq(File) /\ NoFile \notin File
ASSUME TimesAssumption == /\ Hour \in Nat \ {0}
                          /\ Day \in Nat \ {0}
                          /\ Hour <= Day
                          /\ DefaultThreshold \in Nat \ {0}
                          /\ DefaultDisable \in Nat \ {0}

VARIABLES
  clock,     \* time.time()
  files,     \* every version of the directory so far; the last is on disk
  loaded,    \* the version that _patterns was built from
  mtimes,    \* the version that _mtimes was built from
  pc,        \* where each thread is in the engine
  target,    \* the target of each thread's call
  since,     \* history: the version on disk when that call began or, when its
             \* check of the files failed, the one the last good check found
  snap,      \* the version a reloading thread has read
  file,      \* the pattern file each thread matched
  arms,      \* per (pattern, target), every arming ever: when, after how many
             \* outcomes, and the caps it was held to
  kept,      \* which of them are still in arm_timestamps
  failures,  \* consecutive_failures
  until,     \* disabled_until
  outcomes   \* every outcome ever reported: when and how

fileVars    == <<files, loaded, mtimes>>
callVars    == <<target, since, snap, file>>
counterVars == <<arms, kept, failures, until, outcomes>>
vars == <<clock, fileVars, pc, callVars, counterVars>>

Key     == Id \X Target
Arming  == [at : Nat, after : Nat, hour : Nat, day : Nat]
Outcome == [at : Nat, success : BOOLEAN]

TypeOK ==
  /\ clock \in Nat
  /\ files \in Seq(Contents) \ {<<>>}
  /\ loaded \in 1..Len(files)
  /\ mtimes \in 1..Len(files)
  /\ pc \in [Thread -> {"idle", "check", "load", "stamp", "choose", "arm",
                        "armed"}]
  /\ target \in [Thread -> Target]
  /\ since \in [Thread -> 1..Len(files)]
  /\ snap \in [Thread -> 1..Len(files)]
  /\ file \in [Thread -> File \cup {NoFile}]
  /\ \A t \in Thread : pc[t] \in {"arm", "armed"} => file[t] \in File
  /\ arms \in [Key -> Seq(Arming)]
  /\ kept \in [Key -> SUBSET Nat]
  /\ failures \in [Key -> Nat]
  /\ until \in [Key -> Nat]
  /\ outcomes \in [Key -> Seq(Outcome)]

\* PatternEngine.__init__ has loaded the first version.
Init ==
  /\ clock = 0
  /\ \E c \in Contents : files = <<c>>
  /\ loaded = 1 /\ mtimes = 1
  /\ pc = [t \in Thread |-> "idle"]
  /\ target \in [Thread -> Target]
  /\ since = [t \in Thread |-> 1]
  /\ snap = [t \in Thread |-> 1]
  /\ file = [t \in Thread |-> NoFile]
  /\ arms = [k \in Key |-> <<>>]
  /\ kept = [k \in Key |-> {}]
  /\ failures = [k \in Key |-> 0]
  /\ until = [k \in Key |-> 0]
  /\ outcomes = [k \in Key |-> <<>>]

Goto(t, from, to) == pc[t] = from /\ pc' = [pc EXCEPT ![t] = to]

-----------------------------------------------------------------------------
(* Loading the files *)

OnDisk == Len(files)

Enter(t) ==
  /\ Goto(t, "idle", "check")
  /\ \E g \in Target : target' = [target EXCEPT ![t] = g]
  /\ since' = [since EXCEPT ![t] = OnDisk]
  /\ UNCHANGED <<clock, fileVars, snap, file, counterVars>>

\* _maybe_reload finds the files it knows.
Unchanged(t) ==
  /\ Goto(t, "check", "choose")
  /\ mtimes = OnDisk
  /\ UNCHANGED <<clock, fileVars, callVars, counterVars>>

\* _maybe_reload swallows the exception of a glob or a stat, of its own or of
\* the _load it calls, and leaves everything as it was.
CheckFails(t) ==
  /\ Goto(t, "check", "choose")
  /\ since' = [since EXCEPT ![t] = IF mtimes < @ THEN mtimes ELSE @]
  /\ UNCHANGED <<clock, fileVars, target, snap, file, counterVars>>

\* _maybe_reload finds a difference, and _load reads the directory.
ReadFiles(t) ==
  /\ Goto(t, "check", "load")
  /\ mtimes # OnDisk
  /\ snap' = [snap EXCEPT ![t] = OnDisk]
  /\ UNCHANGED <<clock, fileVars, target, since, file, counterVars>>

SetPatterns(t) ==
  /\ Goto(t, "load", "stamp")
  /\ loaded' = snap[t]
  /\ UNCHANGED <<clock, files, mtimes, callVars, counterVars>>

\* Faulty variant of SetMtimes: the times are taken after the files were read.
SetMtimesLate(t) ==
  /\ Goto(t, "stamp", "choose")
  /\ mtimes' = OnDisk
  /\ UNCHANGED <<clock, files, loaded, callVars, counterVars>>

SetMtimes(t) ==
  /\ Goto(t, "stamp", "choose")
  /\ mtimes' = snap[t]
  /\ UNCHANGED <<clock, files, loaded, callVars, counterVars>>

-----------------------------------------------------------------------------
(* Matching and arming *)

\* The patterns of version v: the valid files, the first of each id.
Loaded(v) ==
  {i \in 1..Len(files[v]) :
     /\ files[v][i].valid
     /\ \A j \in 1..i - 1 : files[v][j].valid =>
          files[v][j].id # files[v][i].id}

Armable(f) == f.low /\ f.approved /\ (f.expires = 0 \/ clock <= f.expires)

\* The first armable pattern is matched, whatever its limits say then.
Match(t) ==
  /\ Goto(t, "choose", "arm")
  /\ \E i \in Loaded(loaded) :
       /\ Armable(files[loaded][i])
       /\ \A j \in Loaded(loaded) : Armable(files[loaded][j]) => i <= j
       /\ file' = [file EXCEPT ![t] = files[loaded][i]]
  /\ UNCHANGED <<clock, fileVars, target, since, snap, counterVars>>

\* No pattern acts on this tool, or none is armable: the call runs unarmed.
NoMatch(t) ==
  /\ Goto(t, "choose", "idle")
  /\ \A i \in Loaded(loaded) : ~Armable(files[loaded][i])
  /\ UNCHANGED <<clock, fileVars, callVars, counterVars>>

key(t) == <<file[t].id, target[t]>>

Open(k) == clock < until[k]

\* The circuit breaker is open: the call runs unarmed.
Broken(t) ==
  /\ Goto(t, "arm", "idle")
  /\ Open(key(t))
  /\ UNCHANGED <<clock, fileVars, callVars, counterVars>>

\* Faulty variant of Within: stamps an hour old leave the list for good.
WithinHour(k, length) ==
  {i \in kept[k] : arms[k][i].at + length > clock /\ arms[k][i].at + Hour > clock}

\* The stamps in the list that are younger than a window's length.
Within(k, length) == {i \in kept[k] : arms[k][i].at + length > clock}

\* A cap of 0 is no cap.
Capped(t) ==
  \/ /\ file[t].hour > 0
     /\ Cardinality(Within(key(t), Hour)) >= file[t].hour
  \/ /\ file[t].day > 0
     /\ Cardinality(Within(key(t), Day)) >= file[t].day

\* A rate limit is reached: the call runs unarmed.
RateLimited(t) ==
  /\ Goto(t, "arm", "idle")
  /\ ~Open(key(t))
  /\ Capped(t)
  /\ kept' = [kept EXCEPT ![key(t)] = Within(key(t), Day)]
  /\ UNCHANGED <<clock, fileVars, callVars, arms, failures, until, outcomes>>

Arm(t) ==
  LET k == key(t)
  IN
  /\ Goto(t, "arm", "armed")
  /\ ~Open(k)
  /\ ~Capped(t)
  /\ arms' = [arms EXCEPT ![k] =
                Append(@, [at |-> clock, after |-> Len(outcomes[k]),
                           hour |-> file[t].hour, day |-> file[t].day])]
  /\ kept' = [kept EXCEPT ![k] = Within(k, Day) \cup {Len(arms[k]) + 1}]
  /\ UNCHANGED <<clock, fileVars, callVars, failures, until, outcomes>>

-----------------------------------------------------------------------------
(* report_outcome *)

\* The threshold and the cooldown that version v has for an id.
LimitsAt(v, id) ==
  LET same == {i \in Loaded(v) : files[v][i].id = id}
  IN  IF same = {} THEN {<<DefaultThreshold, DefaultDisable>>}
      ELSE {<<files[v][i].threshold, files[v][i].disable>> : i \in same}

\* A report goes by the patterns loaded by now.
Limits(id) == LimitsAt(loaded, id)

\* Faulty variant of Trip: a breaker that is open stays as it is, but one that
\* opens forgets the failures that opened it.
TripForgets(k, threshold, disable) ==
  IF failures[k] + 1 >= threshold
  THEN /\ until' = [until EXCEPT ![k] = clock + disable]
       /\ failures' = [failures EXCEPT ![k] = 0]
  ELSE /\ failures' = [failures EXCEPT ![k] = @ + 1]
       /\ UNCHANGED until

\* A failure counts, and opens the breaker once there are enough in a row.
Trip(k, threshold, disable) ==
  /\ failures' = [failures EXCEPT ![k] = @ + 1]
  /\ IF failures[k] + 1 >= threshold
     THEN until' = [until EXCEPT ![k] = clock + disable]
     ELSE UNCHANGED until

\* Faulty variant of Recover: a success also closes the breaker.
RecoverAtOnce(k) ==
  /\ failures' = [failures EXCEPT ![k] = 0]
  /\ until' = [until EXCEPT ![k] = 0]

\* Faulty variant of Recover: failures add up over successes.
RecoverNever(k) == UNCHANGED <<failures, until>>

\* A success ends the row of failures; a breaker that is open stays open.
Recover(k) ==
  /\ failures' = [failures EXCEPT ![k] = 0]
  /\ UNCHANGED until

\* _finalize reports the outcome of an armed call, also of one whose intent
\* was refused, so that its tool never ran: that is a failure, too.
Report(t) ==
  LET k == key(t)
  IN
  /\ Goto(t, "armed", "idle")
  /\ \E success \in BOOLEAN :
       /\ outcomes' = [outcomes EXCEPT ![k] =
                         Append(@, [at |-> clock, success |-> success])]
       /\ IF success THEN Recover(k)
          ELSE \E l \in Limits(k[1]) : Trip(k, l[1], l[2])
  /\ UNCHANGED <<clock, fileVars, callVars, arms, kept>>

-----------------------------------------------------------------------------
(* The operator's editor, and time *)

Edit ==
  /\ Len(files) < MaxVersions
  /\ \E c \in Contents \ {files[OnDisk]} : files' = Append(files, c)
  /\ UNCHANGED <<clock, loaded, mtimes, pc, callVars, counterVars>>

Tick ==
  /\ clock < Horizon
  /\ clock' = clock + 1
  /\ UNCHANGED <<fileVars, pc, callVars, counterVars>>

Next ==
  \/ \E t \in Thread :
       \/ Enter(t) \/ Unchanged(t) \/ CheckFails(t) \/ ReadFiles(t) \/ SetPatterns(t)
       \/ SetMtimes(t) \/ Match(t) \/ NoMatch(t)
       \/ Broken(t) \/ RateLimited(t) \/ Arm(t) \/ Report(t)
  \/ Edit
  \/ Tick

Spec == Init /\ [][Next]_vars

-----------------------------------------------------------------------------
(* Properties *)

\* The list of stamps holds real armings, and every one that is younger than
\* a day is still in it.
Ledger ==
  \A k \in Key :
    /\ kept[k] \subseteq 1..Len(arms[k])
    /\ \A i \in 1..Len(arms[k]) :
         /\ arms[k][i].at <= clock
         /\ arms[k][i].at + Day > clock => i \in kept[k]

PInv == TypeOK /\ Ledger

\* The armings of k within a window that ends with the i-th of them.
Recent(k, i, length) ==
  {j \in 1..i : arms[k][j].at + length > arms[k][i].at}

\* No pattern is ever armed more often than its caps allow, on any target, in
\* any hour and in any day, whoever arms it, however often the files are
\* edited and although the list of stamps is pruned (patterns.py:292-313).
RateCapsHold ==
  \A k \in Key : \A i \in 1..Len(arms[k]) :
    /\ arms[k][i].hour > 0 =>
         Cardinality(Recent(k, i, Hour)) <= arms[k][i].hour
    /\ arms[k][i].day > 0 =>
         Cardinality(Recent(k, i, Day)) <= arms[k][i].day

\* The i-th outcome of k ends a row of n failures.
FailedRow(k, i, n) ==
  /\ i >= n
  /\ \A j \in i - n + 1..i : ~outcomes[k][j].success

\* The limits that an id has had in any version of the directory so far, ...
EverLimits(id) == UNION {LimitsAt(v, id) : v \in 1..Len(files)}

\* ... and the loosest of them: the highest threshold, the shortest cooldown.
Loosest(id) ==
  LET ever == EverLimits(id)
  IN  {l \in {<<m[1], n[2]>> : m, n \in ever} :
         \A m \in ever : m[1] <= l[1] /\ m[2] >= l[2]}

\* However the files are edited: once a row of failures has reached the highest
\* threshold the pattern ever had, it is not armed on that target again until
\* its shortest cooldown is over, whatever calls armed before then report
\* meanwhile (patterns.py:283-290, 330-340).
BreakerHolds ==
  \A k \in Key : \A l \in Loosest(k[1]) :
    \A i \in 1..Len(outcomes[k]) : FailedRow(k, i, l[1]) =>
      \A a \in 1..Len(arms[k]) : arms[k][a].after >= i =>
        arms[k][a].at >= outcomes[k][i].at + l[2]

\* And it is only ever held back for such a row: the cooldown counts from the
\* last failure of one that reached the threshold of some version.
BreakerJustified ==
  \A k \in Key : until[k] > 0 =>
    \E l \in EverLimits(k[1]) : \E i \in 1..Len(outcomes[k]) :
      /\ FailedRow(k, i, l[1])
      /\ until[k] = outcomes[k][i].at + l[2]

\* The inductive invariant behind the two: the counter is the length of the row
\* of failures that the outcomes end with ...
RowsCounted ==
  \A k \in Key : LET last == Len(outcomes[k]) IN
    /\ failures[k] <= last
    /\ \A j \in last - failures[k] + 1..last : ~outcomes[k][j].success
    /\ failures[k] < last => outcomes[k][last - failures[k]].success

\* ... nothing on record is of a later time ...
HistoryPast ==
  \A k \in Key :
    /\ \A i \in 1..Len(outcomes[k]) : outcomes[k][i].at <= clock
    /\ \A a \in 1..Len(arms[k]) : arms[k][a].after <= Len(outcomes[k])

\* ... and the breaker stays open for the shortest cooldown of every row there
\* was that reached the highest threshold.
CooldownRuns ==
  \A k \in Key : \A l \in Loosest(k[1]) : \A i \in 1..Len(outcomes[k]) :
    FailedRow(k, i, l[1]) => until[k] >= outcomes[k][i].at + l[2]

EngineInv == PInv /\ RowsCounted /\ HistoryPast /\ CooldownRuns

\* A pattern is armed only as it stood in the directory at some time during
\* the call: one that was revoked before is not (patterns.py:159-176).  When the
\* call's own check of the files failed, which lines 177-178 swallow, the time
\* counts from what the last good check had found: one failed check is all it
\* takes to arm a revoked pattern, but none revoked before that check.
NoRevokedArm ==
  [][\A t \in Thread : pc[t] = "arm" /\ pc'[t] = "armed" =>
       \E v \in since[t]..OnDisk : \E i \in 1..Len(files[v]) :
         files[v][i] = file[t]]_vars

\* The inductive invariant behind it, for a lone thread: the stamps are those of
\* what is installed, that is at least as new as its call or as the last good
\* check, and what it matched stood there.
LoadsFresh ==
  /\ (\A t \in Thread : pc[t] # "stamp") => loaded = mtimes
  /\ \A t \in Thread :
       /\ pc[t] \in {"load", "stamp"} => snap[t] >= since[t]
       /\ pc[t] = "stamp" => loaded = snap[t]
       /\ pc[t] = "choose" => loaded >= since[t]
       /\ pc[t] = "arm" => \E v \in since[t]..OnDisk :
                           \E i \in 1..Len(files[v]) : files[v][i] = file[t]
=============================================================================
