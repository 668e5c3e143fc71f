--------------------------- MODULE PatternsProofs ---------------------------
(***************************************************************************)
(* Theorems of Patterns, for any threads, targets, patterns, edits of the  *)
(* files and window lengths: the invariant of the engine, that no pattern  *)
(* is armed beyond its caps, that the circuit breaker holds and is held    *)
(* open for nothing else, and that a lone thread arms nothing stale.       *)
(***************************************************************************)
EXTENDS Patterns, FiniteSetTheorems, TLAPS

\* The patterns of a version are among its files.
LEMMA LoadedFiles ==
  ASSUME TypeOK, NEW i \in Loaded(loaded)
  PROVE  files[loaded][i] \in File
<1>1. loaded \in 1..Len(files) /\ files \in Seq(Contents)
  BY DEF TypeOK
<1>2. files[loaded] \in Contents
  BY <1>1
<1>3. files[loaded] \in Seq(File)
  BY <1>2, FilesAssumption
<1>4. i \in 1..Len(files[loaded])
  BY DEF Loaded
<1> QED
  BY <1>3, <1>4

\* The limits a report applies are positive numbers.
LEMMA LimitsType ==
  ASSUME TypeOK, NEW id, NEW l \in Limits(id)
  PROVE  l[1] \in Nat /\ l[2] \in Nat
<1>1. CASE l = <<DefaultThreshold, DefaultDisable>>
  BY <1>1, TimesAssumption
<1>2. CASE \E i \in Loaded(loaded) :
             l = <<files[loaded][i].threshold, files[loaded][i].disable>>
  <2>1. PICK i \in Loaded(loaded) :
          l = <<files[loaded][i].threshold, files[loaded][i].disable>>
    BY <1>2
  <2>2. files[loaded][i] \in File
    BY LoadedFiles
  <2> QED
    BY <2>1, <2>2 DEF File
<1> QED
  BY <1>1, <1>2 DEF Limits, LimitsAt

\* An arming call works on a counter that exists.
LEMMA KeyType ==
  ASSUME TypeOK, NEW t \in Thread, pc[t] \in {"arm", "armed"}
  PROVE  /\ key(t) \in Key
         /\ file[t] \in File
         /\ key(t)[1] = file[t].id
  BY DEF TypeOK, Key, File, key

\* Loading: no step of it touches a counter.
LEMMA LoadingKeeps ==
  ASSUME PInv, NEW t \in Thread,
         \/ Enter(t) \/ Unchanged(t) \/ CheckFails(t) \/ ReadFiles(t) \/ SetPatterns(t)
         \/ SetMtimes(t) \/ Match(t) \/ NoMatch(t) \/ Broken(t)
  PROVE  PInv' /\ UNCHANGED arms
<1>1. Len(files) \in 1..Len(files)
  BY DEF PInv, TypeOK
<1>2. CASE Enter(t)
  BY <1>1, <1>2 DEF PInv, TypeOK, Ledger, Enter, Goto, fileVars, counterVars,
                    OnDisk
<1>3. CASE Unchanged(t)
  BY <1>3 DEF PInv, TypeOK, Ledger, Unchanged, Goto, fileVars, callVars,
              counterVars
<1>4. CASE ReadFiles(t)
  BY <1>1, <1>4 DEF PInv, TypeOK, Ledger, ReadFiles, Goto, fileVars,
                    counterVars, OnDisk
<1>5. CASE SetPatterns(t)
  BY <1>5 DEF PInv, TypeOK, Ledger, SetPatterns, Goto, callVars, counterVars
<1>6. CASE SetMtimes(t)
  BY <1>6 DEF PInv, TypeOK, Ledger, SetMtimes, Goto, callVars, counterVars
<1>7. CASE Match(t)
  <2>1. PICK i \in Loaded(loaded) : file' = [file EXCEPT ![t] = files[loaded][i]]
    BY <1>7 DEF Match
  <2>2. files[loaded][i] \in File
    BY LoadedFiles DEF PInv
  <2> QED
    BY <1>7, <2>1, <2>2
    DEF PInv, TypeOK, Ledger, Match, Goto, fileVars, counterVars
<1>8. CASE NoMatch(t)
  BY <1>8 DEF PInv, TypeOK, Ledger, NoMatch, Goto, fileVars, callVars,
              counterVars
<1>9. CASE Broken(t)
  BY <1>9 DEF PInv, TypeOK, Ledger, Broken, Goto, fileVars, callVars,
              counterVars
<1>10. CASE CheckFails(t)
  BY <1>10 DEF PInv, TypeOK, Ledger, CheckFails, Goto, fileVars, counterVars
<1> QED
  BY <1>2, <1>3, <1>4, <1>5, <1>6, <1>7, <1>8, <1>9, <1>10

\* Pruning the list to a day drops no arming that is younger.
LEMMA PruningKeeps ==
  ASSUME PInv, NEW t \in Thread, RateLimited(t)
  PROVE  PInv' /\ UNCHANGED arms
<1> DEFINE k == key(t)
<1>1. k \in Key
  BY KeyType DEF PInv, RateLimited, Goto
<1>2. Within(k, Day) \subseteq kept[k] /\ kept[k] \in SUBSET Nat
  BY <1>1 DEF Within, PInv, TypeOK
<1>3. TypeOK'
  BY <1>1, <1>2 DEF PInv, TypeOK, RateLimited, Goto, fileVars, callVars
<1>4. Ledger'
  BY <1>1, <1>2 DEF PInv, TypeOK, Ledger, RateLimited, Within
<1> QED
  BY <1>3, <1>4 DEF PInv, RateLimited

\* Arming appends one stamp, under a key that exists.
LEMMA ArmAppends ==
  ASSUME PInv, NEW t \in Thread, Arm(t)
  PROVE  /\ key(t) \in Key
         /\ file[t] \in File
         /\ arms[key(t)] \in Seq(Arming)
         /\ arms' \in [Key -> Seq(Arming)]
         /\ \A k \in Key \ {key(t)} : arms'[k] = arms[k]
         /\ Len(arms'[key(t)]) = Len(arms[key(t)]) + 1
         /\ \A i \in 1..Len(arms[key(t)]) : arms'[key(t)][i] = arms[key(t)][i]
         /\ arms'[key(t)][Len(arms[key(t)]) + 1] =
              [at |-> clock, after |-> Len(outcomes[key(t)]),
               hour |-> file[t].hour, day |-> file[t].day]
<1> DEFINE k == key(t)
           new == [at |-> clock, after |-> Len(outcomes[k]),
                   hour |-> file[t].hour, day |-> file[t].day]
<1>1. k \in Key /\ file[t] \in File
  BY KeyType DEF PInv, Arm, Goto
<1>2. arms[k] \in Seq(Arming) /\ outcomes[k] \in Seq(Outcome) /\ clock \in Nat
  BY <1>1 DEF PInv, TypeOK
<1>3. new \in Arming
  BY <1>1, <1>2 DEF Arming, File
<1>4. arms' = [arms EXCEPT ![k] = Append(arms[k], new)]
  BY DEF Arm
<1>5. /\ arms'[k] = Append(arms[k], new)
      /\ \A j \in Key \ {k} : arms'[j] = arms[j]
      /\ arms' \in [Key -> Seq(Arming)]
  BY <1>1, <1>2, <1>3, <1>4 DEF PInv, TypeOK
<1> QED
  BY <1>1, <1>2, <1>3, <1>5

\* Arming keeps the invariant.
LEMMA ArmKeeps ==
  ASSUME PInv, NEW t \in Thread, Arm(t)
  PROVE  PInv'
<1> DEFINE k == key(t)
           n == Len(arms[k])
<1>1. k \in Key /\ file[t] \in File /\ n \in Nat /\ arms[k] \in Seq(Arming)
  <2>1. k \in Key /\ file[t] \in File /\ arms[k] \in Seq(Arming)
    BY ArmAppends
  <2> QED
    BY <2>1
<1>2. kept' = [kept EXCEPT ![k] = Within(k, Day) \cup {n + 1}]
  BY DEF Arm
<1>3. kept[k] \in SUBSET Nat /\ Within(k, Day) \subseteq kept[k]
  BY <1>1 DEF PInv, TypeOK, Within
<1>4. /\ kept'[k] = Within(k, Day) \cup {n + 1}
      /\ \A j \in Key \ {k} : kept'[j] = kept[j]
      /\ kept' \in [Key -> SUBSET Nat]
  BY <1>1, <1>2, <1>3 DEF PInv, TypeOK
<1>5. TypeOK'
  <2>1. arms' \in [Key -> Seq(Arming)]
    BY ArmAppends
  <2> QED
    BY <1>4, <2>1 DEF PInv, TypeOK, Arm, Goto, fileVars, callVars
<1>6. clock' = clock /\ clock \in Nat
  BY DEF Arm, PInv, TypeOK
<1>7. ASSUME NEW j \in Key
      PROVE  /\ kept'[j] \subseteq 1..Len(arms'[j])
             /\ \A i \in 1..Len(arms'[j]) :
                  /\ arms'[j][i].at <= clock'
                  /\ arms'[j][i].at + Day > clock' => i \in kept'[j]
  <2>1. CASE j # k
    <3>1. arms'[j] = arms[j] /\ kept'[j] = kept[j]
      BY <1>4, <2>1, ArmAppends
    <3> QED
      BY <1>6, <3>1 DEF PInv, Ledger
  <2>2. CASE j = k
    <3>1. kept[k] \subseteq 1..n /\ Len(arms'[k]) = n + 1
      BY <1>1, ArmAppends DEF PInv, Ledger
    <3>2. kept'[k] \subseteq 1..n + 1
      BY <1>1, <1>3, <1>4, <3>1
    <3>3. ASSUME NEW i \in 1..n
          PROVE  /\ arms'[k][i].at <= clock'
                 /\ arms'[k][i].at + Day > clock' => i \in kept'[k]
      <4>1. arms'[k][i] = arms[k][i]
        BY ArmAppends
      <4>2. /\ arms[k][i].at <= clock
            /\ arms[k][i].at + Day > clock => i \in kept[k]
        BY <1>1 DEF PInv, Ledger
      <4> QED
        BY <1>4, <1>6, <4>1, <4>2 DEF Within
    <3>4. arms'[k][n + 1].at = clock
      <4>1. arms'[k][n + 1] = [at |-> clock, after |-> Len(outcomes[k]),
                               hour |-> file[t].hour, day |-> file[t].day]
        BY ArmAppends
      <4> QED
        BY <4>1
    <3>5. ASSUME NEW i \in 1..n + 1
          PROVE  /\ arms'[k][i].at <= clock'
                 /\ arms'[k][i].at + Day > clock' => i \in kept'[k]
      <4>1. CASE i = n + 1
        BY <1>4, <1>6, <3>4, <4>1
      <4>2. CASE i # n + 1
        <5>1. i \in 1..n
          BY <1>1, <4>2
        <5> QED
          BY <3>3, <5>1
      <4> QED
        BY <4>1, <4>2
    <3> QED
      BY <2>2, <3>1, <3>2, <3>5
  <2> QED
    BY <2>1, <2>2
<1>8. Ledger'
  BY <1>7 DEF Ledger
<1> QED
  BY <1>5, <1>8 DEF PInv

\* Reporting keeps the invariant.
LEMMA ReportKeeps ==
  ASSUME PInv, NEW t \in Thread, Report(t)
  PROVE  PInv' /\ UNCHANGED arms
<1> DEFINE k == key(t)
<1>1. k \in Key
  BY KeyType DEF PInv, Report, Goto
<1>2. PICK success \in BOOLEAN :
        /\ outcomes' = [outcomes EXCEPT ![k] =
                          Append(@, [at |-> clock, success |-> success])]
        /\ IF success THEN Recover(k)
           ELSE \E l \in Limits(k[1]) : Trip(k, l[1], l[2])
  BY DEF Report
<1>3. failures' \in [Key -> Nat] /\ until' \in [Key -> Nat]
  <2>1. CASE success
    <3>1. Recover(k)
      BY <1>2, <2>1
    <3> QED
      BY <1>1, <3>1 DEF Recover, PInv, TypeOK
  <2>2. CASE ~success
    <3>1. PICK l \in Limits(k[1]) : Trip(k, l[1], l[2])
      BY <1>2, <2>2
    <3>2. l[2] \in Nat
      BY LimitsType DEF PInv
    <3>3. failures' \in [Key -> Nat]
      BY <1>1, <3>1 DEF Trip, PInv, TypeOK
    <3>4. CASE until' = [until EXCEPT ![k] = clock + l[2]]
      <4>1. clock + l[2] \in Nat
        BY <3>2 DEF PInv, TypeOK
      <4> QED
        BY <1>1, <3>3, <3>4, <4>1 DEF PInv, TypeOK
    <3>5. CASE until' = until
      BY <3>3, <3>5 DEF PInv, TypeOK
    <3> QED
      BY <3>1, <3>4, <3>5 DEF Trip
  <2> QED
    BY <2>1, <2>2
<1>4. outcomes' \in [Key -> Seq(Outcome)]
  <2>1. [at |-> clock, success |-> success] \in Outcome
    BY DEF Outcome, PInv, TypeOK
  <2> QED
    BY <1>1, <1>2, <2>1 DEF PInv, TypeOK
<1>5. TypeOK'
  BY <1>3, <1>4 DEF PInv, TypeOK, Report, Goto, fileVars, callVars
<1>6. Ledger'
  BY DEF PInv, Ledger, Report
<1> QED
  BY <1>5, <1>6 DEF PInv, Report

\* A longer history of the directory, and a later time, keep it too.
LEMMA SurroundingsKeep ==
  ASSUME PInv, Edit \/ Tick
  PROVE  PInv' /\ UNCHANGED arms
<1>1. CASE Edit
  <2>1. PICK c \in Contents : files' = Append(files, c)
    BY <1>1 DEF Edit
  <2>2. /\ files' \in Seq(Contents) \ {<<>>}
        /\ 1..Len(files) \subseteq 1..Len(files')
    <3>1. files \in Seq(Contents) /\ Len(files) \in Nat
      BY DEF PInv, TypeOK
    <3>2. files' \in Seq(Contents) /\ Len(files') = Len(files) + 1
      BY <2>1, <3>1
    <3> QED
      BY <3>1, <3>2
  <2>3. TypeOK'
    BY <1>1, <2>2 DEF PInv, TypeOK, Edit, callVars, counterVars
  <2> QED
    BY <1>1, <2>3 DEF PInv, Ledger, Edit, counterVars
<1>2. CASE Tick
  <2>1. TypeOK'
    BY <1>2 DEF PInv, TypeOK, Tick, fileVars, callVars, counterVars
  <2>2. ASSUME NEW k \in Key, NEW i \in 1..Len(arms[k])
        PROVE  /\ arms[k][i].at <= clock'
               /\ arms[k][i].at + Day > clock' => i \in kept[k]
    <3>1. arms[k][i].at \in Nat
      <4>1. arms[k] \in Seq(Arming)
        BY DEF PInv, TypeOK
      <4>2. arms[k][i] \in Arming
        BY <4>1
      <4> QED
        BY <4>2 DEF Arming
    <3>2. /\ arms[k][i].at <= clock
          /\ arms[k][i].at + Day > clock => i \in kept[k]
      BY DEF PInv, Ledger
    <3>3. clock \in Nat /\ clock' = clock + 1
      BY <1>2 DEF PInv, TypeOK, Tick
    <3> QED
      BY <3>1, <3>2, <3>3, TimesAssumption
  <2>3. Ledger'
    BY <1>2, <2>2 DEF PInv, Ledger, Tick, counterVars
  <2> QED
    BY <1>2, <2>1, <2>3 DEF PInv, Tick, counterVars
<1> QED
  BY <1>1, <1>2

\* PInv is inductive, and only arming grows the history of armings.
LEMMA StepKeeps ==
  ASSUME PInv, [Next]_vars
  PROVE  PInv' /\ ((\E t \in Thread : Arm(t)) \/ UNCHANGED arms)
<1>1. CASE UNCHANGED vars
  BY <1>1 DEF PInv, TypeOK, Ledger, vars, fileVars, callVars, counterVars
<1>2. CASE Next
  BY <1>2, LoadingKeeps, PruningKeeps, ArmKeeps, ReportKeeps, SurroundingsKeep
  DEF Next
<1> QED
  BY <1>1, <1>2

\* In every reachable state the counters are well formed and their lists of
\* stamps complete.
THEOREM LedgerInvariant == Spec => []PInv
<1>1. Init => PInv
  BY FilesAssumption DEF Init, PInv, TypeOK, Ledger
<1>2. PInv /\ [Next]_vars => PInv'
  BY StepKeeps
<1> QED
  BY <1>1, <1>2, PTL DEF Spec

\* The stamps in the list that are younger than a window no longer than a day,
\* and the new one, are all the armings of that window: counting the list
\* counts the truth.
LEMMA ListIsWindow ==
  ASSUME PInv, NEW t \in Thread, Arm(t), NEW length \in Nat, length <= Day,
         NEW cap \in Nat,
         ~(Cardinality(Within(key(t), length)) >= cap)
  PROVE  Cardinality({j \in 1..Len(arms[key(t)]) + 1 :
                        arms'[key(t)][j].at + length > clock}) <= cap
<1> DEFINE k == key(t)
           n == Len(arms[k])
           window == {j \in 1..n + 1 : arms'[k][j].at + length > clock}
<1>1. /\ k \in Key
      /\ arms[k] \in Seq(Arming)
      /\ \A j \in 1..n : arms'[k][j] = arms[k][j]
  BY ArmAppends
<1>2. n \in Nat
  BY <1>1
<1>3. window \subseteq Within(k, length) \cup {n + 1}
  <2>1. ASSUME NEW j \in 1..n, arms'[k][j].at + length > clock
        PROVE  j \in Within(k, length)
    <3>1. arms[k][j].at + length > clock
      BY <1>1, <2>1
    <3>2. arms[k][j] \in Arming /\ clock \in Nat
      BY <1>1 DEF PInv, TypeOK
    <3>3. arms[k][j].at + Day > clock
      BY <3>1, <3>2, TimesAssumption DEF Arming
    <3>4. j \in kept[k]
      BY <1>1, <3>3 DEF PInv, Ledger
    <3> QED
      BY <3>1, <3>4 DEF Within
  <2> QED
    BY <1>2, <2>1
<1>4. IsFiniteSet(Within(k, length)) /\ Cardinality(Within(k, length)) \in Nat
  <2>1. Within(k, length) \subseteq 1..n
    BY <1>1 DEF PInv, Ledger, Within
  <2>2. IsFiniteSet(1..n)
    <3>1. 1 \in Int /\ n \in Int
      BY <1>2
    <3> QED
      BY <3>1, FS_Interval
  <2> QED
    BY <2>1, <2>2, FS_Subset, FS_CardinalityType
<1> DEFINE more == Within(k, length) \cup {n + 1}
<1>5. /\ IsFiniteSet(more)
      /\ Cardinality(more) <= Cardinality(Within(k, length)) + 1
  <2>1. /\ IsFiniteSet(more)
        /\ Cardinality(more) = IF n + 1 \in Within(k, length)
                               THEN Cardinality(Within(k, length))
                               ELSE Cardinality(Within(k, length)) + 1
    BY <1>4, FS_AddElement, Zenon
  <2> QED
    BY <1>4, <2>1
<1>6. IsFiniteSet(window) /\ Cardinality(window) <= Cardinality(more)
  BY <1>3, <1>5, FS_Subset
<1>7. Cardinality(window) \in Nat /\ Cardinality(more) \in Nat
  BY <1>5, <1>6, FS_CardinalityType
<1> QED
  BY <1>4, <1>5, <1>6, <1>7

\* An arming respects its caps, and the armings before it still do.
LEMMA ArmWithinCaps ==
  ASSUME PInv, RateCapsHold, NEW t \in Thread, Arm(t)
  PROVE  RateCapsHold'
<1> DEFINE k == key(t)
           n == Len(arms[k])
           new == [at |-> clock, after |-> Len(outcomes[k]),
                   hour |-> file[t].hour, day |-> file[t].day]
<1>1. /\ k \in Key
      /\ file[t] \in File
      /\ arms[k] \in Seq(Arming)
      /\ \A j \in Key \ {k} : arms'[j] = arms[j]
      /\ Len(arms'[k]) = n + 1
      /\ \A i \in 1..n : arms'[k][i] = arms[k][i]
      /\ arms'[k][n + 1] = new
  BY ArmAppends
<1>2. n \in Nat /\ file[t].hour \in Nat /\ file[t].day \in Nat
  BY <1>1 DEF File
<1> DEFINE Held(a, i) ==
             /\ a[i].hour > 0 =>
                  Cardinality({j \in 1..i : a[j].at + Hour > a[i].at}) <= a[i].hour
             /\ a[i].day > 0 =>
                  Cardinality({j \in 1..i : a[j].at + Day > a[i].at}) <= a[i].day
<1>3. \A q \in Key : \A i \in 1..Len(arms[q]) : Held(arms[q], i)
  BY DEF RateCapsHold, Recent
<1>4. ASSUME NEW i \in 1..n
      PROVE  Held(arms'[k], i)
  <2>1. Held(arms[k], i)
    BY <1>1, <1>3
  <2>2. i \in 1..n /\ \A j \in 1..i : j \in 1..n
    BY <1>2
  <2>3. \A length \in {Hour, Day} :
          {j \in 1..i : arms'[k][j].at + length > arms'[k][i].at} =
          {j \in 1..i : arms[k][j].at + length > arms[k][i].at}
    BY <1>1, <2>2
  <2> QED
    BY <1>1, <2>1, <2>2, <2>3
<1>5. Held(arms'[k], n + 1)
  <2>1. /\ arms'[k][n + 1].at = clock
        /\ arms'[k][n + 1].hour = file[t].hour
        /\ arms'[k][n + 1].day = file[t].day
    BY <1>1
  <2>2. ASSUME file[t].hour > 0
        PROVE  Cardinality({j \in 1..n + 1 : arms'[k][j].at + Hour > clock})
                 <= file[t].hour
    <3>1. ~(Cardinality(Within(k, Hour)) >= file[t].hour)
      BY <2>2 DEF Arm, Capped
    <3> QED
      BY <1>2, <3>1, ListIsWindow, TimesAssumption
  <2>3. ASSUME file[t].day > 0
        PROVE  Cardinality({j \in 1..n + 1 : arms'[k][j].at + Day > clock})
                 <= file[t].day
    <3>1. ~(Cardinality(Within(k, Day)) >= file[t].day)
      BY <2>3 DEF Arm, Capped
    <3> QED
      BY <1>2, <3>1, ListIsWindow, TimesAssumption
  <2> QED
    BY <2>1, <2>2, <2>3
<1>6. ASSUME NEW q \in Key, NEW i \in 1..Len(arms'[q])
      PROVE  Held(arms'[q], i)
  <2>1. CASE q # k
    <3>1. arms'[q] = arms[q]
      BY <1>1, <2>1
    <3>2. i \in 1..Len(arms[q])
      BY <3>1
    <3>3. Held(arms[q], i)
      BY <1>3, <3>2
    <3> QED
      BY <3>1, <3>3
  <2>2. CASE q = k
    <3>1. i \in 1..n \/ i = n + 1
      BY <1>1, <1>2, <2>2
    <3> QED
      BY <1>4, <1>5, <2>2, <3>1
  <2> QED
    BY <2>1, <2>2
<1> QED
  BY <1>6 DEF RateCapsHold, Recent

\* The caps hold: for every pattern and target, in every hour and every day.
THEOREM CapsHold == Spec => []RateCapsHold
<1>1. Init => RateCapsHold
  BY DEF Init, RateCapsHold
<1>2. PInv /\ RateCapsHold /\ [Next]_vars => RateCapsHold'
  <2> SUFFICES ASSUME PInv, RateCapsHold, [Next]_vars
               PROVE  RateCapsHold'
    OBVIOUS
  <2>1. (\E t \in Thread : Arm(t)) \/ UNCHANGED arms
    BY StepKeeps
  <2>2. CASE \E t \in Thread : Arm(t)
    BY <2>2, ArmWithinCaps
  <2>3. CASE UNCHANGED arms
    BY <2>3 DEF RateCapsHold, Recent
  <2> QED
    BY <2>1, <2>2, <2>3
<1> QED
  BY <1>1, <1>2, LedgerInvariant, PTL DEF Spec

-----------------------------------------------------------------------------
(* The circuit breaker *)

\* Only reports touch the breaker, only arming and reports the history; time goes
\* on, and an edit ends the condition that nobody edits.
LEMMA HistoryStep ==
  ASSUME PInv, [Next]_vars
  PROVE  /\ clock \in Nat /\ clock' \in Nat /\ clock <= clock'
         /\ files' = files \/ \E c \in Contents : files' = Append(files, c)
         /\ \/ \E t \in Thread : Arm(t) \/ Report(t)
            \/ UNCHANGED <<arms, outcomes, failures, until>>
<1>1. clock \in Nat
  BY DEF PInv, TypeOK
<1>2. ASSUME NEW t \in Thread,
             \/ Enter(t) \/ Unchanged(t) \/ CheckFails(t) \/ ReadFiles(t) \/ SetPatterns(t)
             \/ SetMtimes(t) \/ Match(t) \/ NoMatch(t) \/ Broken(t) \/ RateLimited(t)
      PROVE  clock' = clock /\ files' = files /\ UNCHANGED <<arms, outcomes, failures, until>>
  BY <1>2 DEF Enter, Unchanged, CheckFails, ReadFiles, SetPatterns, SetMtimes, Match,
              NoMatch, Broken, RateLimited, fileVars, counterVars
<1>3. ASSUME NEW t \in Thread, Arm(t) \/ Report(t)
      PROVE  clock' = clock /\ files' = files
  BY <1>3 DEF Arm, Report, fileVars
<1>4. ASSUME Edit
      PROVE  /\ clock' = clock /\ \E c \in Contents : files' = Append(files, c)
             /\ UNCHANGED <<arms, outcomes, failures, until>>
  BY <1>4 DEF Edit, counterVars
<1>5. ASSUME Tick
      PROVE  /\ clock' = clock + 1 /\ files' = files
             /\ UNCHANGED <<arms, outcomes, failures, until>>
  BY <1>5 DEF Tick, fileVars, counterVars
<1>6. CASE UNCHANGED vars
  BY <1>1, <1>6 DEF vars, fileVars, counterVars
<1>7. CASE Next
  <2>1. CASE \E t \in Thread : Arm(t) \/ Report(t)
    BY <1>1, <1>3, <2>1
  <2>2. CASE \E t \in Thread :
               \/ Enter(t) \/ Unchanged(t) \/ CheckFails(t) \/ ReadFiles(t) \/ SetPatterns(t)
               \/ SetMtimes(t) \/ Match(t) \/ NoMatch(t) \/ Broken(t) \/ RateLimited(t)
    BY <1>1, <1>2, <2>2
  <2>3. CASE Edit
    BY <1>1, <1>4, <2>3
  <2>4. CASE Tick
    BY <1>1, <1>5, <2>4
  <2> QED
    BY <1>7, <2>1, <2>2, <2>3, <2>4 DEF Next
<1> QED
  BY <1>6, <1>7

\* A report appends one outcome, under a key that exists, and moves the breaker of
\* that key by the limits loaded.
LEMMA ReportAppends ==
  ASSUME PInv, NEW t \in Thread, Report(t)
  PROVE  LET k == key(t)  n == Len(outcomes[k])  new == outcomes'[k][n + 1] IN
         /\ k \in Key /\ n \in Nat
         /\ \A j \in Key \ {k} : /\ outcomes'[j] = outcomes[j]
                                 /\ failures'[j] = failures[j] /\ until'[j] = until[j]
         /\ Len(outcomes'[k]) = n + 1
         /\ \A i \in 1..n : outcomes'[k][i] = outcomes[k][i]
         /\ new.at = clock /\ new.success \in BOOLEAN
         /\ new.success => failures'[k] = 0 /\ until'[k] = until[k]
         /\ ~new.success =>
              /\ failures'[k] = failures[k] + 1
              /\ \E l \in Limits(k[1]) :
                   \/ failures[k] + 1 >= l[1] /\ until'[k] = clock + l[2]
                   \/ ~(failures[k] + 1 >= l[1]) /\ until'[k] = until[k]
<1> DEFINE k == key(t)
           n == Len(outcomes[k])
<1>1. k \in Key
  BY KeyType DEF PInv, Report, Goto
<1>2. /\ outcomes \in [Key -> Seq(Outcome)] /\ failures \in [Key -> Nat]
      /\ until \in [Key -> Nat] /\ clock \in Nat
  BY DEF PInv, TypeOK
<1>3. PICK success \in BOOLEAN :
        /\ outcomes' = [outcomes EXCEPT ![k] =
                          Append(@, [at |-> clock, success |-> success])]
        /\ IF success THEN Recover(k)
           ELSE \E l \in Limits(k[1]) : Trip(k, l[1], l[2])
  BY DEF Report
<1> DEFINE new == [at |-> clock, success |-> success]
<1>4. new \in Outcome /\ new.at = clock /\ new.success = success
  BY <1>2 DEF Outcome
<1> HIDE DEF new
<1>5. /\ outcomes'[k] = Append(outcomes[k], new)
      /\ \A j \in Key \ {k} : outcomes'[j] = outcomes[j]
  BY <1>1, <1>2, <1>3 DEF new
<1>6. outcomes[k] \in Seq(Outcome) /\ n \in Nat
  BY <1>1, <1>2
<1>7. /\ Len(outcomes'[k]) = n + 1
      /\ \A i \in 1..n : outcomes'[k][i] = outcomes[k][i]
      /\ outcomes'[k][n + 1] = new
  BY <1>4, <1>5, <1>6
<1>8. ASSUME success
      PROVE  /\ \A j \in Key \ {k} : failures'[j] = failures[j] /\ until'[j] = until[j]
             /\ failures'[k] = 0 /\ until'[k] = until[k]
  <2>1. Recover(k)
    BY <1>3, <1>8
  <2> QED
    BY <1>1, <1>2, <2>1 DEF Recover
<1>9. ASSUME ~success
      PROVE  /\ \A j \in Key \ {k} : failures'[j] = failures[j] /\ until'[j] = until[j]
             /\ failures'[k] = failures[k] + 1
             /\ \E l \in Limits(k[1]) :
                  \/ failures[k] + 1 >= l[1] /\ until'[k] = clock + l[2]
                  \/ ~(failures[k] + 1 >= l[1]) /\ until'[k] = until[k]
  <2>1. PICK l \in Limits(k[1]) : Trip(k, l[1], l[2])
    BY <1>3, <1>9
  <2>2. /\ failures'[k] = failures[k] + 1
        /\ \A j \in Key \ {k} : failures'[j] = failures[j]
    BY <1>1, <1>2, <2>1 DEF Trip
  <2>3. CASE failures[k] + 1 >= l[1]
    <3>1. until' = [until EXCEPT ![k] = clock + l[2]]
      BY <2>1, <2>3 DEF Trip
    <3>2. until'[k] = clock + l[2] /\ \A j \in Key \ {k} : until'[j] = until[j]
      BY <1>1, <1>2, <3>1
    <3> QED
      BY <2>2, <2>3, <3>2
  <2>4. CASE ~(failures[k] + 1 >= l[1])
    <3>1. until' = until
      BY <2>1, <2>4 DEF Trip
    <3> QED
      BY <2>2, <2>4, <3>1
  <2> QED
    BY <2>3, <2>4
<1> HIDE DEF n
<1>10. \A j \in Key \ {k} : failures'[j] = failures[j] /\ until'[j] = until[j]
  BY <1>8, <1>9
<1> QED
  BY <1>1, <1>4, <1>5, <1>6, <1>7, <1>8, <1>9, <1>10 DEF n

\* The counter counts the row of failures that the outcomes end with.
LEMMA RowsStayCounted ==
  ASSUME PInv, RowsCounted, [Next]_vars
  PROVE  RowsCounted'
<1>1. CASE UNCHANGED <<arms, outcomes, failures, until>>
  BY <1>1 DEF RowsCounted
<1>2. ASSUME NEW t \in Thread, Arm(t)
      PROVE  RowsCounted'
  BY <1>2 DEF RowsCounted, Arm
<1>3. ASSUME NEW t \in Thread, Report(t)
      PROVE  RowsCounted'
  <2> DEFINE k == key(t)
             n == Len(outcomes[k])
             new == outcomes'[k][n + 1]
  <2>1. /\ k \in Key /\ n \in Nat /\ Len(outcomes'[k]) = n + 1
        /\ \A j \in Key \ {k} : outcomes'[j] = outcomes[j] /\ failures'[j] = failures[j]
        /\ \A i \in 1..n : outcomes'[k][i] = outcomes[k][i]
        /\ new.success \in BOOLEAN
        /\ new.success => failures'[k] = 0
        /\ ~new.success => failures'[k] = failures[k] + 1
    BY <1>3, ReportAppends
  <2>2. failures[k] \in Nat
    BY <2>1 DEF PInv, TypeOK
  <2>3. /\ failures[k] <= n
        /\ \A j \in n - failures[k] + 1..n : ~outcomes[k][j].success
        /\ failures[k] < n => outcomes[k][n - failures[k]].success
    BY <2>1 DEF RowsCounted
  <2> HIDE DEF n
  <2>4. /\ failures'[k] <= n + 1
        /\ \A j \in (n + 1) - failures'[k] + 1..n + 1 : ~outcomes'[k][j].success
        /\ failures'[k] < n + 1 => outcomes'[k][(n + 1) - failures'[k]].success
    <3>1. CASE new.success
      BY <2>1, <3>1
    <3>2. CASE ~new.success
      <4>1. failures'[k] = failures[k] + 1
        BY <2>1, <3>2
      <4>2. ASSUME NEW j \in (n + 1) - failures'[k] + 1..n + 1
            PROVE  ~outcomes'[k][j].success
        <5>1. j = n + 1 \/ (j \in n - failures[k] + 1..n /\ j \in 1..n)
          BY <2>1, <2>2, <2>3, <4>1
        <5> QED
          BY <2>1, <2>3, <3>2, <5>1
      <4>3. ASSUME failures'[k] < n + 1
            PROVE  outcomes'[k][(n + 1) - failures'[k]].success
        <5>1. /\ (n + 1) - failures'[k] = n - failures[k] /\ failures[k] < n
              /\ n - failures[k] \in 1..n
          BY <2>1, <2>2, <2>3, <4>1, <4>3
        <5> QED
          BY <2>1, <2>3, <5>1
      <4>4. failures'[k] <= n + 1
        BY <2>1, <2>2, <2>3, <4>1
      <4> QED
        BY <4>2, <4>3, <4>4
    <3> QED
      BY <2>1, <3>1, <3>2
  <2> DEFINE Counted(o, c, last) ==
               /\ c <= last
               /\ \A i \in last - c + 1..last : ~o[i].success
               /\ c < last => o[last - c].success
  <2>5. Counted(outcomes'[k], failures'[k], n + 1)
    BY ONLY <2>4
  <2>6. \A j \in Key \ {k} : Counted(outcomes'[j], failures'[j], Len(outcomes'[j]))
    BY <2>1 DEF RowsCounted
  <2> HIDE DEF Counted
  <2>7. \A j \in Key : Counted(outcomes'[j], failures'[j], Len(outcomes'[j]))
    BY <2>1, <2>5, <2>6
  <2> QED
    BY <2>7 DEF Counted, RowsCounted
<1> QED
  BY <1>1, <1>2, <1>3, HistoryStep

\* Nothing on record is of a later time.
LEMMA HistoryStaysPast ==
  ASSUME PInv, HistoryPast, [Next]_vars
  PROVE  HistoryPast'
<1>0. clock \in Nat /\ clock' \in Nat /\ clock <= clock'
  BY HistoryStep
<1>1. ASSUME NEW k \in Key
      PROVE  /\ outcomes[k] \in Seq(Outcome) /\ Len(outcomes[k]) \in Nat
             /\ \A i \in 1..Len(outcomes[k]) :
                  outcomes[k][i].at \in Nat /\ outcomes[k][i].at <= clock'
             /\ arms[k] \in Seq(Arming) /\ Len(arms[k]) \in Nat
             /\ \A a \in 1..Len(arms[k]) :
                  arms[k][a].after \in Nat /\ arms[k][a].after <= Len(outcomes[k])
  <2>1. outcomes[k] \in Seq(Outcome) /\ arms[k] \in Seq(Arming)
    BY DEF PInv, TypeOK
  <2>2. /\ Len(outcomes[k]) \in Nat /\ Len(arms[k]) \in Nat
        /\ \A i \in 1..Len(outcomes[k]) : outcomes[k][i] \in Outcome
        /\ \A a \in 1..Len(arms[k]) : arms[k][a] \in Arming
    BY <2>1
  <2>3. /\ \A i \in 1..Len(outcomes[k]) : outcomes[k][i].at <= clock
        /\ \A a \in 1..Len(arms[k]) : arms[k][a].after <= Len(outcomes[k])
    BY DEF HistoryPast
  <2> QED
    BY <1>0, <2>1, <2>2, <2>3 DEF Outcome, Arming
<1>2. CASE UNCHANGED <<arms, outcomes, failures, until>>
  BY <1>1, <1>2 DEF HistoryPast
<1>3. ASSUME NEW t \in Thread, Arm(t)
      PROVE  HistoryPast'
  <2> DEFINE k == key(t)
             n == Len(arms[k])
  <2>1. /\ k \in Key /\ outcomes' = outcomes
        /\ \A j \in Key \ {k} : arms'[j] = arms[j]
        /\ Len(arms'[k]) = n + 1
        /\ \A a \in 1..n : arms'[k][a] = arms[k][a]
        /\ arms'[k][n + 1].after = Len(outcomes[k])
    <3>1. outcomes' = outcomes
      BY <1>3 DEF Arm
    <3>2. arms'[k][n + 1] = [at |-> clock, after |-> Len(outcomes[k]),
                            hour |-> file[t].hour, day |-> file[t].day]
      BY <1>3, ArmAppends
    <3>3. arms'[k][n + 1].after = Len(outcomes[k])
      BY <3>2
    <3> QED
      BY <1>3, <3>1, <3>3, ArmAppends
  <2>2. n \in Nat
    BY <1>1, <2>1
  <2>3. ASSUME NEW j \in Key, NEW a \in 1..Len(arms'[j])
        PROVE  arms'[j][a].after <= Len(outcomes[j])
    <3>1. CASE j # k
      BY <1>1, <2>1, <3>1
    <3>2. CASE j = k /\ a = n + 1
      BY <1>1, <2>1, <3>2
    <3>3. CASE j = k /\ a # n + 1
      <4>1. a \in 1..n
        BY <2>1, <2>2, <3>3
      <4> QED
        BY <1>1, <2>1, <3>3, <4>1
    <3> QED
      BY <3>1, <3>2, <3>3
  <2> QED
    BY <1>1, <2>1, <2>3 DEF HistoryPast
<1>4. ASSUME NEW t \in Thread, Report(t)
      PROVE  HistoryPast'
  <2> DEFINE k == key(t)
             n == Len(outcomes[k])
  <2>1. /\ k \in Key /\ n \in Nat /\ Len(outcomes'[k]) = n + 1
        /\ \A j \in Key \ {k} : outcomes'[j] = outcomes[j]
        /\ \A i \in 1..n : outcomes'[k][i] = outcomes[k][i]
        /\ outcomes'[k][n + 1].at = clock
    BY <1>4, ReportAppends
  <2>2. arms' = arms
    BY <1>4 DEF Report
  <2> HIDE DEF n
  <2>3. ASSUME NEW j \in Key, NEW i \in 1..Len(outcomes'[j])
        PROVE  outcomes'[j][i].at <= clock'
    <3>1. CASE j # k
      BY <1>1, <2>1, <3>1
    <3>2. CASE j = k /\ i = n + 1
      BY <1>0, <2>1, <3>2
    <3>3. CASE j = k /\ i # n + 1
      <4>1. i \in 1..n
        BY <2>1, <3>3
      <4> QED
        BY <1>1, <2>1, <3>3, <4>1 DEF n
    <3> QED
      BY <3>1, <3>2, <3>3
  <2>4. ASSUME NEW j \in Key, NEW a \in 1..Len(arms[j])
        PROVE  arms[j][a].after <= Len(outcomes'[j])
    <3>1. CASE j # k
      BY <1>1, <2>1, <3>1
    <3>2. CASE j = k
      <4>1. arms[k][a].after \in Nat /\ arms[k][a].after <= n
        BY <1>1, <2>1, <3>2 DEF n
      <4> QED
        BY <2>1, <3>2, <4>1
    <3> QED
      BY <3>1, <3>2
  <2> QED
    BY <2>2, <2>3, <2>4 DEF HistoryPast
<1> QED
  BY <1>2, <1>3, <1>4, HistoryStep

\* A row of d failures ends at the i-th of the outcomes o.
Row(o, i, d) == i >= d /\ \A j \in i - d + 1..i : ~o[j].success

\* What the lemmas below are about: a key, and limits that are as loose as all
\* that its pattern has had.
Watched(k, l) ==
  /\ k \in Key /\ l \in Nat \X Nat
  /\ \A m \in EverLimits(k[1]) : m[1] <= l[1] /\ l[2] <= m[2]

\* The limits in force are among those that the id ever had.
LEMMA LimitsEver ==
  ASSUME TypeOK, NEW id
  PROVE  Limits(id) \subseteq EverLimits(id)
BY DEF Limits, EverLimits, TypeOK

\* All limits are numbers, and no threshold is zero.
LEMMA EverLimitsType ==
  ASSUME TypeOK, NEW id, NEW l \in EverLimits(id)
  PROVE  l[1] \in Nat \ {0} /\ l[2] \in Nat \ {0}
<1>1. PICK v \in 1..Len(files) : l \in LimitsAt(v, id)
  BY DEF EverLimits
<1>2. CASE l = <<DefaultThreshold, DefaultDisable>>
  BY <1>2, TimesAssumption
<1>3. CASE \E i \in Loaded(v) : l = <<files[v][i].threshold, files[v][i].disable>>
  <2>1. PICK i \in Loaded(v) : l = <<files[v][i].threshold, files[v][i].disable>>
    BY <1>3
  <2>2. files[v] \in Seq(File)
    <3>1. files[v] \in Contents
      BY DEF TypeOK
    <3> QED
      BY <3>1, FilesAssumption
  <2>3. files[v][i] \in File
    BY <2>2 DEF Loaded
  <2> QED
    BY <2>1, <2>3 DEF File
<1> QED
  BY <1>1, <1>2, <1>3 DEF LimitsAt

\* The loosest limits are as loose as all.
LEMMA LoosestWatched ==
  ASSUME TypeOK, NEW k \in Key, NEW l \in Loosest(k[1])
  PROVE  Watched(k, l)
<1>1. PICK m \in EverLimits(k[1]), n \in EverLimits(k[1]) : l = <<m[1], n[2]>>
  BY DEF Loosest
<1>2. l \in Nat \X Nat
  <2>1. m[1] \in Nat /\ n[2] \in Nat
    BY EverLimitsType
  <2> QED
    BY <1>1, <2>1
<1>3. \A p \in EverLimits(k[1]) : p[1] <= l[1] /\ p[2] >= l[2]
  BY DEF Loosest
<1>4. \A p \in EverLimits(k[1]) : l[2] <= p[2]
  <2> SUFFICES ASSUME NEW p \in EverLimits(k[1]) PROVE l[2] <= p[2]
    OBVIOUS
  <2>1. p[2] \in Nat /\ l[2] \in Nat
    BY <1>2, EverLimitsType
  <2> QED
    BY <1>3, <2>1
<1> QED
  BY <1>2, <1>3, <1>4 DEF Watched

\* Editing only adds to the limits that an id has had.
LEMMA EverLimitsGrow ==
  ASSUME PInv, [Next]_vars, NEW id
  PROVE  EverLimits(id) \subseteq EverLimits(id)'
<1>1. ASSUME NEW v \in 1..Len(files)
      PROVE  v \in 1..Len(files') /\ LimitsAt(v, id)' = LimitsAt(v, id)
  <2>1. files \in Seq(Contents) /\ Len(files) \in Nat
    BY DEF PInv, TypeOK
  <2>2. v \in 1..Len(files') /\ files'[v] = files[v]
    BY <2>1, HistoryStep
  <2> QED
    BY <2>2 DEF LimitsAt, Loaded
<1> QED
  BY <1>1 DEF EverLimits

\* So limits as loose as all of them were so before.
LEMMA StillWatched ==
  ASSUME PInv, [Next]_vars, NEW k, NEW l, Watched(k, l)'
  PROVE  Watched(k, l)
BY EverLimitsGrow DEF Watched

\* A report of another key leaves this one alone; one of this key appends to it.
LEMMA WatchedReport ==
  ASSUME PInv, NEW t \in Thread, Report(t), NEW k, NEW l, Watched(k, l)
  PROVE  LET m == Len(outcomes[k])  new == outcomes'[k][m + 1] IN
         \/ /\ k # key(t) /\ outcomes'[k] = outcomes[k]
            /\ failures'[k] = failures[k] /\ until'[k] = until[k]
         \/ /\ k = key(t) /\ m \in Nat /\ Len(outcomes'[k]) = m + 1
            /\ \A i \in 1..m : outcomes'[k][i] = outcomes[k][i]
            /\ new.at = clock
            /\ \/ new.success /\ until'[k] = until[k]
               \/ /\ ~new.success
                  /\ \E h \in EverLimits(k[1]) :
                       failures[k] + 1 >= h[1] /\ until'[k] = clock + h[2]
               \/ /\ ~new.success /\ ~(failures[k] + 1 >= l[1])
                  /\ until'[k] = until[k]
<1>1. CASE k # key(t)
  BY <1>1, ReportAppends DEF Watched
<1>2. CASE k = key(t)
  <2> DEFINE m == Len(outcomes[k])
             new == outcomes'[k][m + 1]
  <2>1. /\ m \in Nat /\ Len(outcomes'[k]) = m + 1
        /\ \A i \in 1..m : outcomes'[k][i] = outcomes[k][i]
        /\ new.at = clock /\ new.success \in BOOLEAN
        /\ new.success => until'[k] = until[k]
        /\ ~new.success =>
             \E h \in Limits(k[1]) :
               \/ failures[k] + 1 >= h[1] /\ until'[k] = clock + h[2]
               \/ ~(failures[k] + 1 >= h[1]) /\ until'[k] = until[k]
    BY <1>2, ReportAppends
  <2> HIDE DEF m
  <2>2. CASE new.success
    BY <1>2, <2>1, <2>2 DEF m
  <2>3. CASE ~new.success
    <3>1. PICK h \in Limits(k[1]) :
            \/ failures[k] + 1 >= h[1] /\ until'[k] = clock + h[2]
            \/ ~(failures[k] + 1 >= h[1]) /\ until'[k] = until[k]
      BY <2>1, <2>3
    <3>2. h \in EverLimits(k[1]) /\ h[1] \in Nat
      BY LimitsEver, EverLimitsType DEF PInv
    <3>3. h[1] <= l[1] /\ l[1] \in Nat /\ failures[k] \in Nat
      BY <3>2 DEF Watched, PInv, TypeOK
    <3>4. ~(failures[k] + 1 >= h[1]) => ~(failures[k] + 1 >= l[1])
      BY <3>2, <3>3
    <3> QED
      BY <1>2, <2>1, <2>3, <3>1, <3>2, <3>4 DEF m
  <2> QED
    BY <2>2, <2>3
<1> QED
  BY <1>1, <1>2

\* The numbers a watched counter is made of.
LEMMA WatchedTypes ==
  ASSUME PInv, HistoryPast, NEW k, NEW l, Watched(k, l)
  PROVE  /\ Len(outcomes[k]) \in Nat /\ Len(arms[k]) \in Nat
         /\ failures[k] \in Nat /\ until[k] \in Nat /\ clock \in Nat
         /\ l[1] \in Nat /\ l[1] >= 1 /\ l[2] \in Nat
         /\ \A i \in 1..Len(outcomes[k]) :
              outcomes[k][i].at \in Nat /\ outcomes[k][i].at <= clock
         /\ \A a \in 1..Len(arms[k]) :
              /\ arms[k][a].after \in Nat /\ arms[k][a].after <= Len(outcomes[k])
              /\ arms[k][a].at \in Nat
<1>1. k \in Key /\ l[1] \in Nat /\ l[2] \in Nat
  BY DEF Watched
<1>2. /\ outcomes[k] \in Seq(Outcome) /\ arms[k] \in Seq(Arming)
      /\ failures[k] \in Nat /\ until[k] \in Nat /\ clock \in Nat
  BY <1>1 DEF PInv, TypeOK
<1>3. /\ Len(outcomes[k]) \in Nat /\ Len(arms[k]) \in Nat
      /\ \A i \in 1..Len(outcomes[k]) : outcomes[k][i] \in Outcome
      /\ \A a \in 1..Len(arms[k]) : arms[k][a] \in Arming
  BY <1>2
<1>4. /\ \A i \in 1..Len(outcomes[k]) : outcomes[k][i].at <= clock
      /\ \A a \in 1..Len(arms[k]) : arms[k][a].after <= Len(outcomes[k])
  BY <1>1 DEF HistoryPast
<1>5. l[1] >= 1
  <2>1. PICK h : h \in Limits(k[1])
    BY DEF Limits, LimitsAt
  <2>2. h[1] \in Nat \ {0} /\ h[1] <= l[1]
    BY <2>1, LimitsEver, EverLimitsType DEF PInv, Watched
  <2> QED
    BY <1>1, <2>2
<1>6. \A i \in 1..Len(outcomes[k]) : outcomes[k][i].at \in Nat
  BY <1>3 DEF Outcome
<1>7. \A a \in 1..Len(arms[k]) : arms[k][a].after \in Nat /\ arms[k][a].at \in Nat
  BY <1>3 DEF Arming
<1> QED
  BY <1>1, <1>2, <1>3, <1>4, <1>5, <1>6, <1>7

\* A row of failures that outcomes of before end stays one.
LEMMA RowsRemain ==
  ASSUME NEW o, NEW p, NEW i \in Nat, NEW d \in Nat,
         \A j \in 1..i : p[j] = o[j]
  PROVE  Row(p, i, d) <=> Row(o, i, d)
<1>1. ASSUME i >= d, NEW j \in i - d + 1..i
      PROVE  p[j] = o[j]
  <2>1. j \in 1..i
    BY <1>1
  <2> QED
    BY <2>1
<1>2. CASE i >= d
  BY <1>1, <1>2 DEF Row
<1>3. CASE ~(i >= d)
  BY <1>3 DEF Row
<1> QED
  BY <1>2, <1>3

\* CooldownRuns, for any limits as loose as those the pattern has had: editing
\* can only leave less of them.
CooldownsRun ==
  \A k, l : Watched(k, l) => \A i \in 1..Len(outcomes[k]) :
    Row(outcomes[k], i, l[1]) => until[k] >= outcomes[k][i].at + l[2]

\* BreakerHolds, likewise.
ArmsWait ==
  \A k, l : Watched(k, l) => \A i \in 1..Len(outcomes[k]) :
    Row(outcomes[k], i, l[1]) =>
      \A a \in 1..Len(arms[k]) : arms[k][a].after >= i =>
        arms[k][a].at >= outcomes[k][i].at + l[2]

\* The loosest limits are such limits.
LEMMA CooldownRunsFollows ==
  ASSUME TypeOK, CooldownsRun
  PROVE  CooldownRuns
BY LoosestWatched DEF CooldownRuns, CooldownsRun, FailedRow, Row

\* So are they for the armings.
LEMMA BreakerHoldsFollows ==
  ASSUME TypeOK, ArmsWait
  PROVE  BreakerHolds
BY LoosestWatched DEF BreakerHolds, ArmsWait, FailedRow, Row

\* The breaker stays open for the cooldown of every row there was.
LEMMA CooldownStays ==
  ASSUME PInv, RowsCounted, HistoryPast, CooldownsRun, [Next]_vars
  PROVE  CooldownsRun'
<1>1. SUFFICES ASSUME NEW k, NEW l, Watched(k, l)',
                      NEW i \in 1..Len(outcomes'[k]), Row(outcomes'[k], i, l[1])
               PROVE  until'[k] >= outcomes'[k][i].at + l[2]
  BY DEF CooldownsRun
<1> DEFINE threshold == l[1]
           disable   == l[2]
           m         == Len(outcomes[k])
<1>2. Watched(k, l)
  BY <1>1, StillWatched
<1>3. /\ m \in Nat /\ failures[k] \in Nat /\ until[k] \in Nat /\ clock \in Nat
      /\ threshold \in Nat /\ threshold >= 1 /\ disable \in Nat
      /\ \A j \in 1..m : outcomes[k][j].at \in Nat /\ outcomes[k][j].at <= clock
  BY <1>2, WatchedTypes
<1>4. \A j \in 1..m :
        Row(outcomes[k], j, threshold) => until[k] >= outcomes[k][j].at + disable
  BY <1>2 DEF CooldownsRun
<1>5. Row(outcomes'[k], i, threshold)
  BY <1>1
<1>6. SUFFICES until'[k] >= outcomes'[k][i].at + disable
  OBVIOUS
<1> HIDE DEF threshold, disable
<1>7. CASE outcomes'[k] = outcomes[k] /\ until'[k] = until[k]
  <2>1. i \in 1..m /\ i \in Nat
    BY <1>3, <1>7
  <2>2. Row(outcomes[k], i, threshold)
    BY <1>5, <1>7
  <2> QED
    BY <1>4, <1>7, <2>1, <2>2
<1>8. ASSUME NEW t \in Thread, Report(t)
      PROVE  until'[k] >= outcomes'[k][i].at + disable
  <2>1. CASE k # key(t)
    BY <1>2, <1>7, <1>8, <2>1, WatchedReport
  <2>2. CASE k = key(t)
    <3> DEFINE new == outcomes'[k][m + 1]
    <3>1. /\ Len(outcomes'[k]) = m + 1
          /\ \A j \in 1..m : outcomes'[k][j] = outcomes[k][j]
          /\ new.at = clock
          /\ \/ new.success /\ until'[k] = until[k]
             \/ /\ ~new.success
                /\ \E h \in EverLimits(k[1]) : until'[k] = clock + h[2]
             \/ ~new.success /\ ~(failures[k] + 1 >= threshold) /\ until'[k] = until[k]
      BY <1>2, <1>8, <2>2, WatchedReport DEF threshold
    <3> HIDE DEF m
    <3>4a. ASSUME NEW h \in EverLimits(k[1]), until'[k] = clock + h[2]
          PROVE  until'[k] \in Nat /\ until'[k] >= clock + disable
      <4>1. h[2] \in Nat /\ disable <= h[2]
        BY <1>2, EverLimitsType DEF Watched, PInv, disable
      <4> QED
        BY <1>3, <3>4a, <4>1
    <3>2. CASE i \in 1..m
      <4>1. Row(outcomes[k], i, threshold)
        <5>1. \A j \in 1..i : j \in 1..m
          BY <1>3, <3>2
        <5>2. \A j \in 1..i : outcomes'[k][j] = outcomes[k][j]
          BY <3>1, <5>1
        <5>3. i \in Nat /\ threshold \in Nat
          BY <1>3, <3>2
        <5>4. Row(outcomes'[k], i, threshold) <=> Row(outcomes[k], i, threshold)
          BY ONLY <5>2, <5>3, RowsRemain
        <5> QED
          BY <1>5, <5>4
      <4>2. until[k] >= outcomes[k][i].at + disable
        BY <1>4, <3>2, <4>1
      <4>3. \/ until'[k] = until[k]
            \/ until'[k] \in Nat /\ until'[k] >= clock + disable
        BY <3>1, <3>4a
      <4>4. outcomes'[k][i] = outcomes[k][i]
        BY <3>1, <3>2
      <4> QED
        BY <1>3, <3>2, <4>2, <4>3, <4>4
    <3>3. CASE i \notin 1..m
      <4>1. i = m + 1
        BY <1>3, <3>1, <3>3
      <4>2. /\ m + 1 >= threshold
            /\ \A j \in (m + 1) - threshold + 1..m + 1 : ~outcomes'[k][j].success
        <5>1. Row(outcomes'[k], m + 1, threshold)
          BY <1>5, <4>1
        <5> QED
          BY ONLY <5>1 DEF Row
      <4>3. ~new.success
        BY <1>3, <4>2
      <4>4. ASSUME ~(failures[k] + 1 >= threshold)
            PROVE  FALSE
        <5>1. failures[k] < m => outcomes[k][m - failures[k]].success
          BY <1>2 DEF RowsCounted, Watched, m
        <5>2. /\ failures[k] < m /\ m - failures[k] \in 1..m
              /\ m - failures[k] \in (m + 1) - threshold + 1..m + 1
          BY <1>3, <4>2, <4>4
        <5> QED
          BY <3>1, <4>2, <5>1, <5>2
      <4>5. until'[k] >= clock + disable
        BY <3>1, <3>4a, <4>3, <4>4
      <4> QED
        BY <1>3, <3>1, <4>1, <4>5
    <3> QED
      BY <3>2, <3>3
  <2> QED
    BY <2>1, <2>2
<1>9. ASSUME NEW t \in Thread, Arm(t)
      PROVE  outcomes'[k] = outcomes[k] /\ until'[k] = until[k]
  BY <1>9 DEF Arm
<1> QED
  BY <1>7, <1>8, <1>9, HistoryStep

\* No arming while the breaker is open, whoever arms.
LEMMA ArmsWaitForBreaker ==
  ASSUME PInv, HistoryPast, CooldownsRun, ArmsWait, [Next]_vars
  PROVE  ArmsWait'
<1> DEFINE Waits(a, o, l) ==
             \A i \in 1..Len(o) : Row(o, i, l[1]) =>
               \A j \in 1..Len(a) : a[j].after >= i => a[j].at >= o[i].at + l[2]
<1>1. \A k, l : Watched(k, l) => Waits(arms[k], outcomes[k], l)
  BY DEF ArmsWait
<1>2. SUFFICES ASSUME NEW k, NEW l, Watched(k, l)'
               PROVE  Waits(arms'[k], outcomes'[k], l)
  BY DEF ArmsWait
<1>3. Watched(k, l)
  BY <1>2, StillWatched
<1>4. Waits(arms[k], outcomes[k], l)
  BY <1>1, <1>3
<1>6. /\ Len(outcomes[k]) \in Nat /\ Len(arms[k]) \in Nat
      /\ until[k] \in Nat /\ clock \in Nat
      /\ l[1] \in Nat /\ l[2] \in Nat
      /\ \A i \in 1..Len(outcomes[k]) : outcomes[k][i].at \in Nat
      /\ \A a \in 1..Len(arms[k]) :
           arms[k][a].after \in Nat /\ arms[k][a].after <= Len(outcomes[k])
  BY <1>3, WatchedTypes
<1>7. CASE arms'[k] = arms[k] /\ outcomes'[k] = outcomes[k]
  BY <1>4, <1>7
<1>8. ASSUME NEW t \in Thread, Arm(t)
      PROVE  Waits(arms'[k], outcomes'[k], l)
  <2>1. outcomes' = outcomes
    BY <1>8 DEF Arm
  <2>2. CASE k # key(t)
    <3>1. arms'[k] = arms[k]
      BY <1>3, <1>8, <2>2, ArmAppends DEF Watched
    <3> QED
      BY <1>4, <2>1, <3>1
  <2>3. CASE k = key(t)
    <3> DEFINE last == Len(arms[k])
    <3>1. /\ Len(arms'[k]) = last + 1
          /\ \A j \in 1..last : arms'[k][j] = arms[k][j]
      BY <1>8, <2>3, ArmAppends
    <3>2. arms'[k][last + 1].at = clock
      <4>1. arms'[k][last + 1] = [at |-> clock, after |-> Len(outcomes[k]),
                                  hour |-> file[t].hour, day |-> file[t].day]
        BY <1>8, <2>3, ArmAppends
      <4> QED
        BY <4>1
    <3>3. clock >= until[k]
      BY <1>6, <1>8, <2>3 DEF Arm, Open
    <3> HIDE DEF last
    <3>4. ASSUME NEW i \in 1..Len(outcomes[k]), Row(outcomes[k], i, l[1]),
                 NEW j \in 1..last + 1, arms'[k][j].after >= i
          PROVE  arms'[k][j].at >= outcomes[k][i].at + l[2]
      <4>1. CASE j = last + 1
        <5>1. until[k] >= outcomes[k][i].at + l[2]
          BY <1>3, <3>4 DEF CooldownsRun
        <5> QED
          BY <1>6, <3>2, <3>3, <4>1, <5>1
      <4>2. CASE j # last + 1
        <5>1. j \in 1..last
          BY <1>6, <4>2 DEF last
        <5>2. arms'[k][j] = arms[k][j]
          BY <3>1, <5>1
        <5> QED
          BY <1>4, <3>4, <5>1, <5>2 DEF last
      <4> QED
        BY <4>1, <4>2
    <3> QED
      BY <2>1, <3>1, <3>4
  <2> QED
    BY <2>2, <2>3
<1>9. ASSUME NEW t \in Thread, Report(t)
      PROVE  Waits(arms'[k], outcomes'[k], l)
  <2> DEFINE m == Len(outcomes[k])
  <2>1. arms' = arms
    BY <1>9 DEF Report
  <2>2. CASE k # key(t)
    <3>1. outcomes'[k] = outcomes[k]
      BY <1>3, <1>9, <2>2, WatchedReport
    <3> QED
      BY <1>4, <2>1, <3>1
  <2>3. CASE k = key(t)
    <3>1. /\ m \in Nat /\ Len(outcomes'[k]) = m + 1
          /\ \A i \in 1..m : outcomes'[k][i] = outcomes[k][i]
      BY <1>3, <1>9, <2>3, WatchedReport
    <3> HIDE DEF m
    <3>2. ASSUME NEW i \in 1..m + 1, Row(outcomes'[k], i, l[1]),
                 NEW j \in 1..Len(arms[k]), arms[k][j].after >= i
          PROVE  arms[k][j].at >= outcomes'[k][i].at + l[2]
      <4>1. arms[k][j].after \in Nat /\ arms[k][j].after <= m
        BY <1>6 DEF m
      <4>2. i \in 1..m /\ i \in Nat
        BY <3>1, <3>2, <4>1
      <4>3. outcomes'[k][i] = outcomes[k][i]
        BY <3>1, <4>2
      <4>4. \A p \in 1..i : outcomes'[k][p] = outcomes[k][p]
        BY <3>1, <4>2
      <4>5. Row(outcomes[k], i, l[1])
        <5>1. l[1] \in Nat
          BY <1>6
        <5>2. Row(outcomes'[k], i, l[1]) <=> Row(outcomes[k], i, l[1])
          BY ONLY <4>2, <4>4, <5>1, RowsRemain
        <5> QED
          BY <3>2, <5>2
      <4> QED
        BY <1>4, <3>2, <4>2, <4>3, <4>5 DEF m
    <3> QED
      BY <2>1, <3>1, <3>2
  <2> QED
    BY <2>2, <2>3
<1>10. CASE UNCHANGED <<arms, outcomes, failures, until>>
  BY <1>7, <1>10
<1> QED
  BY <1>8, <1>9, <1>10, HistoryStep

\* Whoever holds a pattern back does so for a row of failures.
LEMMA CooldownsJustified ==
  ASSUME PInv, RowsCounted, HistoryPast, BreakerJustified, [Next]_vars
  PROVE  BreakerJustified'
<1> DEFINE Caused(u, o, limits) ==
             u > 0 => \E l \in limits : \E i \in 1..Len(o) :
                        Row(o, i, l[1]) /\ u = o[i].at + l[2]
<1>1. \A k \in Key : Caused(until[k], outcomes[k], EverLimits(k[1]))
  BY DEF BreakerJustified, FailedRow, Row
<1>2. SUFFICES ASSUME NEW k \in Key
               PROVE  Caused(until'[k], outcomes'[k], EverLimits(k[1])')
  BY DEF BreakerJustified, FailedRow, Row
<1>3. SUFFICES Caused(until'[k], outcomes'[k], EverLimits(k[1]))
  BY EverLimitsGrow
<1> DEFINE m == Len(outcomes[k])
<1>4. /\ m \in Nat /\ failures[k] \in Nat /\ until[k] \in Nat /\ clock \in Nat
      /\ \A l \in EverLimits(k[1]) : l[1] \in Nat \ {0} /\ l[2] \in Nat
  <2>1. outcomes[k] \in Seq(Outcome)
    BY DEF PInv, TypeOK
  <2> QED
    BY <2>1, EverLimitsType DEF PInv, TypeOK
<1>5. CASE until'[k] = until[k] /\ outcomes'[k] = outcomes[k]
  BY <1>1, <1>5
<1>6. ASSUME NEW t \in Thread, Arm(t)
      PROVE  until'[k] = until[k] /\ outcomes'[k] = outcomes[k]
  BY <1>6 DEF Arm
<1>7. ASSUME NEW t \in Thread, Report(t)
      PROVE  Caused(until'[k], outcomes'[k], EverLimits(k[1]))
  <2>1. CASE k # key(t)
    <3>1. until'[k] = until[k] /\ outcomes'[k] = outcomes[k]
      BY <1>7, <2>1, ReportAppends
    <3> QED
      BY <1>5, <3>1
  <2>2. CASE k = key(t)
    <3> DEFINE new == outcomes'[k][m + 1]
    <3>1. /\ Len(outcomes'[k]) = m + 1
          /\ \A i \in 1..m : outcomes'[k][i] = outcomes[k][i]
          /\ new.at = clock
          /\ \/ until'[k] = until[k]
             \/ /\ ~new.success
                /\ \E l \in Limits(k[1]) :
                     failures[k] + 1 >= l[1] /\ until'[k] = clock + l[2]
      BY <1>7, <2>2, ReportAppends
    <3> HIDE DEF m
    <3>2. CASE until'[k] = until[k]
      <4>1. SUFFICES ASSUME until[k] > 0
                     PROVE  \E l \in EverLimits(k[1]) : \E i \in 1..m + 1 :
                              /\ Row(outcomes'[k], i, l[1])
                              /\ until[k] = outcomes'[k][i].at + l[2]
        BY <3>1, <3>2
      <4>2. PICK l \in EverLimits(k[1]) : \E i \in 1..m :
              Row(outcomes[k], i, l[1]) /\ until[k] = outcomes[k][i].at + l[2]
        BY <1>1, <4>1 DEF m
      <4>3. PICK i \in 1..m :
              Row(outcomes[k], i, l[1]) /\ until[k] = outcomes[k][i].at + l[2]
        BY <4>2
      <4>4. i \in Nat /\ l[1] \in Nat /\ i \in 1..m + 1
        BY <1>4
      <4>5. \A p \in 1..i : outcomes'[k][p] = outcomes[k][p]
        BY <1>4, <3>1
      <4>6. Row(outcomes'[k], i, l[1]) <=> Row(outcomes[k], i, l[1])
        BY ONLY <4>4, <4>5, RowsRemain
      <4>7. outcomes'[k][i] = outcomes[k][i]
        BY <3>1
      <4> QED
        BY <4>3, <4>4, <4>6, <4>7
    <3>3. CASE until'[k] # until[k]
      <4>1. ~new.success
        BY <3>1, <3>3
      <4>2. PICK l \in Limits(k[1]) : failures[k] + 1 >= l[1] /\ until'[k] = clock + l[2]
        BY <3>1, <3>3
      <4>3. l \in EverLimits(k[1]) /\ l[1] \in Nat \ {0}
        BY <1>4, LimitsEver DEF PInv
      <4>4. /\ failures[k] <= m
            /\ \A j \in m - failures[k] + 1..m : ~outcomes[k][j].success
        BY DEF RowsCounted, m
      <4>5. \A j \in (m + 1) - l[1] + 1..m + 1 : ~outcomes'[k][j].success
        <5> SUFFICES ASSUME NEW j \in (m + 1) - l[1] + 1..m + 1
                     PROVE  ~outcomes'[k][j].success
          OBVIOUS
        <5>1. j = m + 1 \/ (j \in m - failures[k] + 1..m /\ j \in 1..m)
          BY <1>4, <4>2, <4>3, <4>4
        <5> QED
          BY <3>1, <4>1, <4>4, <5>1
      <4>6. m + 1 >= l[1]
        BY <1>4, <4>2, <4>3, <4>4
      <4>7. Row(outcomes'[k], m + 1, l[1])
        BY ONLY <4>5, <4>6 DEF Row
      <4>8. m + 1 \in 1..m + 1 /\ until'[k] = new.at + l[2]
        BY <1>4, <3>1, <4>2
      <4> QED
        BY <3>1, <4>3, <4>7, <4>8
    <3> QED
      BY <3>2, <3>3
  <2> QED
    BY <2>1, <2>2
<1>8. CASE UNCHANGED <<arms, outcomes, failures, until>>
  BY <1>5, <1>8
<1> QED
  BY <1>5, <1>6, <1>7, <1>8, HistoryStep

\* The counters, the history and the running cooldowns agree, whoever arms and
\* reports, and whatever limits the files give the patterns.
LEMMA CountersInvariant == Spec => [](PInv /\ RowsCounted /\ HistoryPast /\ CooldownsRun)
<1>1. Init => RowsCounted /\ HistoryPast /\ CooldownsRun
  BY DEF Init, RowsCounted, HistoryPast, CooldownsRun, Watched
<1>2. PInv /\ RowsCounted /\ [Next]_vars => RowsCounted'
  BY RowsStayCounted
<1>3. PInv /\ HistoryPast /\ [Next]_vars => HistoryPast'
  BY HistoryStaysPast
<1>4. PInv /\ RowsCounted /\ HistoryPast /\ CooldownsRun /\ [Next]_vars => CooldownsRun'
  BY CooldownStays
<1> QED
  BY <1>1, <1>2, <1>3, <1>4, LedgerInvariant, PTL DEF Spec

\* In every reachable state they agree for the loosest limits.
THEOREM EngineInvariant == Spec => []EngineInv
<1>1. PInv /\ RowsCounted /\ HistoryPast /\ CooldownsRun => EngineInv
  BY CooldownRunsFollows DEF EngineInv, PInv
<1> QED
  BY <1>1, CountersInvariant, PTL

\* However the files are edited: a pattern whose failures reached the highest
\* threshold it ever had is not armed on that target before its shortest
\* cooldown is over.
THEOREM BreakersHold == Spec => []BreakerHolds
<1>1. Init => ArmsWait
  BY DEF Init, ArmsWait, Watched
<1>2. /\ PInv /\ RowsCounted /\ HistoryPast /\ CooldownsRun /\ ArmsWait
      /\ [Next]_vars
      => ArmsWait'
  BY ArmsWaitForBreaker
<1>3. PInv /\ ArmsWait => BreakerHolds
  BY BreakerHoldsFollows DEF PInv
<1> QED
  BY <1>1, <1>2, <1>3, CountersInvariant, PTL DEF Spec

\* And it is held back for nothing but a row of failures that reached a
\* threshold it had.
THEOREM BreakersJustified == Spec => []BreakerJustified
<1>1. Init => BreakerJustified
  BY DEF Init, BreakerJustified
<1>2. EngineInv /\ BreakerJustified /\ [Next]_vars => BreakerJustified'
  BY CooldownsJustified DEF EngineInv
<1> QED
  BY <1>1, <1>2, EngineInvariant, PTL DEF Spec

\* A lone thread loads and matches what is at least as new as its call.
LEMMA LoneLoadsFresh ==
  ASSUME \A t, u \in Thread : t = u, TypeOK, LoadsFresh, [Next]_vars
  PROVE  LoadsFresh'
<1> USE DEF TypeOK, LoadsFresh, OnDisk, Goto
<1>1. CASE UNCHANGED vars
  BY <1>1 DEF vars, fileVars, callVars
<1>2. ASSUME NEW t \in Thread, Enter(t) PROVE LoadsFresh'
  BY <1>2 DEF Enter, fileVars
<1>3. ASSUME NEW t \in Thread, Unchanged(t) PROVE LoadsFresh'
  BY <1>3 DEF Unchanged, fileVars, callVars
<1>4. ASSUME NEW t \in Thread, ReadFiles(t) PROVE LoadsFresh'
  BY <1>4 DEF ReadFiles, fileVars
<1>5. ASSUME NEW t \in Thread, SetPatterns(t) PROVE LoadsFresh'
  BY <1>5 DEF SetPatterns, callVars
<1>6. ASSUME NEW t \in Thread, SetMtimes(t) PROVE LoadsFresh'
  BY <1>6 DEF SetMtimes, callVars
<1>7. ASSUME NEW t \in Thread, Match(t) PROVE LoadsFresh'
  <2>0. \A u \in Thread : u = t
    OBVIOUS
  <2>1. PICK i \in Loaded(loaded) : file' = [file EXCEPT ![t] = files[loaded][i]]
    BY <1>7 DEF Match
  <2>2. i \in 1..Len(files[loaded]) /\ loaded \in since[t]..OnDisk
    BY <1>7 DEF Loaded, Match
  <2>3. \E v \in since[t]..OnDisk :
          \E j \in 1..Len(files[v]) : files[v][j] = file'[t]
    BY <2>1, <2>2
  <2>4. /\ pc'[t] = "arm" /\ pc[t] = "choose"
        /\ UNCHANGED <<files, loaded, mtimes, since, snap>>
    BY <1>7 DEF Match, fileVars
  <2>5. loaded' = mtimes'
    BY <2>0, <2>4
  <2> HIDE DEF TypeOK, OnDisk, Goto
  <2>6. \E v \in (since[t]..OnDisk)' :
          \E j \in 1..Len(files'[v]) : files'[v][j] = file'[t]
    BY <2>3, <2>4 DEF OnDisk
  <2> QED
    BY <2>0, <2>4, <2>5, <2>6
<1>8. ASSUME NEW t \in Thread,
             NoMatch(t) \/ Broken(t) \/ RateLimited(t) \/ Arm(t) \/ Report(t)
      PROVE  LoadsFresh'
  BY <1>8 DEF NoMatch, Broken, RateLimited, Arm, Report, fileVars, callVars
<1>9. CASE Edit
  <2>1. /\ Len(files') = Len(files) + 1
        /\ \A v \in 1..Len(files) : files'[v] = files[v]
    BY <1>9 DEF Edit
  <2>2. UNCHANGED <<loaded, mtimes, pc, since, snap, file>>
    BY <1>9 DEF Edit, callVars
  <2>3. ASSUME NEW t \in Thread, pc[t] = "arm"
        PROVE  \E v \in (since[t]..OnDisk)' :
                 \E i \in 1..Len(files'[v]) : files'[v][i] = file[t]
    <3>1. PICK v \in since[t]..Len(files) :
            \E i \in 1..Len(files[v]) : files[v][i] = file[t]
      BY <2>3
    <3>2. since[t] \in 1..Len(files) /\ v \in 1..Len(files)
      BY <3>1
    <3>3. files'[v] = files[v] /\ v \in since'[t]..Len(files')
      BY <2>1, <2>2, <3>2, <3>1
    <3> QED
      BY <3>1, <3>3
  <2> HIDE DEF TypeOK, OnDisk
  <2> QED
    BY <2>2, <2>3
<1>10. CASE Tick
  BY <1>10 DEF Tick, fileVars, callVars
<1>11. ASSUME NEW t \in Thread, CheckFails(t) PROVE LoadsFresh'
  <2>1. /\ pc[t] = "check" /\ pc'[t] = "choose" /\ \A u \in Thread : u = t
        /\ since'[t] <= mtimes /\ UNCHANGED fileVars
    BY <1>11 DEF CheckFails
  <2>2. loaded = mtimes
    BY <2>1
  <2> QED
    BY <2>1, <2>2 DEF fileVars
<1> QED
  BY <1>1, <1>2, <1>3, <1>4, <1>5, <1>6, <1>7, <1>8, <1>9, <1>10, <1>11 DEF Next

\* A process with one thread arms no pattern that was revoked before its call or,
\* when the call's check of the files fails, before the last check that did not;
\* one with more threads may (run patterns_stale_reload).
THEOREM LoneThreadArmsFresh ==
  ASSUME \A t, u \in Thread : t = u
  PROVE  Spec => NoRevokedArm
<1>1. Init => LoadsFresh
  BY DEF Init, LoadsFresh
<1>2. TypeOK /\ LoadsFresh /\ [Next]_vars => LoadsFresh'
  BY LoneLoadsFresh
<1>3. LoadsFresh /\ [Next]_vars =>
        [\A t \in Thread : pc[t] = "arm" /\ pc'[t] = "armed" =>
           \E v \in since[t]..OnDisk : \E i \in 1..Len(files[v]) :
             files[v][i] = file[t]]_vars
  BY DEF LoadsFresh
<1>4. PInv => TypeOK
  BY DEF PInv
<1> QED
  BY <1>1, <1>2, <1>3, <1>4, LedgerInvariant, PTL DEF Spec, NoRevokedArm
=============================================================================
