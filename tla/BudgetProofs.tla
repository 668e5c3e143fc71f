---------------------------- MODULE BudgetProofs ----------------------------
(***************************************************************************)
(* Theorems of Budget, for any number of threads and fingerprints, any     *)
(* limits and any horizon: the invariant of the tracker, and that every    *)
(* runaway refusal has its cause.                                          *)
(***************************************************************************)
EXTENDS Budget, FiniteSetTheorems, TLAPS

\* Dropping stale stamps and recording a call keeps the chronicle: the deque
\* stays a suffix of at most RunawayMax calls, in the order of time.
LEMMA CheckKeepsChronicle ==
  ASSUME BInv, NEW t \in Thread, CheckWindow(t)
  PROVE  BInv'
<1> DEFINE f == key[t]
<1>0. f \in Fingerprint /\ stamp[t] \in Nat /\ stamp[t] <= clock
  BY DEF BInv, TypeOK, StampsPast
<1>1. PICK to \in popped[f]..Len(admitted[f]) :
        /\ popped' = [popped EXCEPT ![f] = to]
        /\ \/ /\ Full(f, to)
              /\ Refuse(t, "budget_runaway")
           \/ /\ ~Full(f, to)
              /\ pc' = [pc EXCEPT ![t] = "run"]
              /\ admitted' = [admitted EXCEPT ![f] =
                                Append(@, [stamp |-> stamp[t], at |-> clock])]
              /\ totalCalls' = totalCalls + 1
              /\ UNCHANGED <<clock, key, stamp, rule, totalSeconds>>
  BY DEF CheckWindow
<1>2. /\ admitted[f] \in Seq(Admission)
      /\ popped[f] \in Nat
      /\ Len(admitted[f]) \in Nat
      /\ to \in Nat
      /\ popped[f] <= to
      /\ to <= Len(admitted[f])
  BY <1>0 DEF BInv, TypeOK
<1>3. ~CallsReached
  BY DEF CheckWindow
<1>4. CASE Refuse(t, "budget_runaway")
  <2>1. TypeOK'
    BY <1>1, <1>2, <1>4 DEF BInv, TypeOK, Refuse, Rule
  <2>2. /\ admitted' = admitted
        /\ clock' = clock
        /\ popped'[f] = to
        /\ \A g \in Fingerprint \ {f} : popped'[g] = popped[g]
    BY <1>0, <1>1, <1>4 DEF BInv, TypeOK, Refuse
  <2>3. Chronicle'
    <3>1. ASSUME NEW g \in Fingerprint
          PROVE  /\ popped'[g] <= Len(admitted[g])
                 /\ Len(admitted[g]) - popped'[g] <= RunawayMax
      <4>1. /\ Len(admitted[f]) - popped[f] <= RunawayMax
            /\ RunawayMax \in Nat
        BY <1>0, LimitsAssumption DEF BInv, Chronicle
      <4>2. CASE g = f
        BY <1>2, <2>2, <4>1, <4>2
      <4>3. CASE g # f
        BY <2>2, <4>3 DEF BInv, Chronicle
      <4> QED
        BY <4>2, <4>3
    <3> QED
      BY <2>2, <3>1 DEF BInv, Chronicle
  <2>4. StampsPast' /\ (totalCalls <= MaxCalls)'
    BY <1>4 DEF BInv, StampsPast, Refuse
  <2> QED
    BY <2>1, <2>3, <2>4 DEF BInv
<1>5. CASE /\ ~Full(f, to)
           /\ pc' = [pc EXCEPT ![t] = "run"]
           /\ admitted' = [admitted EXCEPT ![f] =
                             Append(@, [stamp |-> stamp[t], at |-> clock])]
           /\ totalCalls' = totalCalls + 1
           /\ UNCHANGED <<clock, key, stamp, rule, totalSeconds>>
  <2> DEFINE new == [stamp |-> stamp[t], at |-> clock]
  <2>1. new \in Admission
    BY <1>0 DEF BInv, TypeOK, Admission
  <2>2. /\ admitted' \in [Fingerprint -> Seq(Admission)]
        /\ admitted'[f] = Append(admitted[f], new)
        /\ \A g \in Fingerprint \ {f} : admitted'[g] = admitted[g]
    BY <1>0, <1>2, <1>5, <2>1 DEF BInv, TypeOK
  <2>3. /\ Len(admitted'[f]) = Len(admitted[f]) + 1
        /\ \A i \in 1..Len(admitted[f]) : admitted'[f][i] = admitted[f][i]
        /\ admitted'[f][Len(admitted[f]) + 1] = new
    BY <1>2, <2>1, <2>2
  <2>4. TypeOK'
    BY <1>1, <1>2, <1>5, <2>2 DEF BInv, TypeOK
  <2>5. ASSUME NEW g \in Fingerprint
        PROVE  /\ popped'[g] <= Len(admitted'[g])
               /\ Len(admitted'[g]) - popped'[g] <= RunawayMax
               /\ \A i \in 1..Len(admitted'[g]) :
                    /\ admitted'[g][i].stamp <= admitted'[g][i].at
                    /\ admitted'[g][i].at <= clock'
                    /\ \A j \in 1..i :
                         admitted'[g][j].at <= admitted'[g][i].at
    <3>1. CASE g # f
      BY <1>1, <1>5, <2>2, <3>1 DEF BInv, TypeOK, Chronicle
    <3>2. CASE g = f
      <4>1. popped'[f] = to
        BY <1>0, <1>1 DEF BInv, TypeOK
      <4>2. /\ popped'[f] <= Len(admitted'[f])
            /\ Len(admitted'[f]) - popped'[f] <= RunawayMax
        BY <1>2, <1>5, <2>3, <4>1, LimitsAssumption DEF Full
      <4>3. ASSUME NEW i \in 1..Len(admitted[f])
            PROVE  /\ admitted'[f][i].stamp <= admitted'[f][i].at
                   /\ admitted'[f][i].at <= clock'
                   /\ \A j \in 1..i : admitted'[f][j].at <= admitted'[f][i].at
        <5>1. /\ admitted'[f][i] = admitted[f][i]
              /\ \A j \in 1..i : admitted'[f][j] = admitted[f][j]
              /\ clock' = clock
          BY <1>2, <1>5, <2>3
        <5>2. /\ admitted[f][i].stamp <= admitted[f][i].at
              /\ admitted[f][i].at <= clock
              /\ \A j \in 1..i : admitted[f][j].at <= admitted[f][i].at
          BY <1>0 DEF BInv, Chronicle
        <5> QED
          BY <5>1, <5>2
      <4>4. /\ new.stamp <= new.at
            /\ new.at = clock'
            /\ \A j \in 1..Len(admitted[f]) : admitted'[f][j].at <= new.at
        BY <1>0, <1>5, <4>3
      <4>5. \A j \in 1..Len(admitted[f]) + 1 : admitted'[f][j].at <= new.at
        BY <1>2, <2>3, <4>4 DEF BInv, TypeOK
      <4>6. ASSUME NEW i \in 1..Len(admitted'[f])
            PROVE  /\ admitted'[f][i].stamp <= admitted'[f][i].at
                   /\ admitted'[f][i].at <= clock'
                   /\ \A j \in 1..i : admitted'[f][j].at <= admitted'[f][i].at
        <5>1. CASE i = Len(admitted[f]) + 1
          <6>1. admitted'[f][i] = new /\ new.at \in Nat
            BY <2>1, <2>3, <5>1 DEF Admission
          <6> QED
            BY <1>2, <4>4, <4>5, <5>1, <6>1
        <5>2. CASE i # Len(admitted[f]) + 1
          <6>1. i \in 1..Len(admitted[f])
            BY <1>2, <2>3, <5>2
          <6> QED
            BY <4>3, <6>1
        <5> QED
          BY <5>1, <5>2
      <4> QED
        BY <3>2, <4>2, <4>6
    <3> QED
      BY <3>1, <3>2
  <2>6. Chronicle'
    BY <2>5 DEF Chronicle
  <2>7. StampsPast' /\ (totalCalls <= MaxCalls)'
    BY <1>3, <1>5, LimitsAssumption DEF BInv, TypeOK, StampsPast, CallsReached
  <2> QED
    BY <2>4, <2>6, <2>7 DEF BInv
<1> QED
  BY <1>1, <1>4, <1>5

\* BInv is inductive.
LEMMA StepKeeps ==
  ASSUME BInv, [Next]_vars
  PROVE  BInv'
<1>1. ASSUME NEW t \in Thread, Call(t)
      PROVE  BInv'
  <2>1. TypeOK'
    BY <1>1 DEF BInv, TypeOK, Call, Rule
  <2>2. Chronicle' /\ (totalCalls <= MaxCalls)'
    BY <1>1 DEF BInv, Chronicle, Call
  <2>3. StampsPast'
    BY <1>1 DEF BInv, TypeOK, StampsPast, Call
  <2> QED
    BY <2>1, <2>2, <2>3 DEF BInv
<1>2. ASSUME NEW t \in Thread, RefuseCeiling(t)
      PROVE  BInv'
  <2>1. PICK why \in Rule : Refuse(t, why) /\ UNCHANGED popped
    BY <1>2 DEF RefuseCeiling, Rule
  <2>2. TypeOK'
    BY <2>1 DEF BInv, TypeOK, Refuse
  <2>3. Chronicle' /\ StampsPast' /\ (totalCalls <= MaxCalls)'
    BY <2>1 DEF BInv, Chronicle, StampsPast, Refuse
  <2> QED
    BY <2>2, <2>3 DEF BInv
<1>3. ASSUME NEW t \in Thread, CheckWindow(t)
      PROVE  BInv'
  BY <1>3, CheckKeepsChronicle
<1>4. ASSUME NEW t \in Thread, AddDuration(t)
      PROVE  BInv'
  <2>1. clock - stamp[t] \in Nat
    BY DEF BInv, TypeOK, StampsPast
  <2>2. TypeOK'
    BY <1>4, <2>1 DEF BInv, TypeOK, Rule, AddDuration
  <2>3. Chronicle' /\ StampsPast' /\ (totalCalls <= MaxCalls)'
    BY <1>4 DEF BInv, TypeOK, Chronicle, StampsPast, AddDuration
  <2> QED
    BY <2>2, <2>3 DEF BInv
<1>5. ASSUME Tick
      PROVE  BInv'
  <2>1. TypeOK' /\ StampsPast' /\ (totalCalls <= MaxCalls)'
    BY <1>5 DEF BInv, TypeOK, StampsPast, Tick
  <2>2. ASSUME NEW f \in Fingerprint, NEW i \in 1..Len(admitted[f])
        PROVE  admitted[f][i].at <= clock'
    <3>1. admitted[f][i] \in Admission
      BY DEF BInv, TypeOK
    <3> QED
      BY <1>5, <3>1 DEF BInv, TypeOK, Chronicle, Tick, Admission
  <2>3. Chronicle'
    BY <1>5, <2>2 DEF BInv, Chronicle, Tick
  <2> QED
    BY <2>1, <2>3 DEF BInv
<1>6. CASE UNCHANGED vars
  BY <1>6 DEF BInv, TypeOK, Chronicle, StampsPast, vars
<1> QED
  BY <1>1, <1>2, <1>3, <1>4, <1>5, <1>6 DEF Next

\* The tracker's totals, windows and history agree in every reachable state,
\* and the call ceiling is never exceeded.
THEOREM TrackerInvariant == Spec => []BInv
<1>1. Init => BInv
  BY LimitsAssumption DEF Init, BInv, TypeOK, Chronicle, StampsPast, Rule
<1>2. BInv /\ [Next]_vars => BInv'
  BY StepKeeps
<1> QED
  BY <1>1, <1>2, PTL DEF Spec

\* When the head of the deque is not older than the cutoff, no call behind it
\* was recorded before the cutoff, whatever its own stamp says.
LEMMA BehindTheHead ==
  ASSUME BInv, NEW f \in Fingerprint, NEW cutoff \in Int,
         NEW to \in 0..Len(admitted[f]),
         to < Len(admitted[f]) => admitted[f][to + 1].stamp >= cutoff
  PROVE  to + 1..Len(admitted[f]) \subseteq Since(f, cutoff)
<1>1. Len(admitted[f]) \in Nat
  BY DEF BInv, TypeOK
<1>2. ASSUME NEW i \in to + 1..Len(admitted[f])
      PROVE  i \in 1..Len(admitted[f]) /\ admitted[f][i].at >= cutoff
  <2>1. to + 1 \in 1..i /\ i \in 1..Len(admitted[f]) /\ to < Len(admitted[f])
    BY <1>1
  <2>2. to + 1 \in 1..Len(admitted[f])
    BY <1>1, <2>1
  <2>3. admitted[f][i] \in Admission /\ admitted[f][to + 1] \in Admission
    BY <2>1, <2>2 DEF BInv, TypeOK
  <2>4. /\ admitted[f][to + 1].stamp <= admitted[f][to + 1].at
        /\ admitted[f][to + 1].at <= admitted[f][i].at
    BY <2>1, <2>2 DEF BInv, Chronicle
  <2> QED
    BY <2>1, <2>3, <2>4 DEF Admission
<1> QED
  BY <1>2 DEF Since

\* A refusal counts the deque, and the deque counts real calls.
LEMMA StepJustified ==
  ASSUME BInv, NEW t \in Thread, Next,
         rule[t] = "none", rule'[t] = "budget_runaway"
  PROVE  Cardinality(Since(key[t], stamp[t] - Window)) >= RunawayMax
<1> DEFINE f == key[t]
           cutoff == stamp[t] - Window
<1>1. CheckWindow(t) /\ rule' # rule
  BY DEF Next, Call, RefuseCeiling, CheckWindow, Refuse, AddDuration, Tick,
         BInv, TypeOK
<1>2. f \in Fingerprint /\ cutoff \in Int
  BY LimitsAssumption DEF BInv, TypeOK
<1>3. PICK to \in popped[f]..Len(admitted[f]) :
        Pop(admitted[f], popped[f], cutoff, to) /\ Full(f, to)
  BY <1>1 DEF CheckWindow
<1>4. Len(admitted[f]) \in Nat /\ popped[f] \in Nat
  BY <1>2 DEF BInv, TypeOK
<1>5. to \in 0..Len(admitted[f])
  BY <1>3, <1>4
<1>6. to + 1..Len(admitted[f]) \subseteq Since(f, cutoff)
  BY <1>2, <1>3, <1>5, BehindTheHead DEF Pop
<1>7. Cardinality(to + 1..Len(admitted[f])) >= RunawayMax
  <2>1. to + 1 \in Int /\ Len(admitted[f]) \in Int
    BY <1>4, <1>5
  <2>2. Cardinality(to + 1..Len(admitted[f])) =
          IF to + 1 > Len(admitted[f]) THEN 0 ELSE Len(admitted[f]) - (to + 1) + 1
    BY <2>1, FS_Interval
  <2>3. Len(admitted[f]) - to >= RunawayMax /\ RunawayMax \in Nat \ {0}
    BY <1>3, LimitsAssumption DEF Full
  <2> QED
    BY <1>4, <1>5, <2>2, <2>3
<1>8. IsFiniteSet(Since(f, cutoff))
  <2>1. IsFiniteSet(1..Len(admitted[f]))
    BY <1>4, FS_Interval
  <2>2. Since(f, cutoff) \subseteq 1..Len(admitted[f])
    BY DEF Since
  <2> QED
    BY <2>1, <2>2, FS_Subset
<1>9. Cardinality(to + 1..Len(admitted[f])) <= Cardinality(Since(f, cutoff))
  BY <1>6, <1>8, FS_Subset
<1>10. /\ Cardinality(Since(f, cutoff)) \in Nat
       /\ Cardinality(to + 1..Len(admitted[f])) \in Nat
  BY <1>6, <1>8, FS_Subset, FS_CardinalityType
<1> QED
  BY <1>7, <1>9, <1>10, LimitsAssumption

\* Every runaway refusal has its cause: RunawayMax calls with that
\* fingerprint were recorded since the window began.
THEOREM RefusalsJustified == Spec => RefusalJustified
<1>1. ASSUME BInv, [Next]_vars, NEW t \in Thread,
             rule[t] = "none", rule'[t] = "budget_runaway"
      PROVE  Cardinality(Since(key[t], stamp[t] - Window)) >= RunawayMax
  <2>1. Next
    BY <1>1 DEF vars
  <2> QED
    BY <1>1, <2>1, StepJustified
<1>2. BInv /\ [Next]_vars =>
        [\A t \in Thread :
           rule[t] = "none" /\ rule'[t] = "budget_runaway" =>
             Cardinality(Since(key[t], stamp[t] - Window)) >= RunawayMax]_vars
  BY <1>1
<1> QED
  BY <1>2, TrackerInvariant, PTL DEF Spec, RefusalJustified

-----------------------------------------------------------------------------
(* Bursts *)

\* Thread t leaves the lock with its call recorded, in a step ...
Recorded(t) ==
  /\ pc[t] = "check" /\ clock' = clock /\ stamp' = stamp
  /\ pc' = [pc EXCEPT ![t] = "run"]
  /\ admitted' = [admitted EXCEPT ![key[t]] =
                    Append(@, [stamp |-> stamp[t], at |-> clock])]

\* ... or no call is recorded, and no thread that came before now is at the lock
\* that was not there.
NoneRecorded ==
  /\ admitted' = admitted
  /\ \A time \in 0..clock : AtTheLock(time)' \subseteq AtTheLock(time)

\* A step records nothing, or it records the call of one thread.
LEMMA Recording ==
  ASSUME BInv, [Next]_vars
  PROVE  /\ clock' = clock \/ clock' = clock + 1
         /\ NoneRecorded \/ \E t \in Thread : Recorded(t)
<1>1. /\ clock \in Nat /\ stamp \in [Thread -> Nat]
      /\ pc \in [Thread -> {"idle", "check", "run", "finalize"}]
  BY DEF BInv, TypeOK
<1>2. ASSUME NEW t \in Thread, Call(t)
      PROVE  clock' = clock /\ NoneRecorded
  BY <1>1, <1>2 DEF Call, AtTheLock, NoneRecorded
<1>3. ASSUME NEW t \in Thread, RefuseCeiling(t)
      PROVE  clock' = clock /\ NoneRecorded
  BY <1>1, <1>3 DEF RefuseCeiling, Refuse, AtTheLock, NoneRecorded
<1>4. ASSUME NEW t \in Thread, CheckWindow(t)
      PROVE  clock' = clock /\ (NoneRecorded \/ Recorded(t))
  <2>1. CASE Refuse(t, "budget_runaway")
    BY <1>1, <1>4, <2>1 DEF CheckWindow, Refuse, AtTheLock, NoneRecorded
  <2>2. CASE ~Refuse(t, "budget_runaway")
    BY <1>4, <2>2 DEF CheckWindow, Recorded
  <2> QED
    BY <2>1, <2>2
<1>5. ASSUME NEW t \in Thread, AddDuration(t)
      PROVE  clock' = clock /\ NoneRecorded
  BY <1>1, <1>5 DEF AddDuration, AtTheLock, NoneRecorded
<1>6. ASSUME Tick
      PROVE  clock' = clock + 1 /\ NoneRecorded
  BY <1>1, <1>6 DEF Tick, AtTheLock, NoneRecorded
<1>7. CASE UNCHANGED vars
  BY <1>7 DEF vars, AtTheLock, NoneRecorded
<1> QED
  BY <1>2, <1>3, <1>4, <1>5, <1>6, <1>7 DEF Next

\* What a recorded call adds to the history.
LEMMA Appended ==
  ASSUME BInv, NEW t \in Thread, Recorded(t), NEW f \in Fingerprint
  PROVE  /\ f # key[t] => admitted'[f] = admitted[f]
         /\ f = key[t] =>
              /\ Len(admitted'[f]) = Len(admitted[f]) + 1
              /\ \A i \in 1..Len(admitted[f]) : admitted'[f][i] = admitted[f][i]
              /\ admitted'[f][Len(admitted[f]) + 1].stamp = stamp[t]
              /\ admitted'[f][Len(admitted[f]) + 1].at = clock
<1> DEFINE new == [stamp |-> stamp[t], at |-> clock]
<1>1. /\ new \in Admission /\ new.stamp = stamp[t] /\ new.at = clock
      /\ admitted[f] \in Seq(Admission)
  BY DEF BInv, TypeOK, Admission
<1>2. admitted'[f] = IF f = key[t] THEN Append(admitted[f], new) ELSE admitted[f]
  BY DEF Recorded, BInv, TypeOK
<1> HIDE DEF new
<1> QED
  BY <1>1, <1>2

\* A recorded call has a stamp and a time that has come.
LEMMA InHistory ==
  ASSUME BInv, NEW f \in Fingerprint, NEW i \in 1..Len(admitted[f])
  PROVE  /\ admitted[f][i].stamp \in Nat /\ admitted[f][i].at \in Nat
         /\ admitted[f][i].at <= clock
<1>1. admitted[f][i] \in Admission
  BY DEF BInv, TypeOK
<1>2. admitted[f][i].at <= clock
  BY DEF BInv, Chronicle
<1> QED
  BY <1>1, <1>2 DEF Admission

\* The calls recorded since a moment are finitely many, and in the history.
LEMMA SinceFinite ==
  ASSUME BInv, NEW f \in Fingerprint, NEW time
  PROVE  /\ Len(admitted[f]) \in Nat
         /\ Since(f, time) \subseteq 1..Len(admitted[f])
         /\ IsFiniteSet(Since(f, time))
<1>1. Len(admitted[f]) \in Nat
  BY DEF BInv, TypeOK
<1>2. IsFiniteSet(1..Len(admitted[f]))
  BY <1>1, FS_Interval
<1>3. Since(f, time) \subseteq 1..Len(admitted[f])
  BY DEF Since
<1> QED
  BY <1>1, <1>2, <1>3, FS_Subset

\* The deque drops nothing that is not older than a window.
LEMMA DroppedOld ==
  ASSUME BInv, PoppedOld, [Next]_vars
  PROVE  PoppedOld'
<1>1. SUFFICES ASSUME NEW f \in Fingerprint, NEW i \in 1..popped'[f]
               PROVE  admitted'[f][i].stamp < clock' - Window
  BY DEF PoppedOld
<1>2. /\ clock \in Nat /\ Window \in Nat /\ popped[f] \in Nat
      /\ clock' \in Nat /\ clock <= clock'
  BY Recording, LimitsAssumption DEF BInv, TypeOK
<1>3. CASE popped' = popped
  <2>1. i \in 1..popped[f] /\ i \in 1..Len(admitted[f])
    <3>1. popped[f] <= Len(admitted[f]) /\ Len(admitted[f]) \in Nat
      BY SinceFinite DEF BInv, Chronicle
    <3> QED
      BY <1>2, <1>3, <3>1
  <2>2. admitted[f][i].stamp < clock - Window /\ admitted[f][i].stamp \in Nat
    <3>1. admitted[f][i].stamp < clock - Window
      BY <2>1 DEF PoppedOld
    <3> QED
      BY <2>1, <3>1, InHistory
  <2>3. admitted'[f][i] = admitted[f][i]
    BY <2>1, Recording, Appended DEF NoneRecorded
  <2> QED
    BY <1>2, <2>2, <2>3
<1>4. CASE popped' # popped
  <2>1. PICK t \in Thread : CheckWindow(t)
    BY <1>4 DEF Next, Call, RefuseCeiling, AddDuration, Tick, vars
  <2>2. PICK to \in popped[key[t]]..Len(admitted[key[t]]) :
          /\ Pop(admitted[key[t]], popped[key[t]], stamp[t] - Window, to)
          /\ popped' = [popped EXCEPT ![key[t]] = to]
    BY <2>1 DEF CheckWindow
  <2>3. /\ key[t] \in Fingerprint /\ stamp[t] \in Nat /\ stamp[t] <= clock
        /\ Len(admitted[key[t]]) \in Nat /\ popped[key[t]] \in Nat
    BY SinceFinite DEF BInv, TypeOK, StampsPast
  <2>4. i \in 1..Len(admitted[f])
    <3>1. popped[f] <= Len(admitted[f]) /\ Len(admitted[f]) \in Nat
      BY SinceFinite DEF BInv, Chronicle
    <3>2. popped'[f] = IF f = key[t] THEN to ELSE popped[f]
      BY <2>2 DEF BInv, TypeOK
    <3> QED
      BY <1>2, <2>2, <2>3, <3>1, <3>2
  <2>5. admitted[f][i].stamp \in Nat
    BY <2>4, InHistory
  <2>6. admitted[f][i].stamp < clock - Window
    <3>1. CASE i \in 1..popped[f]
      BY <3>1 DEF PoppedOld
    <3>2. CASE i \notin 1..popped[f]
      <4>1. f = key[t]
        BY <2>2, <3>2 DEF BInv, TypeOK
      <4>2. i \in popped[f] + 1..to
        BY <1>2, <2>2, <2>3, <3>2, <4>1 DEF BInv, TypeOK
      <4>3. admitted[f][i].stamp < stamp[t] - Window
        BY <2>2, <4>1, <4>2 DEF Pop
      <4> QED
        BY <1>2, <2>3, <2>5, <4>3
    <3> QED
      BY <3>1, <3>2
  <2>7. admitted'[f][i] = admitted[f][i]
    BY <2>4, Recording, Appended DEF NoneRecorded
  <2> QED
    BY <1>2, <2>5, <2>6, <2>7
<1> QED
  BY <1>3, <1>4

\* A thread that is recorded late leaves the lock: it cannot be late again.
LEMMA LateOnce ==
  ASSUME BInv, StalledOnce, [Next]_vars
  PROVE  StalledOnce'
<1>1. SUFFICES ASSUME NEW f \in Fingerprint, NEW time \in 0..clock'
               PROVE  Cardinality(Stalled(f, time)') + Cardinality(AtTheLock(time)')
                        <= Cardinality(Thread)
  BY DEF StalledOnce
<1> DEFINE stalled  == Stalled(f, time)
           stalled2 == Stalled(f, time)'
           late     == AtTheLock(time)
           late2    == AtTheLock(time)'
<1> SUFFICES Cardinality(stalled2) + Cardinality(late2) <= Cardinality(Thread)
  OBVIOUS
<1>2. /\ clock \in Nat /\ time \in Nat /\ Cardinality(Thread) \in Nat
      /\ clock' = clock \/ clock' = clock + 1
  BY Recording, ThreadAssumption, FS_CardinalityType DEF BInv, TypeOK
<1>3. /\ late \subseteq Thread /\ late2 \subseteq Thread
      /\ IsFiniteSet(late) /\ Cardinality(late) \in Nat
      /\ IsFiniteSet(late2) /\ Cardinality(late2) \in Nat
      /\ Cardinality(late2) <= Cardinality(Thread)
  <2>1. late \subseteq Thread /\ late2 \subseteq Thread
    BY DEF AtTheLock
  <2> HIDE DEF late, late2
  <2> QED
    BY <2>1, ThreadAssumption, FS_Subset, FS_CardinalityType
<1>4. IsFiniteSet(stalled) /\ Cardinality(stalled) \in Nat
  <2>1. stalled \subseteq Since(f, time) /\ IsFiniteSet(Since(f, time))
    BY SinceFinite DEF Stalled
  <2> HIDE DEF stalled
  <2> QED
    BY <2>1, FS_Subset, FS_CardinalityType
<1>5. CASE time > clock
  <2>1. NoneRecorded
    <3>1. clock' # clock
      BY <1>2, <1>5
    <3> QED
      BY <3>1, Recording DEF Recorded
  <2>2. stalled2 = {}
    BY <1>2, <1>5, <2>1, InHistory DEF NoneRecorded, Stalled, Since
  <2> HIDE DEF stalled2, late2
  <2> QED
    BY <1>2, <1>3, <2>2, FS_EmptySet
<1>6. CASE time <= clock
  <2>1. time \in 0..clock /\ Cardinality(stalled) + Cardinality(late) <= Cardinality(Thread)
    BY <1>2, <1>6 DEF StalledOnce
  <2>2. CASE NoneRecorded
    <3>1. stalled2 = stalled
      BY <2>2 DEF NoneRecorded, Stalled, Since
    <3>2. late2 \subseteq late
      BY <2>1, <2>2 DEF NoneRecorded
    <3> HIDE DEF stalled2, late2, stalled, late
    <3>3. Cardinality(late2) <= Cardinality(late)
      BY <1>3, <3>2, FS_Subset
    <3> QED
      BY <1>2, <1>3, <1>4, <2>1, <3>1, <3>3
  <2>3. ASSUME NEW t \in Thread, Recorded(t)
        PROVE  Cardinality(stalled2) + Cardinality(late2) <= Cardinality(Thread)
    <3>1. late2 \subseteq late \ {t}
      BY <2>3 DEF Recorded, AtTheLock, BInv, TypeOK
    <3>2. CASE t \in late
      <4>1. stalled2 \subseteq stalled \cup {Len(admitted[f]) + 1}
        <5>1. CASE f # key[t]
          BY <2>3, <5>1, Appended DEF Stalled, Since
        <5>2. CASE f = key[t]
          <6>1. /\ Len(admitted'[f]) = Len(admitted[f]) + 1
                /\ \A i \in 1..Len(admitted[f]) : admitted'[f][i] = admitted[f][i]
            BY <2>3, <5>2, Appended
          <6> QED
            BY <6>1, SinceFinite DEF Stalled, Since
        <5> QED
          BY <5>1, <5>2
      <4> HIDE DEF stalled2, late2, stalled, late
      <4>2. /\ IsFiniteSet(stalled \cup {Len(admitted[f]) + 1})
            /\ Cardinality(stalled \cup {Len(admitted[f]) + 1}) <= Cardinality(stalled) + 1
        <5> DEFINE next == Len(admitted[f]) + 1
        <5> HIDE DEF next
        <5>1. /\ IsFiniteSet(stalled \cup {next})
              /\ Cardinality(stalled \cup {next}) =
                   IF next \in stalled THEN Cardinality(stalled) ELSE Cardinality(stalled) + 1
          BY <1>4, FS_AddElement
        <5>2. Cardinality(stalled \cup {next}) <= Cardinality(stalled) + 1
          BY <1>4, <5>1
        <5> QED
          BY <5>1, <5>2 DEF next
      <4>3. Cardinality(stalled2) <= Cardinality(stalled) + 1 /\ Cardinality(stalled2) \in Nat
        <5>1. /\ IsFiniteSet(stalled2)
              /\ Cardinality(stalled2) <= Cardinality(stalled \cup {Len(admitted[f]) + 1})
          BY <4>1, <4>2, FS_Subset
        <5>2. /\ Cardinality(stalled2) \in Nat
              /\ Cardinality(stalled \cup {Len(admitted[f]) + 1}) \in Nat
          BY <4>2, <5>1, FS_CardinalityType
        <5> QED
          BY <1>4, <4>2, <5>1, <5>2
      <4>4. Cardinality(late2) <= Cardinality(late) - 1
        <5>1. IsFiniteSet(late \ {t}) /\ Cardinality(late \ {t}) = Cardinality(late) - 1
          BY <1>3, <3>2, FS_RemoveElement
        <5> QED
          BY <3>1, <5>1, FS_Subset
      <4> QED
        BY <1>2, <1>3, <1>4, <2>1, <4>3, <4>4
    <3>3. CASE t \notin late
      <4>1. stamp[t] >= time
        BY <1>2, <2>3, <3>3 DEF AtTheLock, Recorded, BInv, TypeOK
      <4>2. stalled2 = stalled
        <5>1. CASE f # key[t]
          BY <2>3, <5>1, Appended DEF Stalled, Since
        <5>2. CASE f = key[t]
          <6>1. /\ Len(admitted'[f]) = Len(admitted[f]) + 1
                /\ \A i \in 1..Len(admitted[f]) : admitted'[f][i] = admitted[f][i]
                /\ admitted'[f][Len(admitted[f]) + 1].stamp = stamp[t]
            BY <2>3, <5>2, Appended
          <6>2. ~(stamp[t] < time)
            BY <1>2, <4>1 DEF BInv, TypeOK
          <6>3. \A i : i \in 1..Len(admitted[f]) + 1 <=>
                         i \in 1..Len(admitted[f]) \/ i = Len(admitted[f]) + 1
            BY SinceFinite
          <6> QED
            BY <6>1, <6>2, <6>3, SinceFinite DEF Stalled, Since
        <5> QED
          BY <5>1, <5>2
      <4> HIDE DEF stalled2, late2, stalled, late
      <4>3. Cardinality(late2) <= Cardinality(late)
        BY <1>3, <3>1, FS_Subset
      <4> QED
        BY <1>2, <1>3, <1>4, <2>1, <4>2, <4>3
    <3> QED
      BY <3>2, <3>3
  <2> QED
    BY <2>2, <2>3, Recording
<1> QED
  BY <1>2, <1>5, <1>6

\* While a window lasts, the calls that read the clock in it are in the deque.
PromptInDeque ==
  \A f \in Fingerprint, time \in 0..clock :
    clock <= time + Window => Cardinality(Prompt(f, time)) <= RunawayMax

\* What was recorded promptly within a window is still in the deque, which the
\* guard keeps within the limit.
LEMMA DequeHoldsPrompt ==
  ASSUME BInv, PoppedOld
  PROVE  PromptInDeque
<1>1. SUFFICES ASSUME NEW f \in Fingerprint, NEW time \in 0..clock,
                      clock <= time + Window
               PROVE  Cardinality(Prompt(f, time)) <= RunawayMax
  BY DEF PromptInDeque
<1> DEFINE deque == popped[f] + 1..Len(admitted[f])
<1>2. /\ clock \in Nat /\ time \in Nat /\ Window \in Nat /\ RunawayMax \in Nat
      /\ popped[f] \in Nat /\ Len(admitted[f]) \in Nat
      /\ popped[f] <= Len(admitted[f])
      /\ Len(admitted[f]) - popped[f] <= RunawayMax
  BY LimitsAssumption, SinceFinite DEF BInv, TypeOK, Chronicle
<1>3. Prompt(f, time) \subseteq deque
  <2>1. SUFFICES ASSUME NEW i \in Prompt(f, time), i \notin deque
                 PROVE  FALSE
    OBVIOUS
  <2>2. i \in 1..Len(admitted[f]) /\ admitted[f][i].stamp >= time
    BY DEF Prompt, Since
  <2>3. i \in 1..popped[f]
    BY <1>2, <2>1, <2>2
  <2>4. admitted[f][i].stamp < clock - Window
    BY <2>3 DEF PoppedOld
  <2> QED
    BY <1>1, <1>2, <2>2, <2>4, InHistory
<1>4. IsFiniteSet(deque) /\ Cardinality(deque) <= RunawayMax /\ Cardinality(deque) \in Nat
  <2>0. popped[f] + 1 \in Int /\ Len(admitted[f]) \in Int
    BY <1>2
  <2>1. IsFiniteSet(deque)
    BY <2>0, FS_Interval
  <2>2. Cardinality(deque) =
          IF popped[f] + 1 > Len(admitted[f]) THEN 0
          ELSE Len(admitted[f]) - (popped[f] + 1) + 1
    BY <2>0, FS_Interval
  <2> HIDE DEF deque
  <2> QED
    BY <1>2, <2>1, <2>2
<1> HIDE DEF deque
<1>5. /\ IsFiniteSet(Prompt(f, time))
      /\ Cardinality(Prompt(f, time)) <= Cardinality(deque)
  BY <1>3, <1>4, FS_Subset
<1>6. Cardinality(Prompt(f, time)) \in Nat
  BY <1>5, FS_CardinalityType
<1> QED
  BY <1>2, <1>4, <1>5, <1>6

\* After it, nothing is recorded in it.
LEMMA PromptStays ==
  ASSUME BInv, PromptBounded, PromptInDeque', [Next]_vars
  PROVE  PromptBounded'
<1>1. SUFFICES ASSUME NEW f \in Fingerprint, NEW time \in 0..clock'
               PROVE  Cardinality(Prompt(f, time)') <= RunawayMax
  BY DEF PromptBounded
<1>2. /\ clock \in Nat /\ time \in Nat /\ Window \in Nat /\ Window >= 1
      /\ clock' = clock \/ clock' = clock + 1
  BY Recording, LimitsAssumption DEF BInv, TypeOK
<1>3. CASE clock' <= time + Window
  BY <1>3 DEF PromptInDeque
<1>4. CASE clock' > time + Window
  <2>1. time \in 0..clock
    BY <1>2, <1>4
  <2>2. CASE NoneRecorded
    <3>1. Prompt(f, time)' = Prompt(f, time)
      BY <2>2 DEF NoneRecorded, Prompt, Since
    <3> QED
      BY <2>1, <3>1 DEF PromptBounded
  <2>3. ASSUME NEW t \in Thread, Recorded(t)
        PROVE  Cardinality(Prompt(f, time)') <= RunawayMax
    <3>1. CASE f # key[t]
      <4>1. Prompt(f, time)' = Prompt(f, time)
        BY <2>3, <3>1, Appended DEF Prompt, Since
      <4> QED
        BY <2>1, <4>1 DEF PromptBounded
    <3>2. CASE f = key[t]
      <4>1. /\ Len(admitted'[f]) = Len(admitted[f]) + 1
            /\ \A i \in 1..Len(admitted[f]) : admitted'[f][i] = admitted[f][i]
            /\ admitted'[f][Len(admitted[f]) + 1].at = clock
        BY <2>3, <3>2, Appended
      <4>2. ~(clock <= time + Window)
        BY <1>2, <1>4, <2>3 DEF Recorded
      <4>3. \A i : i \in 1..Len(admitted[f]) + 1 <=>
                     i \in 1..Len(admitted[f]) \/ i = Len(admitted[f]) + 1
        BY SinceFinite
      <4>4. Prompt(f, time)' = Prompt(f, time)
        BY <4>1, <4>2, <4>3, SinceFinite DEF Prompt, Since
      <4> QED
        BY <2>1, <4>4 DEF PromptBounded
    <3> QED
      BY <3>1, <3>2
  <2> QED
    BY <2>2, <2>3, Recording
<1> QED
  BY <1>2, <1>3, <1>4

\* What was recorded in a window is what read the clock in it and what came late.
LEMMA BurstCounted ==
  ASSUME BInv, BurstInv
  PROVE  BurstBounded
<1>1. SUFFICES ASSUME NEW f \in Fingerprint, NEW time \in 0..clock
               PROVE  Cardinality({i \in Since(f, time) :
                                     admitted[f][i].at <= time + Window})
                        <= RunawayMax + Cardinality(Thread)
  BY DEF BurstBounded
<1> DEFINE burst   == {i \in Since(f, time) : admitted[f][i].at <= time + Window}
           stalled == Stalled(f, time)
           prompt  == Prompt(f, time)
           late    == AtTheLock(time)
<1>2. IsFiniteSet(stalled) /\ IsFiniteSet(prompt) /\ IsFiniteSet(late)
  <2>1. stalled \subseteq Since(f, time) /\ IsFiniteSet(Since(f, time))
    BY SinceFinite DEF Stalled
  <2>2. prompt \subseteq Since(f, time)
    BY DEF Prompt
  <2>3. late \subseteq Thread
    BY DEF AtTheLock
  <2> HIDE DEF stalled, prompt, late
  <2> QED
    BY <2>1, <2>2, <2>3, ThreadAssumption, FS_Subset
<1>3. burst \subseteq stalled \cup prompt
  <2>1. \A i \in Since(f, time) :
          i \in 1..Len(admitted[f]) /\ admitted[f][i].stamp \in Nat
    BY SinceFinite, InHistory
  <2>2. time \in Nat
    BY DEF BInv, TypeOK
  <2> QED
    BY <2>1, <2>2 DEF Stalled, Prompt
<1>4. /\ Cardinality(stalled) + Cardinality(late) <= Cardinality(Thread)
      /\ Cardinality(prompt) <= RunawayMax
  BY DEF BurstInv, StalledOnce, PromptBounded
<1> HIDE DEF burst, stalled, prompt, late
<1>5. /\ IsFiniteSet(stalled \cup prompt)
      /\ Cardinality(stalled \cup prompt) <= Cardinality(stalled) + Cardinality(prompt)
  <2>1. /\ IsFiniteSet(stalled \cup prompt)
        /\ Cardinality(stalled \cup prompt) =
             Cardinality(stalled) + Cardinality(prompt) - Cardinality(stalled \cap prompt)
    BY <1>2, FS_Union
  <2>2. Cardinality(stalled \cap prompt) \in Nat
    BY <1>2, FS_Intersection, FS_CardinalityType
  <2>3. Cardinality(stalled) \in Nat /\ Cardinality(prompt) \in Nat
    BY <1>2, FS_CardinalityType
  <2> QED
    BY <2>1, <2>2, <2>3
<1>6. Cardinality(burst) <= Cardinality(stalled \cup prompt) /\ IsFiniteSet(burst)
  BY <1>3, <1>5, FS_Subset
<1>7. /\ Cardinality(burst) \in Nat /\ Cardinality(stalled \cup prompt) \in Nat
      /\ Cardinality(stalled) \in Nat /\ Cardinality(prompt) \in Nat
      /\ Cardinality(late) \in Nat /\ Cardinality(Thread) \in Nat /\ RunawayMax \in Nat
  BY <1>2, <1>5, <1>6, ThreadAssumption, LimitsAssumption, FS_CardinalityType
<1>8. Cardinality(burst) <= RunawayMax + Cardinality(Thread)
  BY <1>4, <1>5, <1>6, <1>7
<1> QED
  BY <1>8 DEF burst

\* Within one window at most one call per thread was recorded late, what left
\* the deque is older than the window, and what was recorded promptly is within
\* the limit (check_and_record).
THEOREM BurstInvariant == Spec => []BurstInv
<1>1. Init => StalledOnce /\ PoppedOld /\ PromptBounded
  <2> SUFFICES ASSUME Init
               PROVE  StalledOnce /\ PoppedOld /\ PromptBounded
    OBVIOUS
  <2>1. \A time : AtTheLock(time) = {}
    BY DEF Init, AtTheLock
  <2>2. \A f \in Fingerprint : \A time : Stalled(f, time) = {} /\ Prompt(f, time) = {}
    BY DEF Init, Stalled, Prompt, Since
  <2>3. /\ Cardinality({}) = 0 /\ Cardinality(Thread) \in Nat /\ RunawayMax \in Nat
    BY FS_EmptySet, FS_CardinalityType, ThreadAssumption, LimitsAssumption
  <2>4. PoppedOld
    BY DEF Init, PoppedOld
  <2>5. StalledOnce
    BY <2>1, <2>2, <2>3 DEF StalledOnce
  <2>6. PromptBounded
    BY <2>2, <2>3 DEF PromptBounded
  <2> QED
    BY <2>4, <2>5, <2>6
<1>2. BInv /\ StalledOnce /\ [Next]_vars => StalledOnce'
  BY LateOnce
<1>3. BInv /\ PoppedOld /\ [Next]_vars => PoppedOld'
  BY DroppedOld
<1>4. BInv /\ PoppedOld => PromptInDeque
  BY DequeHoldsPrompt
<1>5. BInv /\ PromptBounded /\ PromptInDeque' /\ [Next]_vars => PromptBounded'
  BY PromptStays
<1>6. StalledOnce /\ PoppedOld /\ PromptBounded => BurstInv
  BY DEF BurstInv
<1> QED
  BY <1>1, <1>2, <1>3, <1>4, <1>5, <1>6, TrackerInvariant, PTL DEF Spec

\* However threads interleave, the calls recorded within one window of real time
\* exceed the limit by at most one per thread.
THEOREM BurstsBounded == Spec => []BurstBounded
<1>1. BInv /\ BurstInv => BurstBounded
  BY BurstCounted
<1> QED
  BY <1>1, TrackerInvariant, BurstInvariant, PTL
=============================================================================
