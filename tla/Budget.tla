------------------------------- MODULE Budget -------------------------------
(***************************************************************************)
(* The runaway guard and the ceilings of one process: threads issue        *)
(* governed calls, each is checked against the ceilings and the sliding    *)
(* window of its fingerprint, and reports its duration when it ends.  The  *)
(* clock is read before the tracker's lock is taken, so a thread may enter *)
(* the lock with a stamp older than those recorded since.                  *)
(***************************************************************************)
EXTENDS Integers, Sequences, FiniteSets

CONSTANTS
  Thread,       \* the threads of the process that issue governed calls
  Fingerprint,  \* the identities of (tool, redacted params)
  MaxCalls,     \* MINIO_MAX_TOOL_CALLS
  MaxSeconds,   \* MINIO_MAX_TOOL_SECONDS
  RunawayMax,   \* MINIO_RUNAWAY_MAX
  Window,       \* MINIO_RUNAWAY_WINDOW_SEC
  Horizon       \* bounds the clock

ASSUME LimitsAssumption == /\ MaxCalls \in Nat
                           /\ MaxSeconds \in Nat
                           /\ RunawayMax \in Nat \ {0}
                           /\ Window \in Nat \ {0}
                           /\ Horizon \in Nat
ASSUME ThreadAssumption == IsFiniteSet(Thread)

VARIABLES
  clock,         \* time.time()
  pc,            \* where each thread is in the wrapper
  key,           \* the fingerprint of each thread's call
  stamp,         \* `now` of check_and_record, read before the lock
  rule,          \* the rule that refused each thread's call, if any
  totalCalls,    \* _state.total_calls
  totalSeconds,  \* _state.total_seconds
  admitted,      \* per fingerprint, every call ever recorded: its stamp and
                 \* the time it was recorded at
  popped         \* per fingerprint, how many of them have left the deque

vars == <<clock, pc, key, stamp, rule, totalCalls, totalSeconds, admitted,
          popped>>

Rule      == {"none", "budget_calls", "budget_seconds", "budget_runaway"}
Admission == [stamp : Nat, at : Nat]

TypeOK ==
  /\ clock \in Nat
  /\ pc \in [Thread -> {"idle", "check", "run", "finalize"}]
  /\ key \in [Thread -> Fingerprint]
  /\ stamp \in [Thread -> Nat]
  /\ rule \in [Thread -> Rule]
  /\ totalCalls \in Nat
  /\ totalSeconds \in Nat
  /\ admitted \in [Fingerprint -> Seq(Admission)]
  /\ popped \in [Fingerprint -> Nat]

Init ==
  /\ clock = 0
  /\ pc = [t \in Thread |-> "idle"]
  /\ key \in [Thread -> Fingerprint]
  /\ stamp = [t \in Thread |-> 0]
  /\ rule = [t \in Thread |-> "none"]
  /\ totalCalls = 0
  /\ totalSeconds = 0
  /\ admitted = [f \in Fingerprint |-> <<>>]
  /\ popped = [f \in Fingerprint |-> 0]

-----------------------------------------------------------------------------
(* check_and_record *)

\* A call arrives and reads the clock.
Call(t) ==
  /\ pc[t] = "idle"
  /\ pc' = [pc EXCEPT ![t] = "check"]
  /\ \E f \in Fingerprint : key' = [key EXCEPT ![t] = f]
  /\ stamp' = [stamp EXCEPT ![t] = clock]
  /\ UNCHANGED <<clock, rule, totalCalls, totalSeconds, admitted, popped>>

Refuse(t, why) ==
  /\ pc' = [pc EXCEPT ![t] = "finalize"]
  /\ rule' = [rule EXCEPT ![t] = why]
  /\ UNCHANGED <<clock, key, stamp, totalCalls, totalSeconds, admitted>>

CallsReached   == totalCalls >= MaxCalls
SecondsReached == totalSeconds >= MaxSeconds

\* A hard ceiling refuses the call before its window is touched.
RefuseCeiling(t) ==
  /\ pc[t] = "check"
  /\ \/ CallsReached /\ Refuse(t, "budget_calls")
     \/ ~CallsReached /\ SecondsReached /\ Refuse(t, "budget_seconds")
  /\ UNCHANGED popped

\* Faulty variant of Pop: a stamp leaves the window one second early.
PopEarly(calls, from, cutoff, to) ==
  /\ \A i \in from + 1..to : calls[i].stamp <= cutoff
  /\ to < Len(calls) => calls[to + 1].stamp > cutoff

\* Faulty variant of Pop: nothing ever leaves the window.
PopNothing(calls, from, cutoff, to) == to = from

\* The head of the deque moves on while it is older than the cutoff, and
\* stops at the first stamp that is not.
Pop(calls, from, cutoff, to) ==
  /\ \A i \in from + 1..to : calls[i].stamp < cutoff
  /\ to < Len(calls) => calls[to + 1].stamp >= cutoff

\* Faulty variant of Full: one call too many.
FullLate(f, to) == Len(admitted[f]) - to > RunawayMax

Full(f, to) == Len(admitted[f]) - to >= RunawayMax

\* Without a ceiling in the way: the stale stamps are dropped, and the call is
\* refused or recorded by how many remain.
CheckWindow(t) ==
  LET f == key[t]
  IN
  /\ pc[t] = "check"
  /\ ~CallsReached /\ ~SecondsReached
  /\ \E to \in popped[f]..Len(admitted[f]) :
       /\ Pop(admitted[f], popped[f], stamp[t] - Window, to)
       /\ popped' = [popped EXCEPT ![f] = to]
       /\ \/ /\ Full(f, to)
             /\ Refuse(t, "budget_runaway")
          \/ /\ ~Full(f, to)
             /\ pc' = [pc EXCEPT ![t] = "run"]
             /\ admitted' = [admitted EXCEPT ![f] =
                               Append(@, [stamp |-> stamp[t], at |-> clock])]
             /\ totalCalls' = totalCalls + 1
             /\ UNCHANGED <<clock, key, stamp, rule, totalSeconds>>

-----------------------------------------------------------------------------
(* _finalize, and time *)

\* The wrapper's finally clause reports the time since the call arrived, of a
\* refused call as well; with the call its stamp and its refusal are gone.
AddDuration(t) ==
  /\ pc[t] \in {"run", "finalize"}
  /\ pc' = [pc EXCEPT ![t] = "idle"]
  /\ totalSeconds' = totalSeconds + (clock - stamp[t])
  /\ stamp' = [stamp EXCEPT ![t] = 0]
  /\ rule' = [rule EXCEPT ![t] = "none"]
  /\ UNCHANGED <<clock, key, totalCalls, admitted, popped>>

Tick ==
  /\ clock < Horizon
  /\ clock' = clock + 1
  /\ UNCHANGED <<pc, key, stamp, rule, totalCalls, totalSeconds, admitted,
                 popped>>

Next ==
  \/ \E t \in Thread : \/ Call(t) \/ RefuseCeiling(t) \/ CheckWindow(t)
                       \/ AddDuration(t)
  \/ Tick

Spec == Init /\ [][Next]_vars

-----------------------------------------------------------------------------
(* Properties *)

\* A call's stamp is never ahead of the time it was recorded at, and calls
\* are recorded in the order of time; the deque is a suffix of them.
Chronicle ==
  \A f \in Fingerprint :
    /\ popped[f] <= Len(admitted[f])
    /\ Len(admitted[f]) - popped[f] <= RunawayMax
    /\ \A i \in 1..Len(admitted[f]) :
         /\ admitted[f][i].stamp <= admitted[f][i].at
         /\ admitted[f][i].at <= clock
         /\ \A j \in 1..i : admitted[f][j].at <= admitted[f][i].at

StampsPast == \A t \in Thread : stamp[t] <= clock

BInv == TypeOK /\ Chronicle /\ StampsPast /\ totalCalls <= MaxCalls

\* The calls of fingerprint f recorded since a given time.
Since(f, time) == {i \in 1..Len(admitted[f]) : admitted[f][i].at >= time}

\* The runaway guard never refuses a call without cause: as many calls with
\* its fingerprint as it names were really recorded in the window before the
\* call read the clock, or after it, although stamps enter the deque out of
\* order and only its head is ever examined (budget.py:141-155).
RefusalJustified ==
  [][\A t \in Thread :
       rule[t] = "none" /\ rule'[t] = "budget_runaway" =>
         Cardinality(Since(key[t], stamp[t] - Window)) >= RunawayMax]_vars

\* However threads interleave, the calls recorded within one window of real
\* time exceed the limit by at most one per thread: one that read the clock
\* before the window and was stalled before the lock (budget.py:117-158).
BurstBounded ==
  \A f \in Fingerprint, time \in 0..clock :
    Cardinality({i \in Since(f, time) : admitted[f][i].at <= time + Window})
      <= RunawayMax + Cardinality(Thread)

-----------------------------------------------------------------------------
\* The inductive invariant behind BurstBounded.  A thread that read the clock
\* before a moment and has not got the lock yet ...
AtTheLock(time) == {t \in Thread : pc[t] = "check" /\ stamp[t] < time}

\* ... is recorded once with such a stamp: its next call reads the clock anew.
Stalled(f, time) == {i \in Since(f, time) : admitted[f][i].stamp < time}

StalledOnce ==
  \A f \in Fingerprint, time \in 0..clock :
    Cardinality(Stalled(f, time)) + Cardinality(AtTheLock(time)) <= Cardinality(Thread)

\* What has left the deque was older than a window, so the calls of a window
\* that read the clock in it were all in the deque when the last of them came.
PoppedOld ==
  \A f \in Fingerprint : \A i \in 1..popped[f] : admitted[f][i].stamp < clock - Window

Prompt(f, time) ==
  {i \in Since(f, time) : /\ admitted[f][i].at <= time + Window
                         /\ admitted[f][i].stamp >= time}

PromptBounded ==
  \A f \in Fingerprint, time \in 0..clock : Cardinality(Prompt(f, time)) <= RunawayMax

BurstInv == StalledOnce /\ PoppedOld /\ PromptBounded
=============================================================================
