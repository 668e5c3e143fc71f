-------------------------- MODULE GovernedCallsInv --------------------------
(***************************************************************************)
(* The inductive strengthening of GovernedCalls' safety properties: what   *)
(* each point of the wrapper, the guard and the audit rows know of one     *)
(* another.  GovernedCallsProofs proves it.                                *)
(***************************************************************************)
EXTENDS GovernedCalls

\* Only the holder of _rotation_guard is inside log's critical section.
GuardHeld == \A c \in Call : pc[c] \in Guarded => lock = c

\* Between the pending check and the rename nobody adds a pending row.
NothingPendingAtRename ==
  (\E c \in Call : pc[c] = "rename") => ~HasPending(db)

\* The verdict is open until the tool body ends, and settled afterwards.
VerdictPhase ==
  \A c \in Call :
    /\ pc[c] \in {"idle", "begin", "call", "sent"} => verdict[c] = "pending"
    /\ pc[c] \in {"undo", "finalize", "done", "raised"} =>
         verdict[c] # "pending"
    /\ pc[c] = "undo" => verdict[c] \in {"ok", "unknown"}

\* Only a write asks for an intent, and it has none until its row is in.
IntentPhase ==
  \A c \in Call :
    /\ pc[c] \in {"idle", "begin", "wait"} \cup Guarded => intent[c] = 0
    /\ pc[c] = "begin" => c \in Writes
    /\ pc[c] \in {"wait"} \cup Guarded /\ verdict[c] = "pending" => c \in Writes
    /\ intent[c] # 0 => c \in Writes
    /\ c \in Writes /\ pc[c] \in {"call", "sent", "undo"} => intent[c] # 0
    /\ pc[c] \in {"sent", "undo"} => c \in Writes

\* Nothing is on the wire without an intent, and only after the tool body ran.
WirePhase ==
  \A c \in Call :
    /\ wire[c] # "none" => intent[c] # 0
    /\ wire[c] # "none" => pc[c] # "call"

\* An unresolved intent is where state.intent_id says, until reconciled.
IntentInPlace ==
  \A c \in Call : intent[c] # 0 /\ pc[c] # "done" /\ c \notin reconciled =>
    /\ intent[c] \in 1..Len(db)
    /\ db[intent[c]] = [call |-> c, status |-> "pending"]

\* Operators reconcile only calls that no process executes.
ReconciledEnded ==
  \A c \in reconciled : intent[c] # 0 /\ pc[c] \in {"raised", "crashed"}

\* A call has at most one row, and a row is pending only for its intent.
OneRowPerCall ==
  /\ \A i, j \in 1..Len(db) : db[i].call = db[j].call => i = j
  /\ \A r \in archived : \A i \in 1..Len(db) : r.call # db[i].call
  /\ \A r, s \in archived : r.call = s.call => r = s

\* A row of a call says "pending" while its intent is open, the call's
\* verdict once it is done, "unknown" once reconciled.
RowMeaning ==
  \A r \in Trail :
    \/ r.status = "pending" /\ intent[r.call] # 0 /\ pc[r.call] # "done"
    \/ r.status = verdict[r.call] /\ pc[r.call] = "done"
    \/ r.status = "unknown" /\ r.call \in reconciled

\* An intent has a row somewhere in the trail.
IntentOnFile ==
  \A c \in Call : intent[c] # 0 => \E r \in Trail : r.call = c

\* A write without an intent was turned away.
TurnedAway ==
  \A c \in Writes : intent[c] = 0 =>
    verdict[c] \in {"pending", "error", "budget_exceeded"}

\* A call is over the budget only before it has an intent.
BudgetFirst == \A c \in Call : intent[c] # 0 => verdict[c] # "budget_exceeded"

\* "ok" is said only of a change that landed, and "error" only of one that
\* cannot land any more, provided undetermined outcomes are told apart.
OkLanded ==
  AllTold => \A c \in Writes : verdict[c] = "ok" => wire[c] = "applied"

ErrorNotLive ==
  AllTold =>
    \A c \in Writes : verdict[c] = "error" => wire[c] \in {"none", "rejected"}

\* A call that got "ok" as its answer has landed.
AnsweredOk ==
  \A c \in Call : pc[c] = "undo" /\ verdict[c] = "ok" => wire[c] = "applied"

\* A token is justified by what became of the call.
TokenPhase ==
  \A c \in Call : /\ token[c] = "verified" => wire[c] = "applied"
                  /\ token[c] = "unverified" => verdict[c] = "unknown"

IInv ==
  /\ TypeOK
  /\ GuardHeld /\ NothingPendingAtRename
  /\ VerdictPhase /\ IntentPhase /\ WirePhase
  /\ IntentInPlace /\ ReconciledEnded
  /\ ArchivesResolved /\ OneRowPerCall /\ RowMeaning /\ IntentOnFile
  /\ TurnedAway /\ BudgetFirst /\ OkLanded /\ ErrorNotLive
  /\ AnsweredOk /\ TokenPhase
=============================================================================
