------------------------- MODULE GovernedCallsProofs -------------------------
(***************************************************************************)
(* Proofs that GovernedCalls keeps its types, its inductive invariant, its *)
(* safety properties and the write-ahead contract, for every set of calls, *)
(* processes and writes and every rotation threshold.                      *)
(***************************************************************************)
EXTENDS GovernedCallsInv, TLAPS

-----------------------------------------------------------------------------
(* Sequences *)

\* Changing the status of one row of a sequence of rows keeps it one, of the
\* same length, and leaves the other rows alone.
LEMMA UpdateRow ==
  ASSUME NEW s \in Seq(Row), NEW k \in 1..Len(s), NEW t \in Status
  PROVE  LET u == [s EXCEPT ![k].status = t] IN
         /\ u \in Seq(Row)
         /\ Len(u) = Len(s)
         /\ u[k] = [call |-> s[k].call, status |-> t]
         /\ \A i \in 1..Len(s) : i # k => u[i] = s[i]
<1> DEFINE u == [s EXCEPT ![k].status = t]
<1>1. s \in [1..Len(s) -> Row]
  OBVIOUS
<1>2. s[k] \in Row /\ [s[k] EXCEPT !.status = t] = [call |-> s[k].call, status |-> t]
  BY <1>1 DEF Row
<1>3. [call |-> s[k].call, status |-> t] \in Row
  BY <1>2 DEF Row
<1>4. u = [s EXCEPT ![k] = [call |-> s[k].call, status |-> t]]
  BY <1>1, <1>2
<1>5. u \in [1..Len(s) -> Row]
  BY <1>1, <1>3, <1>4
<1>6. u \in Seq(Row) /\ Len(u) = Len(s)
  BY <1>5
<1> QED
  BY <1>1, <1>4, <1>5, <1>6

\* The elements of a sequence of rows are rows.
LEMMA RowsAreRows ==
  ASSUME NEW s \in Seq(Row), NEW i \in 1..Len(s)
  PROVE  s[i] \in Row /\ s[i].call \in Call /\ s[i].status \in Status
<1>1. s \in [1..Len(s) -> Row]
  OBVIOUS
<1>2. s[i] \in Row
  BY <1>1
<1> QED
  BY <1>2 DEF Row

\* Appending a row.
LEMMA AppendRow ==
  ASSUME NEW s \in Seq(Row), NEW r \in Row
  PROVE  /\ Append(s, r) \in Seq(Row)
         /\ Len(Append(s, r)) = Len(s) + 1
         /\ Append(s, r)[Len(s) + 1] = r
         /\ \A i \in 1..Len(s) : Append(s, r)[i] = s[i]
  OBVIOUS

-----------------------------------------------------------------------------
(* Type correctness *)

\* The initial state is well typed.
LEMMA InitType == Init => TypeOK
  BY CallAssumption DEF Init, TypeOK, Pc, Status

\* Every step keeps every variable in its type.
LEMMA StepType == TypeOK /\ [Next]_vars => TypeOK'
<1> SUFFICES ASSUME TypeOK, [Next]_vars PROVE TypeOK'
  OBVIOUS
<1> USE CallAssumption
<1>1. ASSUME NEW c \in Call, Enter(c) PROVE TypeOK'
  BY <1>1 DEF Enter, Refuse, Admit, Goto, Settle, TypeOK, Pc, Status, Verdict,
              procVars, storeVars
<1>2. ASSUME NEW c \in Call, ServerActs(c) PROVE TypeOK'
  BY <1>2 DEF ServerActs, TypeOK, procVars, storeVars
<1>8. ASSUME NEW c \in Call, Interrupt(c) PROVE TypeOK'
  BY <1>8 DEF Interrupt, Goto, Settle, TypeOK, Pc, Status, Verdict, procVars,
              storeVars
<1>3. ASSUME NEW c \in Call, Step(c) PROVE TypeOK'
  <2>1. CASE IntentRefused(c) \/ IntentRequested(c) \/ AcquireGuard(c)
    BY <2>1 DEF IntentRefused, IntentRequested, AcquireGuard, Goto, Settle,
                Block, TypeOK, Pc, Status, Verdict, procVars, storeVars
  <2>2. CASE StartRotation(c) \/ KeepDatabase(c) \/ RenameFails(c) \/ InitDb(c)
    BY <2>2 DEF StartRotation, KeepDatabase, RenameFails, InitDb, Goto,
                TypeOK, Pc, procVars, storeVars
  <2>3. CASE Rename(c)
    <3>1. {db[i] : i \in 1..Len(db)} \subseteq Row
      <4>1. \A i \in 1..Len(db) : db[i] \in Row
        BY RowsAreRows DEF TypeOK
      <4> QED
        BY <4>1
    <3>2. archived' \subseteq Row
      BY <2>3, <3>1, Zenon DEF Rename, TypeOK
    <3>3. db' = <<>> /\ db' \in Seq(Row)
      BY <2>3 DEF Rename
    <3> QED
      BY <2>3, <3>2, <3>3 DEF Rename, Goto, TypeOK, Pc, procVars
  <2>4. CASE InsertRow(c)
    <3>1. [call |-> c, status |-> verdict[c]] \in Row
      BY DEF TypeOK, Row
    <3>2. db' \in Seq(Row)
      BY <2>4, <3>1, AppendRow DEF InsertRow, TypeOK
    <3>3. intent' \in [Call -> Nat]
      BY <2>4 DEF InsertRow, TypeOK
    <3> QED
      BY <2>4, <3>2, <3>3 DEF InsertRow, Goto, TypeOK, Pc, procVars
  <2>5. CASE InsertFails(c)
    BY <2>5 DEF InsertFails, Goto, Settle, Block, TypeOK, Pc, Status, Verdict
  <2>6. CASE Read(c) \/ NotSent(c) \/ Reply(c) \/ ReplyLost(c)
    <3>1. pc' \in [Call -> Pc]
      BY <2>6 DEF Read, NotSent, Reply, ReplyLost, Goto, TypeOK, Pc
    <3>2. verdict' \in [Call -> Status]
      BY <2>6 DEF Read, NotSent, Reply, ReplyLost, Settle, TypeOK, Status,
                  Verdict
    <3> QED
      BY <2>6, <3>1, <3>2 DEF Read, NotSent, Reply, ReplyLost, TypeOK,
                              procVars, storeVars
  <2>10. CASE Send(c)
    BY <2>10 DEF Send, Goto, TypeOK, Pc, procVars, storeVars
  <2>7. CASE RecordUndo(c)
    <3>1. Inverse(c) \in {"none", "verified", "unverified"}
      BY DEF Inverse
    <3>2. token' \in [Call -> {"none", "verified", "unverified"}]
      BY <2>7, <3>1 DEF RecordUndo, TypeOK
    <3> QED
      BY <2>7, <3>2 DEF RecordUndo, Goto, TypeOK, Pc, procVars, storeVars
  <2>8. CASE FinishWrite(c)
    <3>1. db' \in Seq(Row)
      BY <2>8, UpdateRow DEF FinishWrite, OwnsPending, TypeOK
    <3> QED
      BY <2>8, <3>1 DEF FinishWrite, Goto, TypeOK, Pc, procVars
  <2>9. CASE FinishFails(c) \/ LogVerdict(c)
    BY <2>9 DEF FinishFails, LogVerdict, Goto, Block, TypeOK, Pc, procVars,
                storeVars
  <2> QED
    BY <1>3, <2>1, <2>2, <2>3, <2>4, <2>5, <2>6, <2>7, <2>8, <2>9, <2>10 DEF Step
<1>4. ASSUME NEW p \in Proc, Crash(p) \/ Restart(p) PROVE TypeOK'
  BY <1>4 DEF Crash, Restart, TypeOK, Pc, Ended, callVars
<1>5. CASE StorageChanges
  BY <1>5 DEF StorageChanges, TypeOK, callVars, procVars, storeVars
<1>6. ASSUME NEW i \in 1..Len(db), Reconcile(i) PROVE TypeOK'
  <2>1. db' \in Seq(Row)
    BY <1>6, UpdateRow DEF Reconcile, TypeOK, Status, Verdict
  <2>2. db[i].call \in Call
    BY RowsAreRows DEF TypeOK
  <2> QED
    BY <1>6, <2>1, <2>2 DEF Reconcile, TypeOK, callVars, procVars
<1>7. CASE UNCHANGED vars
  BY <1>7 DEF vars, callVars, procVars, storeVars, TypeOK
<1> QED
  BY <1>1, <1>2, <1>3, <1>4, <1>5, <1>6, <1>7, <1>8 DEF Next

\* Every variable of GovernedCalls keeps its type in every behaviour: pc,
\* verdicts, intents, tokens and rows only take values the wrapper and the
\* audit engine give them.
THEOREM TypeCorrect == Spec => []TypeOK
<1>1. Init => TypeOK
  BY InitType
<1>2. TypeOK /\ [Next]_vars => TypeOK'
  BY StepType
<1> QED
  BY <1>1, <1>2, PTL DEF Spec

-----------------------------------------------------------------------------
(* The conjuncts of the invariant that speak of one call at a time *)

LocalInv == /\ VerdictPhase /\ IntentPhase /\ WirePhase /\ TurnedAway
            /\ BudgetFirst /\ OkLanded /\ ErrorNotLive /\ AnsweredOk
            /\ TokenPhase

\* What a call's program point says of its own verdict, intent, request and
\* token survives every step, its own and those of others.
LEMMA StepLocal == TypeOK /\ LocalInv /\ [Next]_vars => LocalInv'
<1> SUFFICES ASSUME TypeOK, LocalInv, [Next]_vars PROVE LocalInv'
  OBVIOUS
<1> USE CallAssumption DEF LocalInv, VerdictPhase, IntentPhase, WirePhase,
        TurnedAway, BudgetFirst, OkLanded, ErrorNotLive, AnsweredOk,
        TokenPhase, AllTold, TypeOK, Goto, Settle, Guarded, procVars, storeVars
<1>1. ASSUME NEW c \in Call, Refuse(c) PROVE LocalInv'
  BY <1>1 DEF Refuse
<1>2. ASSUME NEW c \in Call, Admit(c) PROVE LocalInv'
  BY <1>2 DEF Admit
<1>3. ASSUME NEW c \in Call, ServerActs(c) PROVE LocalInv'
  BY <1>3 DEF ServerActs
<1>4. ASSUME NEW c \in Call, IntentRefused(c) PROVE LocalInv'
  BY <1>4 DEF IntentRefused
<1>5. ASSUME NEW c \in Call, IntentRequested(c) PROVE LocalInv'
  BY <1>5 DEF IntentRequested
<1>6. ASSUME NEW c \in Call, AcquireGuard(c) PROVE LocalInv'
  BY <1>6 DEF AcquireGuard
<1>7. ASSUME NEW c \in Call, StartRotation(c) PROVE LocalInv'
  BY <1>7 DEF StartRotation
<1>8. ASSUME NEW c \in Call, KeepDatabase(c) PROVE LocalInv'
  BY <1>8 DEF KeepDatabase
<1>9. ASSUME NEW c \in Call, Rename(c) PROVE LocalInv'
  BY <1>9 DEF Rename
<1>10. ASSUME NEW c \in Call, RenameFails(c) PROVE LocalInv'
  BY <1>10 DEF RenameFails
<1>11. ASSUME NEW c \in Call, InitDb(c) PROVE LocalInv'
  BY <1>11 DEF InitDb
<1>12. ASSUME NEW c \in Call, InsertRow(c) PROVE LocalInv'
  BY <1>12 DEF InsertRow, Strict
<1>13. ASSUME NEW c \in Call, InsertFails(c) PROVE LocalInv'
  <2>1. CASE Strict(c)
    <3>1. /\ pc' = [pc EXCEPT ![c] = "finalize"] /\ pc[c] = "insert"
          /\ verdict' = [verdict EXCEPT ![c] = "error"]
          /\ UNCHANGED <<intent, wire, token>>
      BY <1>13, <2>1 DEF InsertFails
    <3> QED
      BY <2>1, <3>1 DEF Strict
  <2>2. CASE ~Strict(c)
    <3>1. /\ pc' = [pc EXCEPT ![c] = "done"] /\ pc[c] = "insert"
          /\ UNCHANGED <<verdict, intent, wire, token>>
      BY <1>13, <2>2 DEF InsertFails
    <3> QED
      BY <2>2, <3>1 DEF Strict
  <2> QED
    BY <2>1, <2>2
<1>14. ASSUME NEW c \in Call, Read(c) PROVE LocalInv'
  BY <1>14 DEF Read
<1>15. ASSUME NEW c \in Call, NotSent(c) PROVE LocalInv'
  BY <1>15 DEF NotSent
<1>16. ASSUME NEW c \in Call, Send(c) PROVE LocalInv'
  BY <1>16 DEF Send
<1>17. ASSUME NEW c \in Call, Reply(c) PROVE LocalInv'
  <2>1. CASE /\ pc' = [pc EXCEPT ![c] = "undo"] /\ pc[c] = "sent"
             /\ verdict' = [verdict EXCEPT ![c] = "ok"]
             /\ wire[c] = "applied"
             /\ UNCHANGED <<intent, wire, token>>
    BY <2>1
  <2>2. CASE /\ pc' = [pc EXCEPT ![c] = "finalize"] /\ pc[c] = "sent"
             /\ verdict' = [verdict EXCEPT ![c] = "error"]
             /\ wire[c] = "rejected" \/ c \in Resends
             /\ UNCHANGED <<intent, wire, token>>
    BY <2>2
  <2> QED
    BY <1>17, <2>1, <2>2 DEF Reply
<1>18. ASSUME NEW c \in Call, ReplyLost(c) PROVE LocalInv'
  <2>1. CASE c \in Marks
    <3>1. /\ pc' = [pc EXCEPT ![c] = "undo"] /\ pc[c] = "sent"
          /\ verdict' = [verdict EXCEPT ![c] = "unknown"]
          /\ UNCHANGED <<intent, wire, token>>
      BY <1>18, <2>1 DEF ReplyLost
    <3> QED
      BY <2>1, <3>1
  <2>2. CASE c \notin Marks
    <3>1. /\ pc' = [pc EXCEPT ![c] = "finalize"] /\ pc[c] = "sent"
          /\ verdict' = [verdict EXCEPT ![c] = "error"]
          /\ UNCHANGED <<intent, wire, token>>
      BY <1>18, <2>2 DEF ReplyLost
    <3> QED
      BY <2>2, <3>1
  <2> QED
    BY <2>1, <2>2
<1>25. ASSUME NEW c \in Call, Interrupt(c) PROVE LocalInv'
  <2>1. /\ pc' = [pc EXCEPT ![c] = "finalize"] /\ pc[c] \in {"call", "sent"}
        /\ verdict' = [verdict EXCEPT ![c] = "ok"] /\ ~AllTold
        /\ UNCHANGED <<intent, wire, token>>
    BY <1>25 DEF Interrupt
  <2> QED
    BY <2>1
<1>19. ASSUME NEW c \in Call, RecordUndo(c) PROVE LocalInv'
  BY <1>19 DEF RecordUndo, Inverse
<1>20. ASSUME NEW c \in Call, FinishWrite(c) PROVE LocalInv'
  BY <1>20 DEF FinishWrite
<1>21. ASSUME NEW c \in Call, FinishFails(c) PROVE LocalInv'
  BY <1>21 DEF FinishFails
<1>22. ASSUME NEW c \in Call, LogVerdict(c) PROVE LocalInv'
  BY <1>22 DEF LogVerdict
<1>23. ASSUME NEW p \in Proc, Crash(p) PROVE LocalInv'
  BY <1>23 DEF Crash, Ended
<1>24. CASE UNCHANGED callVars
  BY <1>24 DEF callVars
<1> QED
  BY <1>1, <1>2, <1>3, <1>4, <1>5, <1>6, <1>7, <1>8, <1>9, <1>10, <1>11,
     <1>12, <1>13, <1>14, <1>15, <1>16, <1>17, <1>18, <1>19, <1>20, <1>21,
     <1>22, <1>23, <1>24, <1>25
     DEF Next, Enter, Step, Restart, StorageChanges, Reconcile, vars

-----------------------------------------------------------------------------
(* What a step does to the rows *)

\* A step that neither inserts, rotates nor resolves a row.
Quiet ==
  /\ UNCHANGED <<db, archived, intent, reconciled>>
  /\ \A d \in Call : pc[d] \in Ended =>
        pc'[d] = pc[d] /\ verdict'[d] = verdict[d]
  /\ \A d \in Call : intent[d] # 0 /\ pc'[d] = "done" => pc[d] = "done"
  /\ \A d \in Call : pc'[d] = "rename" => pc[d] = "rename" \/ ~HasPending(db)

\* A step inserts a row, rotates, closes a row (its own or a reconciled one),
\* or is Quiet: it leaves the rows alone.
LEMMA StepKinds ==
  ASSUME TypeOK, LocalInv, [Next]_vars
  PROVE  \/ \E c \in Call : InsertRow(c) \/ Rename(c) \/ FinishWrite(c)
         \/ \E i \in 1..Len(db) : Reconcile(i)
         \/ Quiet
<1> USE DEF Quiet, TypeOK, Goto, Settle, Ended, Guarded, procVars, storeVars,
        LocalInv, IntentPhase
<1>1. ASSUME NEW c \in Call, Enter(c) \/ ServerActs(c) PROVE Quiet
  BY <1>1 DEF Enter, Refuse, Admit, ServerActs
<1>2. ASSUME NEW c \in Call,
             \/ IntentRefused(c) \/ IntentRequested(c) \/ AcquireGuard(c)
             \/ KeepDatabase(c) \/ RenameFails(c) \/ InitDb(c)
      PROVE Quiet
  BY <1>2 DEF IntentRefused, IntentRequested, AcquireGuard, KeepDatabase,
              RenameFails, InitDb
<1>3. ASSUME NEW c \in Call, StartRotation(c) PROVE Quiet
  BY <1>3 DEF StartRotation, RotationDue
<1>4. ASSUME NEW c \in Call, InsertFails(c) PROVE Quiet
  <2>1. intent[c] = 0
    BY <1>4 DEF InsertFails
  <2>2. /\ pc[c] = "insert" /\ UNCHANGED <<db, archived, intent, reconciled>>
        /\ \/ pc' = [pc EXCEPT ![c] = "finalize"]
           \/ pc' = [pc EXCEPT ![c] = "done"]
        /\ \/ verdict' = [verdict EXCEPT ![c] = "error"]
           \/ verdict' = verdict
    BY <1>4 DEF InsertFails
  <2> QED
    BY <2>1, <2>2
<1>5. ASSUME NEW c \in Call, Read(c) \/ NotSent(c) \/ Send(c) \/ Reply(c)
                             \/ ReplyLost(c) \/ RecordUndo(c)
      PROVE Quiet
  BY <1>5 DEF Read, NotSent, Send, Reply, ReplyLost, RecordUndo
<1>6. ASSUME NEW c \in Call, FinishFails(c) \/ LogVerdict(c) PROVE Quiet
  BY <1>6 DEF FinishFails, LogVerdict
<1>10. ASSUME NEW c \in Call, Interrupt(c) PROVE Quiet
  BY <1>10 DEF Interrupt
<1>7. ASSUME NEW p \in Proc, Crash(p) PROVE Quiet
  BY <1>7 DEF Crash
<1>8. ASSUME NEW p \in Proc, Restart(p) PROVE Quiet
  BY <1>8 DEF Restart, callVars
<1>9. CASE StorageChanges \/ UNCHANGED vars
  BY <1>9 DEF StorageChanges, vars, callVars
<1> QED
  BY <1>1, <1>2, <1>3, <1>4, <1>5, <1>6, <1>7, <1>8, <1>9, <1>10
     DEF Next, Step

\* log appends one row to the live database.
LEMMA InsertFacts ==
  ASSUME TypeOK, NEW c \in Call, InsertRow(c)
  PROVE  LET r == [call |-> c, status |-> verdict[c]] IN
         /\ Len(db') = Len(db) + 1
         /\ db'[Len(db) + 1] = r
         /\ \A i \in 1..Len(db) : db'[i] = db[i]
         /\ archived' = archived
         /\ Trail' = Trail \cup {r}
<1> DEFINE r == [call |-> c, status |-> verdict[c]]
<1>1. r \in Row /\ db \in Seq(Row) /\ Len(db) \in Nat
  BY DEF TypeOK, Row
<1>2. /\ Len(db') = Len(db) + 1
      /\ db'[Len(db) + 1] = r
      /\ \A i \in 1..Len(db) : db'[i] = db[i]
      /\ archived' = archived
  BY <1>1, AppendRow DEF InsertRow
<1>3. {db'[i] : i \in 1..Len(db')} = {db[i] : i \in 1..Len(db)} \cup {r}
  <2>1. 1..Len(db') = 1..Len(db) \cup {Len(db) + 1}
    BY <1>1, <1>2
  <2> QED
    BY <2>1, <1>2
<1> QED
  BY <1>2, <1>3 DEF Trail

\* A rotation moves every row into an archive.
LEMMA RenameFacts ==
  ASSUME TypeOK, NEW c \in Call, Rename(c)
  PROVE  Len(db') = 0 /\ Trail' = Trail /\ archived' = Trail
<1>1. Len(db') = 0 /\ archived' = Trail
  BY DEF Rename, Trail
<1>2. {db'[i] : i \in 1..Len(db')} = {}
  BY <1>1
<1> QED
  BY <1>1, <1>2 DEF Trail

\* finish_write and reconcile_pending change the status of one row.
LEMMA UpdateFacts ==
  ASSUME TypeOK, NEW k \in 1..Len(db), NEW t \in Status,
         db' = [db EXCEPT ![k].status = t], archived' = archived
  PROVE  LET r == [call |-> db[k].call, status |-> t] IN
         /\ Len(db') = Len(db)
         /\ db'[k] = r
         /\ \A i \in 1..Len(db) : i # k => db'[i] = db[i]
         /\ \A x \in Trail' : x = r \/ x \in Trail
         /\ r \in Trail'
         /\ \A x \in Trail : x = db[k] \/ x \in Trail'
<1> DEFINE r == [call |-> db[k].call, status |-> t]
<1>1. /\ Len(db') = Len(db)
      /\ db'[k] = r
      /\ \A i \in 1..Len(db) : i # k => db'[i] = db[i]
  BY UpdateRow DEF TypeOK
<1> QED
  BY <1>1 DEF Trail

-----------------------------------------------------------------------------
(* The conjuncts of the invariant that speak of the guard *)

GuardInv == GuardHeld /\ NothingPendingAtRename

\* _rotation_guard admits one call at a time, across processes and crashes.
LEMMA StepGuardHeld == TypeOK /\ GuardHeld /\ [Next]_vars => GuardHeld'
<1> SUFFICES ASSUME TypeOK, GuardHeld, [Next]_vars PROVE GuardHeld'
  OBVIOUS
<1> USE CallAssumption DEF TypeOK, GuardHeld, Guarded, Goto
<1>1. ASSUME NEW c \in Call, Enter(c) \/ ServerActs(c) PROVE GuardHeld'
  BY <1>1 DEF Enter, Refuse, Admit, ServerActs, storeVars
<1>2. ASSUME NEW c \in Call, IntentRefused(c) \/ IntentRequested(c)
      PROVE GuardHeld'
  BY <1>2 DEF IntentRefused, IntentRequested, storeVars
<1>3. ASSUME NEW c \in Call, AcquireGuard(c) PROVE GuardHeld'
  <2>1. \A d \in Call : pc[d] \notin {"guard", "rename", "schema", "insert"}
    BY <1>3 DEF AcquireGuard
  <2> QED
    BY <1>3, <2>1 DEF AcquireGuard
<1>4. ASSUME NEW c \in Call, StartRotation(c) \/ KeepDatabase(c) \/ Rename(c)
                             \/ RenameFails(c) \/ InitDb(c)
      PROVE GuardHeld'
  BY <1>4 DEF StartRotation, KeepDatabase, Rename, RenameFails, InitDb,
              storeVars
<1>5. ASSUME NEW c \in Call, InsertRow(c) \/ InsertFails(c) PROVE GuardHeld'
  <2>1. pc[c] = "insert" /\ lock = c
    BY <1>5 DEF InsertRow, InsertFails
  <2>2. \A d \in Call \ {c} :
          pc[d] \notin {"guard", "rename", "schema", "insert"}
    BY <2>1
  <2>3. /\ pc'[c] \in {"call", "done", "finalize"}
        /\ \A d \in Call \ {c} : pc'[d] = pc[d]
    BY <1>5 DEF InsertRow, InsertFails
  <2> QED
    BY <2>2, <2>3
<1>6. ASSUME NEW c \in Call,
             \/ Read(c) \/ NotSent(c) \/ Send(c) \/ Reply(c) \/ ReplyLost(c)
             \/ RecordUndo(c) \/ FinishWrite(c) \/ FinishFails(c)
             \/ LogVerdict(c) \/ Interrupt(c)
      PROVE GuardHeld'
  <2>1. lock' = lock
    BY <1>6 DEF Read, NotSent, Send, Reply, ReplyLost, RecordUndo,
                FinishWrite, FinishFails, LogVerdict, Interrupt, storeVars
  <2>2. \A d \in Call : pc'[d] = pc[d] \/ pc'[d] \in
                          {"finalize", "sent", "undo", "done", "raised", "wait"}
    BY <1>6 DEF Read, NotSent, Send, Reply, ReplyLost, RecordUndo,
                FinishWrite, FinishFails, LogVerdict, Interrupt
  <2> QED
    BY <2>1, <2>2
<1>7. ASSUME NEW p \in Proc, Crash(p) PROVE GuardHeld'
  <2> SUFFICES ASSUME NEW d \in Call, pc'[d] \in Guarded PROVE lock' = d
    OBVIOUS
  <2>1. pc[d] \in Guarded /\ Host[d] # p
    BY <1>7 DEF Crash, Ended
  <2>2. lock = d /\ d # NoCall
    BY <2>1
  <2> QED
    BY <1>7, <2>1, <2>2 DEF Crash
<1>8. ASSUME NEW p \in Proc, Restart(p) PROVE GuardHeld'
  BY <1>8 DEF Restart, callVars
<1>9. CASE \/ StorageChanges \/ UNCHANGED vars
           \/ \E i \in 1..Len(db) : Reconcile(i)
  BY <1>9 DEF StorageChanges, Reconcile, vars, callVars, storeVars
<1> QED
  BY <1>1, <1>2, <1>3, <1>4, <1>5, <1>6, <1>7, <1>8, <1>9 DEF Next, Step

\* No pending row appears between the check and the rename of a rotation:
\* only the holder of the guard inserts, and rows never become pending again.
LEMMA StepNothingPending ==
  ASSUME TypeOK, LocalInv, GuardInv, [Next]_vars
  PROVE  NothingPendingAtRename'
<1> USE DEF NothingPendingAtRename, HasPending, Goto
<1>1. ASSUME NEW c \in Call, InsertRow(c) PROVE NothingPendingAtRename'
  <2>1. \A d \in Call : pc[d] # "rename"
    <3>1. pc[c] = "insert" /\ \A d \in Call : pc[d] \in Guarded => lock = d
      BY <1>1 DEF InsertRow, GuardInv, GuardHeld
    <3> QED
      BY <3>1 DEF Guarded
  <2>2. \A d \in Call : pc'[d] # "rename"
    BY <1>1, <2>1 DEF InsertRow, TypeOK
  <2> QED
    BY <2>2
<1>2. ASSUME NEW c \in Call, Rename(c) PROVE NothingPendingAtRename'
  BY <1>2, RenameFacts
<1>3. ASSUME NEW c \in Call, FinishWrite(c) PROVE NothingPendingAtRename'
  <2>1. /\ intent[c] \in 1..Len(db)
        /\ verdict[c] \in Status /\ verdict[c] # "pending"
        /\ db' = [db EXCEPT ![intent[c]].status = verdict[c]]
        /\ archived' = archived
    BY <1>3 DEF FinishWrite, OwnsPending, LocalInv, VerdictPhase, TypeOK
  <2>2. /\ Len(db') = Len(db)
        /\ db'[intent[c]].status = verdict[c]
        /\ \A i \in 1..Len(db) : i # intent[c] => db'[i] = db[i]
    BY <2>1, UpdateFacts
  <2>3. HasPending(db)' => HasPending(db)
    BY <2>1, <2>2
  <2>4. \A d \in Call : pc'[d] = "rename" => pc[d] = "rename"
    BY <1>3 DEF FinishWrite, TypeOK
  <2> QED
    BY <2>3, <2>4 DEF GuardInv
<1>4. ASSUME NEW k \in 1..Len(db), Reconcile(k) PROVE NothingPendingAtRename'
  <2>1. /\ db' = [db EXCEPT ![k].status = "unknown"]
        /\ archived' = archived /\ pc' = pc /\ "unknown" \in Status
    BY <1>4 DEF Reconcile, callVars, Status, Verdict
  <2>2. /\ Len(db') = Len(db)
        /\ db'[k].status = "unknown"
        /\ \A i \in 1..Len(db) : i # k => db'[i] = db[i]
    BY <2>1, UpdateFacts
  <2>3. HasPending(db)' => HasPending(db)
    BY <2>1, <2>2
  <2> QED
    BY <2>1, <2>3 DEF GuardInv
<1>5. CASE Quiet
  BY <1>5 DEF Quiet, GuardInv
<1> QED
  BY <1>1, <1>2, <1>3, <1>4, <1>5, StepKinds

-----------------------------------------------------------------------------
(* The conjuncts of the invariant that speak of rows: one lemma per kind of *)
(* step that changes them, and one for the steps that do not                *)

RowInv == /\ IntentInPlace /\ ReconciledEnded /\ ArchivesResolved
          /\ OneRowPerCall /\ RowMeaning /\ IntentOnFile

\* What the trail shows are rows.
LEMMA TrailTypes ==
  ASSUME TypeOK, NEW r \in Trail
  PROVE  r \in Row /\ r.call \in Call /\ r.status \in Status
<1>1. r \in Row
  BY RowsAreRows DEF TypeOK, Trail
<1> QED
  BY <1>1 DEF Row

\* The call that inserts a row has no row yet.
LEMMA InsertFresh ==
  ASSUME TypeOK, LocalInv, RowInv, NEW c \in Call, InsertRow(c)
  PROVE  /\ \A r \in Trail : r.call # c
         /\ \A i \in 1..Len(db) : db[i].call # c
         /\ c \notin reconciled
<1>1. pc[c] = "insert" /\ intent[c] = 0
  BY DEF InsertRow, Goto, LocalInv, IntentPhase, Guarded
<1>2. c \notin reconciled
  BY <1>1 DEF RowInv, ReconciledEnded
<1>3. \A r \in Trail : r.call # c
  BY <1>1, <1>2 DEF RowInv, RowMeaning
<1> QED
  BY <1>2, <1>3 DEF Trail

\* Inserting the row of a call that has none keeps the rows in order.
LEMMA InsertKeepsRows ==
  ASSUME TypeOK, LocalInv, RowInv, NEW c \in Call, InsertRow(c)
  PROVE  RowInv'
<1> DEFINE new == [call |-> c, status |-> verdict[c]]
<1>1. /\ Len(db') = Len(db) + 1 /\ Len(db) \in Nat
      /\ db'[Len(db) + 1] = new
      /\ \A i \in 1..Len(db) : db'[i] = db[i]
      /\ archived' = archived
      /\ Trail' = Trail \cup {new}
  BY InsertFacts DEF TypeOK
<1>2. /\ \A r \in Trail : r.call # c
      /\ \A i \in 1..Len(db) : db[i].call # c
      /\ c \notin reconciled
  BY InsertFresh
<1>3. /\ pc[c] = "insert" /\ intent[c] = 0
      /\ UNCHANGED <<verdict, reconciled>>
      /\ \A d \in Call \ {c} : pc'[d] = pc[d] /\ intent'[d] = intent[d]
      /\ verdict[c] = "pending" => /\ pc'[c] = "call"
                                   /\ intent'[c] = Len(db) + 1
      /\ verdict[c] # "pending" => pc'[c] = "done" /\ intent'[c] = 0
  BY DEF InsertRow, Goto, Strict, LocalInv, IntentPhase, Guarded, TypeOK
<1>4. IntentInPlace'
  <2> SUFFICES ASSUME NEW d \in Call, intent'[d] # 0, pc'[d] # "done",
                      d \notin reconciled'
               PROVE  /\ intent'[d] \in 1..Len(db')
                      /\ db'[intent'[d]] = [call |-> d, status |-> "pending"]
    BY DEF IntentInPlace
  <2>1. CASE d = c
    BY <2>1, <1>1, <1>3
  <2>2. CASE d # c
    BY <2>2, <1>1, <1>3 DEF RowInv, IntentInPlace
  <2> QED
    BY <2>1, <2>2
<1>5. ReconciledEnded'
  BY <1>2, <1>3 DEF RowInv, ReconciledEnded, TypeOK
<1>6. ArchivesResolved'
  BY <1>1 DEF RowInv, ArchivesResolved
<1>7. OneRowPerCall'
  <2>1. ASSUME NEW i \in 1..Len(db'), NEW j \in 1..Len(db'),
               db'[i].call = db'[j].call
        PROVE  i = j
    <3>1. CASE i \in 1..Len(db) /\ j \in 1..Len(db)
      BY <2>1, <3>1, <1>1 DEF RowInv, OneRowPerCall
    <3>2. CASE i = Len(db) + 1 \/ j = Len(db) + 1
      BY <2>1, <3>2, <1>1, <1>2
    <3> QED
      BY <3>1, <3>2, <1>1
  <2>2. ASSUME NEW r \in archived', NEW i \in 1..Len(db')
        PROVE  r.call # db'[i].call
    <3>1. r \in archived /\ r.call # c
      BY <1>1, <1>2 DEF Trail
    <3>2. CASE i \in 1..Len(db)
      BY <3>1, <3>2, <1>1 DEF RowInv, OneRowPerCall
    <3>3. CASE i = Len(db) + 1
      BY <3>1, <3>3, <1>1
    <3> QED
      BY <3>2, <3>3, <1>1
  <2> QED
    BY <2>1, <2>2, <1>1 DEF RowInv, OneRowPerCall
<1>8. RowMeaning'
  <2> SUFFICES ASSUME NEW r \in Trail'
               PROVE  \/ r.status = "pending" /\ intent'[r.call] # 0
                         /\ pc'[r.call] # "done"
                      \/ r.status = verdict'[r.call] /\ pc'[r.call] = "done"
                      \/ r.status = "unknown" /\ r.call \in reconciled'
    BY DEF RowMeaning
  <2>1. CASE r = new
    BY <2>1, <1>1, <1>3
  <2>2. CASE r \in Trail
    <3>1. r.call \in Call \ {c}
      BY <2>2, <1>2, TrailTypes
    <3> QED
      BY <3>1, <2>2, <1>3 DEF RowInv, RowMeaning
  <2> QED
    BY <2>1, <2>2, <1>1
<1>9. IntentOnFile'
  <2> SUFFICES ASSUME NEW d \in Call, intent'[d] # 0
               PROVE  \E r \in Trail' : r.call = d
    BY DEF IntentOnFile
  <2>1. CASE d = c
    BY <2>1, <1>1
  <2>2. CASE d # c
    BY <2>2, <1>1, <1>3 DEF RowInv, IntentOnFile
  <2> QED
    BY <2>1, <2>2
<1> QED
  BY <1>4, <1>5, <1>6, <1>7, <1>8, <1>9 DEF RowInv

\* A rotation, with nothing pending, keeps the rows in order.
LEMMA RenameKeepsRows ==
  ASSUME TypeOK, LocalInv, GuardInv, RowInv, NEW c \in Call, Rename(c)
  PROVE  RowInv'
<1>1. Len(db') = 0 /\ Trail' = Trail /\ archived' = Trail
  BY RenameFacts
<1>2. /\ pc[c] = "rename" /\ intent[c] = 0
      /\ UNCHANGED <<verdict, intent, reconciled>>
      /\ pc'[c] = "schema" /\ \A d \in Call \ {c} : pc'[d] = pc[d]
  BY DEF Rename, Goto, LocalInv, IntentPhase, Guarded, TypeOK
<1>3. \A i \in 1..Len(db) : db[i].status # "pending"
  BY <1>2 DEF GuardInv, NothingPendingAtRename, HasPending
<1>4. \A r \in Trail : r.status # "pending"
  BY <1>3 DEF Trail, RowInv, ArchivesResolved
<1>5. IntentInPlace'
  <2>1. ASSUME NEW d \in Call, intent[d] # 0, pc[d] # "done",
               d \notin reconciled
        PROVE  FALSE
    <3>1. /\ intent[d] \in 1..Len(db)
          /\ db[intent[d]] = [call |-> d, status |-> "pending"]
      BY <2>1 DEF RowInv, IntentInPlace
    <3>2. db[intent[d]].status = "pending"
      BY <3>1
    <3> QED
      BY <3>1, <3>2, <1>3
  <2> QED
    BY <2>1, <1>2 DEF IntentInPlace
<1>6. ReconciledEnded'
  BY <1>2 DEF RowInv, ReconciledEnded, TypeOK
<1>7. ArchivesResolved'
  BY <1>1, <1>4 DEF ArchivesResolved
<1>8. OneRowPerCall'
  <2>1. \A r, s \in Trail : r.call = s.call => r = s
    BY DEF RowInv, OneRowPerCall, Trail
  <2> QED
    BY <2>1, <1>1 DEF OneRowPerCall
<1>9. RowMeaning'
  <2>1. \A r \in Trail : r.call \in Call
    BY TrailTypes
  <2> QED
    BY <2>1, <1>1, <1>2, <1>4 DEF RowInv, RowMeaning
<1>10. IntentOnFile'
  BY <1>1, <1>2 DEF RowInv, IntentOnFile
<1> QED
  BY <1>5, <1>6, <1>7, <1>8, <1>9, <1>10 DEF RowInv

\* What closing row k, the pending row of call c, with status t leaves true
\* of the rows, whoever does it.
LEMMA CloseRow ==
  ASSUME TypeOK, RowInv, NEW c \in Call, NEW k \in 1..Len(db), NEW t \in Status,
         db[k].call = c, db[k].status = "pending",
         db' = [db EXCEPT ![k].status = t], archived' = archived
  PROVE  LET new == [call |-> c, status |-> t] IN
         /\ Len(db') = Len(db)
         /\ \A i \in 1..Len(db) : i # k => db'[i] = db[i] /\ db[i].call # c
         /\ \A r \in Trail' : r = new \/ (r \in Trail /\ r.call \in Call \ {c})
         /\ new \in Trail'
         /\ \A r \in Trail : r.call = c \/ r \in Trail'
         /\ OneRowPerCall'
<1> DEFINE new == [call |-> c, status |-> t]
<1>1. /\ Len(db') = Len(db)
      /\ db'[k] = new
      /\ \A i \in 1..Len(db) : i # k => db'[i] = db[i]
      /\ new \in Trail'
      /\ \A r \in Trail : r = db[k] \/ r \in Trail'
  BY UpdateFacts
<1>2. \A i \in 1..Len(db) : i # k => db[i].call # c
  BY DEF RowInv, OneRowPerCall
<1>3. \A r \in archived : r.call # c
  BY DEF RowInv, OneRowPerCall
<1>4. ASSUME NEW r \in Trail'
      PROVE  r = new \/ (r \in Trail /\ r.call \in Call \ {c})
  <2>1. CASE r \in archived
    BY <2>1, <1>3, TrailTypes DEF Trail
  <2>2. CASE r \in {db'[i] : i \in 1..Len(db')}
    <3>1. PICK i \in 1..Len(db) : r = db'[i]
      BY <2>2, <1>1
    <3>2. CASE i = k
      BY <3>1, <3>2, <1>1
    <3>3. CASE i # k
      <4>1. r = db[i] /\ r.call # c
        BY <3>1, <3>3, <1>1, <1>2
      <4> QED
        BY <4>1, TrailTypes DEF Trail
    <3> QED
      BY <3>2, <3>3
  <2> QED
    BY <2>1, <2>2 DEF Trail
<1>5. \A i \in 1..Len(db) : db'[i].call = db[i].call
  BY <1>1
<1>6. OneRowPerCall'
  BY <1>1, <1>5 DEF RowInv, OneRowPerCall
<1> QED
  BY <1>1, <1>2, <1>4, <1>6

\* finish_write finds the row of its own call: nobody reused its id.
LEMMA FinishOwnRow ==
  ASSUME TypeOK, LocalInv, RowInv, NEW c \in Call, FinishWrite(c)
  PROVE  /\ intent[c] \in 1..Len(db)
         /\ db[intent[c]].call = c /\ db[intent[c]].status = "pending"
         /\ verdict[c] \in Verdict
         /\ c \notin reconciled
<1>1. pc[c] = "finalize" /\ intent[c] # 0
  BY DEF FinishWrite, Goto
<1>2. verdict[c] \in Verdict
  BY <1>1 DEF LocalInv, VerdictPhase, TypeOK, Status
<1>3. c \notin reconciled
  BY <1>1 DEF RowInv, ReconciledEnded
<1>4. /\ intent[c] \in 1..Len(db)
      /\ db[intent[c]] = [call |-> c, status |-> "pending"]
  BY <1>1, <1>3 DEF RowInv, IntentInPlace
<1> QED
  BY <1>2, <1>3, <1>4

\* finish_write keeps the rows in order.
LEMMA FinishKeepsRows ==
  ASSUME TypeOK, LocalInv, RowInv, NEW c \in Call, FinishWrite(c)
  PROVE  RowInv'
<1> DEFINE new == [call |-> c, status |-> verdict[c]]
<1>1. /\ intent[c] \in 1..Len(db)
      /\ db[intent[c]].call = c /\ db[intent[c]].status = "pending"
      /\ verdict[c] \in Verdict /\ verdict[c] \in Status
      /\ c \notin reconciled
  BY FinishOwnRow DEF Status
<1>2. /\ db' = [db EXCEPT ![intent[c]].status = verdict[c]]
      /\ pc'[c] = "done" /\ \A d \in Call \ {c} : pc'[d] = pc[d]
      /\ UNCHANGED <<verdict, intent, archived, reconciled>>
  BY DEF FinishWrite, Goto, TypeOK
<1>3. /\ Len(db') = Len(db)
      /\ \A i \in 1..Len(db) : i # intent[c] =>
            db'[i] = db[i] /\ db[i].call # c
      /\ \A r \in Trail' : r = new \/ (r \in Trail /\ r.call \in Call \ {c})
      /\ new \in Trail'
      /\ \A r \in Trail : r.call = c \/ r \in Trail'
      /\ OneRowPerCall'
  BY <1>1, <1>2, CloseRow
<1>4. IntentInPlace'
  <2> SUFFICES ASSUME NEW d \in Call, intent'[d] # 0, pc'[d] # "done",
                      d \notin reconciled'
               PROVE  /\ intent'[d] \in 1..Len(db')
                      /\ db'[intent'[d]] = [call |-> d, status |-> "pending"]
    BY DEF IntentInPlace
  <2>1. d # c /\ pc[d] # "done"
    BY <1>2
  <2>2. /\ intent[d] \in 1..Len(db)
        /\ db[intent[d]] = [call |-> d, status |-> "pending"]
    BY <2>1, <1>2 DEF RowInv, IntentInPlace
  <2>3. intent[d] # intent[c]
    BY <2>1, <2>2, <1>1
  <2> QED
    BY <2>2, <2>3, <1>2, <1>3
<1>5. ReconciledEnded'
  BY <1>1, <1>2 DEF RowInv, ReconciledEnded, TypeOK
<1>6. ArchivesResolved'
  BY <1>2 DEF RowInv, ArchivesResolved
<1>7. RowMeaning'
  BY <1>2, <1>3 DEF RowInv, RowMeaning
<1>8. IntentOnFile'
  <2> SUFFICES ASSUME NEW d \in Call, intent'[d] # 0
               PROVE  \E r \in Trail' : r.call = d
    BY DEF IntentOnFile
  <2>1. CASE d = c
    BY <2>1, <1>3
  <2>2. CASE d # c
    BY <2>2, <1>2, <1>3 DEF RowInv, IntentOnFile
  <2> QED
    BY <2>1, <2>2
<1> QED
  BY <1>3, <1>4, <1>5, <1>6, <1>7, <1>8 DEF RowInv

\* A row that is pending belongs to a call that has an intent and is not done.
LEMMA PendingRow ==
  ASSUME TypeOK, LocalInv, RowInv, NEW r \in Trail, r.status = "pending"
  PROVE  intent[r.call] # 0 /\ pc[r.call] # "done"
<1>1. r.call \in Call
  BY TrailTypes
<1> QED
  BY <1>1 DEF RowInv, RowMeaning, LocalInv, VerdictPhase

\* reconcile_pending keeps the rows in order.
LEMMA ReconcileKeepsRows ==
  ASSUME TypeOK, LocalInv, RowInv, NEW k \in 1..Len(db), Reconcile(k)
  PROVE  RowInv'
<1> DEFINE c == db[k].call
           new == [call |-> c, status |-> "unknown"]
<1>1. c \in Call /\ db[k] \in Trail
  BY RowsAreRows DEF TypeOK, Trail
<1>2. /\ db' = [db EXCEPT ![k].status = "unknown"]
      /\ db[k].status = "pending"
      /\ reconciled' = reconciled \cup {c}
      /\ pc[c] \in {"raised", "crashed"}
      /\ UNCHANGED <<pc, verdict, intent, archived>>
  BY DEF Reconcile, callVars
<1>3. intent[c] # 0
  BY <1>1, <1>2, PendingRow
<1>4. "unknown" \in Status
  BY DEF Status, Verdict
<1>5. /\ Len(db') = Len(db)
      /\ \A i \in 1..Len(db) : i # k => db'[i] = db[i] /\ db[i].call # c
      /\ \A r \in Trail' : r = new \/ (r \in Trail /\ r.call \in Call \ {c})
      /\ new \in Trail'
      /\ \A r \in Trail : r.call = c \/ r \in Trail'
      /\ OneRowPerCall'
  BY <1>1, <1>2, <1>4, CloseRow
<1> HIDE DEF c
<1>6. IntentInPlace'
  <2> SUFFICES ASSUME NEW d \in Call, intent'[d] # 0, pc'[d] # "done",
                      d \notin reconciled'
               PROVE  /\ intent'[d] \in 1..Len(db')
                      /\ db'[intent'[d]] = [call |-> d, status |-> "pending"]
    BY DEF IntentInPlace
  <2>1. d # c
    BY <1>2
  <2>2. /\ intent[d] \in 1..Len(db)
        /\ db[intent[d]] = [call |-> d, status |-> "pending"]
    BY <1>2 DEF RowInv, IntentInPlace
  <2>3. intent[d] # k
    BY <2>1, <2>2 DEF c
  <2> QED
    BY <2>2, <2>3, <1>2, <1>5
<1>7. ReconciledEnded'
  BY <1>2, <1>3 DEF RowInv, ReconciledEnded
<1>8. ArchivesResolved'
  BY <1>2 DEF RowInv, ArchivesResolved
<1>9. RowMeaning'
  BY <1>2, <1>5 DEF RowInv, RowMeaning
<1>10. IntentOnFile'
  <2> SUFFICES ASSUME NEW d \in Call, intent'[d] # 0
               PROVE  \E r \in Trail' : r.call = d
    BY DEF IntentOnFile
  <2>1. CASE d = c
    BY <2>1, <1>5
  <2>2. CASE d # c
    BY <2>2, <1>2, <1>5 DEF RowInv, IntentOnFile
  <2> QED
    BY <2>1, <2>2
<1> QED
  BY <1>5, <1>6, <1>7, <1>8, <1>9, <1>10 DEF RowInv

\* Steps that leave the rows alone keep them in order.
LEMMA QuietKeepsRows == TypeOK /\ RowInv /\ Quiet => RowInv'
<1> SUFFICES ASSUME TypeOK, RowInv, Quiet PROVE RowInv'
  OBVIOUS
<1>1. Trail' = Trail
  BY DEF Quiet, Trail
<1>2. IntentInPlace'
  BY DEF Quiet, RowInv, IntentInPlace, Ended
<1>3. ReconciledEnded'
  BY DEF Quiet, RowInv, ReconciledEnded, Ended, TypeOK
<1>4. ArchivesResolved' /\ OneRowPerCall'
  BY DEF Quiet, RowInv, ArchivesResolved, OneRowPerCall
<1>5. RowMeaning'
  <2>1. \A r \in Trail : r.call \in Call
    BY TrailTypes
  <2> QED
    BY <2>1, <1>1 DEF Quiet, RowInv, RowMeaning, Ended
<1>6. IntentOnFile'
  BY <1>1 DEF Quiet, RowInv, IntentOnFile
<1> QED
  BY <1>2, <1>3, <1>4, <1>5, <1>6 DEF RowInv

-----------------------------------------------------------------------------
(* The invariant is inductive *)

\* The invariant holds initially.
LEMMA InitInv == Init => IInv
<1> SUFFICES ASSUME Init PROVE IInv
  OBVIOUS
<1>1. TypeOK
  BY InitType
<1>2. Len(db) = 0 /\ Trail = {} /\ 1..Len(db) = {} /\ archived = {}
  BY DEF Init, Trail
<1>3. LocalInv
  BY CallAssumption DEF Init, LocalInv, VerdictPhase, IntentPhase, WirePhase,
     TurnedAway, BudgetFirst, OkLanded, ErrorNotLive, AnsweredOk, TokenPhase,
     Guarded
<1>4. GuardHeld /\ NothingPendingAtRename
  BY DEF Init, GuardHeld, NothingPendingAtRename, Guarded
<1>5. IntentInPlace /\ ReconciledEnded /\ IntentOnFile
  BY DEF Init, IntentInPlace, ReconciledEnded, IntentOnFile
<1>6. ArchivesResolved /\ OneRowPerCall /\ RowMeaning
  BY <1>2 DEF ArchivesResolved, OneRowPerCall, RowMeaning
<1> QED
  BY <1>1, <1>3, <1>4, <1>5, <1>6 DEF IInv, LocalInv

\* The invariant, grouped the way its proof is.
LEMMA InvParts == IInv <=> TypeOK /\ GuardInv /\ LocalInv /\ RowInv
  BY DEF IInv, GuardInv, LocalInv, RowInv

\* Every step keeps the invariant.
LEMMA StepInv == IInv /\ [Next]_vars => IInv'
<1> SUFFICES ASSUME IInv, [Next]_vars PROVE IInv'
  OBVIOUS
<1>1. TypeOK /\ GuardInv /\ LocalInv /\ RowInv
  BY InvParts
<1>2. TypeOK' /\ LocalInv'
  BY <1>1, StepType, StepLocal
<1>3. GuardInv'
  BY <1>1, StepGuardHeld, StepNothingPending DEF GuardInv
<1>4. RowInv'
  <2>1. ASSUME NEW c \in Call, InsertRow(c) \/ Rename(c) \/ FinishWrite(c)
        PROVE  RowInv'
    BY <1>1, <2>1, InsertKeepsRows, RenameKeepsRows, FinishKeepsRows
  <2>2. ASSUME NEW i \in 1..Len(db), Reconcile(i) PROVE RowInv'
    BY <1>1, <2>2, ReconcileKeepsRows
  <2>3. CASE Quiet
    BY <1>1, <2>3, QuietKeepsRows
  <2> QED
    BY <1>1, <2>1, <2>2, <2>3, StepKinds
<1> QED
  BY <1>2, <1>3, <1>4, InvParts DEF IInv, GuardInv, LocalInv, RowInv

\* The inductive invariant holds throughout: the guard, the wrapper's program
\* points, the intents and the audit rows of every process agree.
THEOREM Inductive == Spec => []IInv
<1>1. Init => IInv
  BY InitInv
<1>2. IInv /\ [Next]_vars => IInv'
  BY StepInv
<1> QED
  BY <1>1, <1>2, PTL DEF Spec

-----------------------------------------------------------------------------
(* The safety properties *)

\* However calls, crashes, rotations and storage failures interleave, a write
\* that may have landed has its pending row in the live database.
THEOREM UnresolvedStaysVisible == Spec => []UnresolvedVisible
<1>1. IInv => UnresolvedVisible
  <2> SUFFICES ASSUME IInv, NEW c \in Call, wire[c] # "none", pc[c] # "done",
                      c \notin reconciled
               PROVE  \E i \in 1..Len(db) :
                        db[i] = [call |-> c, status |-> "pending"]
    BY DEF UnresolvedVisible
  <2>1. intent[c] # 0
    BY DEF IInv, WirePhase
  <2>2. /\ intent[c] \in 1..Len(db)
        /\ db[intent[c]] = [call |-> c, status |-> "pending"]
    BY <2>1 DEF IInv, IntentInPlace
  <2> QED
    BY <2>2
<1> QED
  BY <1>1, Inductive, PTL

\* No rotation ever carries an unresolved intent into an archive.
THEOREM ArchivesStayResolved == Spec => []ArchivesResolved
<1>1. IInv => ArchivesResolved
  BY DEF IInv
<1> QED
  BY <1>1, Inductive, PTL

\* Undo tokens are recorded only for changes that landed, or, marked
\* unverified, for undetermined ones.
THEOREM TokensStayJustified == Spec => []TokensJustified
<1>1. IInv => TokensJustified
  BY DEF IInv, TokenPhase, TokensJustified
<1> QED
  BY <1>1, Inductive, PTL

\* If undetermined outcomes are told apart, the trail never says "ok" of a
\* change that did not land nor "error" of one that did or may.
THEOREM VerdictsStayTrue ==
  ASSUME AllTold
  PROVE  Spec => []VerdictsTrue
<1>1. IInv => VerdictsTrue
  <2> SUFFICES ASSUME IInv, NEW r \in Trail, r.call \in Writes
               PROVE  /\ r.status = "ok" => wire[r.call] = "applied"
                      /\ r.status = "error" =>
                           wire[r.call] \in {"none", "rejected"}
    BY DEF VerdictsTrue
  <2>1. r.status \in {"ok", "error"} => r.status = verdict[r.call]
    BY DEF IInv, RowMeaning
  <2> QED
    BY <2>1 DEF IInv, OkLanded, ErrorNotLive
<1> QED
  BY <1>1, Inductive, PTL

\* A step resolves the row of the call that takes it, or one an operator
\* reconciles, although row ids restart with every rotation.
THEOREM OwnersResolve == Spec => RowsResolvedByOwner
<1> DEFINE Owned(i) ==
        /\ db[i].status = "pending" /\ db'[i].call = db[i].call
        /\ \/ pc[db[i].call] = "finalize" /\ pc'[db[i].call] = "done"
           \/ db[i].call \in reconciled'
           Resolves == \A i \in 1..Len(db) :
                          i \in 1..Len(db') /\ db'[i] # db[i] => Owned(i)
<1>1. ASSUME IInv, [Next]_vars PROVE Resolves
  <2> SUFFICES ASSUME NEW i \in 1..Len(db), i \in 1..Len(db'), db'[i] # db[i]
               PROVE  Owned(i)
    OBVIOUS
  <2>1. TypeOK /\ LocalInv /\ RowInv
    BY <1>1, InvParts
  <2>2. ASSUME NEW c \in Call, InsertRow(c) PROVE Owned(i)
    BY <2>1, <2>2, InsertFacts
  <2>3. ASSUME NEW c \in Call, Rename(c) PROVE Owned(i)
    <3>1. Len(db') = 0
      BY <2>1, <2>3, RenameFacts
    <3> QED
      BY <3>1
  <2>4. ASSUME NEW c \in Call, FinishWrite(c) PROVE Owned(i)
    <3>1. /\ intent[c] \in 1..Len(db)
          /\ db[intent[c]].call = c /\ db[intent[c]].status = "pending"
          /\ verdict[c] \in Status
      BY <2>1, <2>4, FinishOwnRow DEF Status
    <3>2. /\ db' = [db EXCEPT ![intent[c]].status = verdict[c]]
          /\ archived' = archived /\ pc[c] = "finalize" /\ pc'[c] = "done"
      BY <2>1, <2>4 DEF FinishWrite, Goto, TypeOK
    <3>3. /\ db'[intent[c]] = [call |-> c, status |-> verdict[c]]
          /\ \A j \in 1..Len(db) : j # intent[c] => db'[j] = db[j]
      BY <2>1, <3>1, <3>2, UpdateFacts
    <3> QED
      BY <3>1, <3>2, <3>3
  <2>5. ASSUME NEW k \in 1..Len(db), Reconcile(k) PROVE Owned(i)
    <3>1. /\ db' = [db EXCEPT ![k].status = "unknown"]
          /\ archived' = archived /\ db[k].status = "pending"
          /\ db[k].call \in reconciled' /\ "unknown" \in Status
      BY <2>5 DEF Reconcile, Status, Verdict
    <3>2. /\ db'[k] = [call |-> db[k].call, status |-> "unknown"]
          /\ \A j \in 1..Len(db) : j # k => db'[j] = db[j]
      BY <2>1, <3>1, UpdateFacts
    <3> QED
      BY <3>1, <3>2
  <2>6. CASE Quiet
    BY <2>6 DEF Quiet
  <2> QED
    BY <1>1, <2>1, <2>2, <2>3, <2>4, <2>5, <2>6, StepKinds
<1>2. IInv /\ [Next]_vars => [Resolves]_vars
  BY <1>1
<1> QED
  BY <1>2, Inductive, PTL DEF Spec, RowsResolvedByOwner

-----------------------------------------------------------------------------
(* The write-ahead contract *)

\* A call's only row is all the record shows of it.
LEMMA RecordOfRow ==
  ASSUME IInv, NEW r \in Trail, r.call \in Writes
  PROVE  Record[r.call] = {r.status}
<1>1. \A x \in Trail : x.call = r.call => x = r
  BY DEF IInv, OneRowPerCall, Trail
<1> QED
  BY <1>1 DEF Record

\* A write without a row has an empty record.
LEMMA NoRecord ==
  ASSUME NEW c \in Writes, \A r \in Trail : r.call # c
  PROVE  Record[c] = {}
  BY DEF Record

\* Whether a write landed changes only when the server acts on it.
LEMMA LiveKinds ==
  ASSUME TypeOK, LocalInv, [Next]_vars
  PROVE  \/ Live' = Live
         \/ \E c \in Writes : /\ ServerActs(c)
                              /\ wire[c] = "sent" /\ wire'[c] = "applied"
<1>1. ASSUME NEW c \in Call, ServerActs(c)
      PROVE  \/ Live' = Live
             \/ c \in Writes /\ wire[c] = "sent" /\ wire'[c] = "applied"
  <2>1. PICK w \in {"applied", "rejected"} :
           wire' = [wire EXCEPT ![c] = w] /\ wire[c] = "sent"
    BY <1>1 DEF ServerActs
  <2>2. c \in Writes
    BY <2>1 DEF LocalInv, WirePhase, IntentPhase
  <2>3. CASE w = "applied"
    BY <2>1, <2>2, <2>3 DEF TypeOK
  <2>4. CASE w = "rejected"
    <3>1. \A d \in Writes : (wire'[d] = "applied") = (wire[d] = "applied")
      BY <2>1, <2>4, CallAssumption DEF TypeOK
    <3> QED
      BY <3>1 DEF Live
  <2> QED
    BY <2>3, <2>4
<1>2. ASSUME NEW c \in Call, Send(c) PROVE Live' = Live
  <2>1. wire[c] = "none" /\ wire' = [wire EXCEPT ![c] = "sent"]
    BY <1>2 DEF Send, Goto, LocalInv, WirePhase
  <2>2. \A d \in Writes : (wire'[d] = "applied") = (wire[d] = "applied")
    BY <2>1, CallAssumption DEF TypeOK
  <2> QED
    BY <2>2 DEF Live
<1>3. CASE wire' = wire
  BY <1>3 DEF Live
<1>4. \/ \E c \in Call : ServerActs(c) \/ Send(c)
      \/ wire' = wire
  BY DEF Next, Enter, Refuse, Admit, Step, IntentRefused, IntentRequested,
     AcquireGuard, StartRotation, KeepDatabase, Rename, RenameFails, InitDb,
     InsertRow, InsertFails, Read, NotSent, Reply, ReplyLost, Interrupt,
     RecordUndo, FinishWrite, FinishFails, LogVerdict, Crash, Restart, StorageChanges,
     Reconcile, vars, callVars
<1> QED
  BY <1>1, <1>2, <1>3, <1>4

\* When the server applies a change, its intent is on file and has no definite
\* verdict: the crux of the contract, and where unmarked outcomes break it.
LEMMA LandJustified ==
  ASSUME AllTold, IInv, NEW c \in Writes, wire[c] = "sent"
  PROVE  Record[c] \in {{"pending"}, {"unknown"}}
<1>1. intent[c] # 0 /\ c \in Call
  BY CallAssumption DEF IInv, WirePhase
<1>2. PICK r \in Trail : r.call = c
  BY <1>1 DEF IInv, IntentOnFile
<1>3. Record[c] = {r.status}
  BY <1>2, RecordOfRow
<1>4. verdict[c] \notin {"ok", "error", "budget_exceeded"}
  BY <1>1 DEF IInv, OkLanded, ErrorNotLive, BudgetFirst
<1>5. verdict[c] \in {"pending", "unknown"}
  BY <1>1, <1>4 DEF IInv, TypeOK, Status, Verdict
<1>6. r.status \in {"pending", "unknown"}
  BY <1>2, <1>5 DEF IInv, RowMeaning
<1> QED
  BY <1>3, <1>6

\* Inserting a row declares an intent, or reports a call turned away.
LEMMA InsertSimulates ==
  ASSUME IInv, IInv', NEW c \in Call, InsertRow(c)
  PROVE  Contract!Next \/ UNCHANGED <<Record, Live>>
<1> DEFINE new == [call |-> c, status |-> verdict[c]]
<1>1. TypeOK /\ LocalInv /\ RowInv
  BY InvParts
<1>2. Trail' = Trail \cup {new} /\ \A r \in Trail : r.call # c
  BY <1>1, InsertFacts, InsertFresh
<1>3. Live' = Live
  BY DEF InsertRow, Live
<1>4. \A d \in Writes \ {c} : Record'[d] = Record[d]
  BY <1>2 DEF Record
<1>5. CASE c \in Writes
  <2>1. Record[c] = {}
    BY <1>2, <1>5, NoRecord
  <2>5. {r \in Trail' : r.call = c} = {new}
    BY <1>2
  <2>6. Record'[c] = {verdict[c]}
    <3>1. Record'[c] = {r.status : r \in {x \in Trail' : x.call = c}}
      BY <1>5 DEF Record
    <3>2. Record'[c] = {new.status}
      BY <2>5, <3>1
    <3> QED
      BY <3>2
  <2>2. Record' = [Record EXCEPT ![c] = {verdict[c]}]
    BY <1>4, <2>6 DEF Record
  <2>3. CASE verdict[c] = "pending"
    <3>1. Contract!Intend(c)
      BY <1>3, <2>1, <2>2, <2>3 DEF Contract!Intend
    <3> QED
      BY <1>5, <3>1 DEF Contract!Next
  <2>4. CASE verdict[c] # "pending"
    <3>1. intent[c] = 0
      BY <1>1 DEF InsertRow, Goto, LocalInv, IntentPhase, Guarded
    <3>2. verdict[c] \in {"error", "budget_exceeded"} /\ wire[c] = "none"
      BY <1>1, <1>5, <2>4, <3>1 DEF LocalInv, TurnedAway, WirePhase
    <3>3. Live[c] = FALSE
      BY <1>5, <3>2 DEF Live
    <3>4. Contract!TurnAway(c)
      BY <1>3, <2>1, <2>2, <3>2, <3>3 DEF Contract!TurnAway
    <3> QED
      BY <1>5, <3>4 DEF Contract!Next
  <2> QED
    BY <2>3, <2>4
<1>6. CASE c \notin Writes
  <2>1. \A d \in Writes : Record'[d] = Record[d]
    BY <1>4, <1>6
  <2> QED
    BY <1>3, <2>1 DEF Record
<1> QED
  BY <1>5, <1>6

\* Closing the pending row of a write closes its intent in the contract.
LEMMA CloseSimulates ==
  ASSUME IInv, IInv', NEW c \in Writes, NEW k \in 1..Len(db),
         NEW t \in {"ok", "error", "unknown"},
         db[k].call = c, db[k].status = "pending",
         db' = [db EXCEPT ![k].status = t], archived' = archived,
         wire' = wire,
         t = "ok" => wire[c] = "applied",
         t = "error" => wire[c] # "applied"
  PROVE  Contract!Next
<1> DEFINE new == [call |-> c, status |-> t]
<1>1. TypeOK /\ RowInv /\ c \in Call /\ t \in Status /\ db[k] \in Trail
  BY InvParts, CallAssumption DEF Status, Verdict, Trail
<1>2. /\ Len(db') = Len(db)
      /\ \A i \in 1..Len(db) : i # k => db'[i] = db[i] /\ db[i].call # c
      /\ \A r \in Trail' : r = new \/ (r \in Trail /\ r.call \in Call \ {c})
      /\ new \in Trail'
      /\ \A r \in Trail : r.call = c \/ r \in Trail'
      /\ OneRowPerCall'
  BY <1>1, CloseRow
<1>3. Record[c] = {"pending"}
  BY <1>1, RecordOfRow
<1>4. Record'[c] = {t}
  BY <1>2 DEF Record
<1>5. \A d \in Writes \ {c} : Record'[d] = Record[d]
  <2> SUFFICES ASSUME NEW d \in Writes \ {c}
               PROVE  {x \in Trail' : x.call = d} = {x \in Trail : x.call = d}
    BY DEF Record
  <2> QED
    BY <1>2
<1>6. Record' = [Record EXCEPT ![c] = {t}]
  BY <1>4, <1>5 DEF Record
<1>7. Live' = Live /\ Live[c] = (wire[c] = "applied")
  BY DEF Live
<1>8. Contract!Close(c)
  BY <1>3, <1>6, <1>7 DEF Contract!Close
<1> QED
  BY <1>8 DEF Contract!Next

\* Every step of the governance package is a step of the contract, or none.
LEMMA StepSimulates ==
  ASSUME AllTold, IInv, IInv', [Next]_vars
  PROVE  Contract!Next \/ UNCHANGED <<Record, Live>>
<1>1. TypeOK /\ LocalInv /\ RowInv
  BY InvParts
<1>2. ASSUME NEW c \in Call, InsertRow(c)
      PROVE  Contract!Next \/ UNCHANGED <<Record, Live>>
  BY <1>2, InsertSimulates
<1>3. ASSUME NEW c \in Call, Rename(c) PROVE UNCHANGED <<Record, Live>>
  <2>1. Trail' = Trail /\ wire' = wire
    BY <1>1, <1>3, RenameFacts DEF Rename
  <2> QED
    BY <2>1 DEF Record, Live
<1>4. ASSUME NEW c \in Call, FinishWrite(c) PROVE Contract!Next
  <2>1. /\ intent[c] \in 1..Len(db)
        /\ db[intent[c]].call = c /\ db[intent[c]].status = "pending"
        /\ verdict[c] \in Verdict
    BY <1>1, <1>4, FinishOwnRow
  <2>2. /\ intent[c] # 0 /\ wire' = wire /\ archived' = archived
        /\ db' = [db EXCEPT ![intent[c]].status = verdict[c]]
    BY <1>4 DEF FinishWrite
  <2>3. c \in Writes
    BY <2>2 DEF IInv, IntentPhase
  <2>4. verdict[c] \in {"ok", "error", "unknown"}
    BY <2>1, <2>2 DEF IInv, BudgetFirst, Verdict
  <2>5. /\ verdict[c] = "ok" => wire[c] = "applied"
        /\ verdict[c] = "error" => wire[c] # "applied"
    BY <2>3 DEF IInv, OkLanded, ErrorNotLive
  <2> QED
    BY <2>1, <2>2, <2>3, <2>4, <2>5, CloseSimulates
<1>5. ASSUME NEW k \in 1..Len(db), Reconcile(k) PROVE Contract!Next
  <2>1. /\ db[k].status = "pending" /\ archived' = archived /\ wire' = wire
        /\ db' = [db EXCEPT ![k].status = "unknown"]
    BY <1>5 DEF Reconcile, callVars
  <2>2. db[k] \in Trail /\ db[k].call \in Call
    BY <1>1, RowsAreRows DEF Trail, TypeOK
  <2>3. db[k].call \in Writes
    BY <1>1, <2>1, <2>2, PendingRow DEF IInv, IntentPhase
  <2> QED
    BY <2>1, <2>3, CloseSimulates
<1>6. CASE Quiet
  <2>1. Trail' = Trail
    BY <1>6 DEF Quiet, Trail
  <2>2. Record' = Record
    BY <2>1 DEF Record
  <2>3. CASE Live' = Live
    BY <2>2, <2>3
  <2>4. ASSUME NEW c \in Writes, ServerActs(c), wire[c] = "sent",
               wire'[c] = "applied"
        PROVE  Contract!Next
    <3>1. Record[c] \in {{"pending"}, {"unknown"}}
      BY <2>4, LandJustified
    <3>2. Live' = [Live EXCEPT ![c] = TRUE]
      <4>1. c \in Call /\ \A d \in Call \ {c} : wire'[d] = wire[d]
        BY <1>1, <2>4, CallAssumption DEF ServerActs, TypeOK
      <4> QED
        BY <2>4, <4>1, CallAssumption DEF Live
    <3>3. Contract!Land(c)
      BY <2>2, <3>1, <3>2 DEF Contract!Land
    <3> QED
      BY <3>3 DEF Contract!Next
  <2> QED
    BY <1>1, <2>3, <2>4, LiveKinds
<1> QED
  BY <1>1, <1>2, <1>3, <1>4, <1>5, <1>6, StepKinds

\* If undetermined outcomes are told apart, the governance package implements
\* the write-ahead contract, for any number of calls and processes.
THEOREM Implements ==
  ASSUME AllTold
  PROVE  Spec => ImplementsContract
<1>1. Init => Contract!Init
  <2> SUFFICES ASSUME Init PROVE Contract!Init
    OBVIOUS
  <2>1. Trail = {} /\ \A c \in Writes : wire[c] = "none"
    <3>1. 1..Len(db) = {} /\ archived = {}
      BY DEF Init
    <3> QED
      BY <3>1, CallAssumption DEF Init, Trail
  <2>2. Record = [c \in Writes |-> {}]
    BY <2>1 DEF Record
  <2>3. Live = [c \in Writes |-> FALSE]
    BY <2>1 DEF Live
  <2> QED
    BY <2>2, <2>3 DEF Contract!Init
<1>2. IInv /\ IInv' /\ [Next]_vars => [Contract!Next]_(Contract!vars)
  BY StepSimulates DEF Contract!vars
<1> QED
  BY <1>1, <1>2, Inductive, PTL DEF Spec, ImplementsContract, Contract!Spec
=============================================================================
