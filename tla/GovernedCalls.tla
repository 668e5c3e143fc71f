---------------------------- MODULE GovernedCalls ----------------------------
(***************************************************************************)
(* The governed_tool wrapper and the audit engine under it: processes (an  *)
(* MCP server, CLI invocations) run governed calls concurrently against    *)
(* one audit.db.  A write commits a "pending" intent row before its        *)
(* request leaves, and resolves that row when the call ends.  Storage may  *)
(* fail at any step, a process may die at any step, the database rotates   *)
(* when it is full, and a response may be lost while the request lives on. *)
(***************************************************************************)
EXTENDS Naturals, Sequences

CONSTANTS
  Call,        \* the governed calls that may be issued, each at most once
  Proc,        \* the processes sharing ~/.minio-aiops
  Host,        \* Host[c]: the process that issues call c
  Writes,      \* the calls with risk_level above "low" and no dry_run
  Marks,       \* the writes whose tool marks a lost response outcomeUnknown
  Captures,    \* the writes that capture_prior_state before sending
  Resends,     \* the PUT and DELETE calls that urllib3 re-sends after a lost
               \* response, and that the server refuses the second time
  Interrupts,  \* the calls of a CLI invocation, which Ctrl-C may interrupt
  RotateAt,    \* rows at which audit.db has reached _MAX_DB_SIZE_BYTES
  NoCall

ASSUME CallAssumption == /\ Host \in [Call -> Proc]
                         /\ Writes \subseteq Call
                         /\ Marks \subseteq Writes
                         /\ Captures \subseteq Writes
                         /\ Resends \subseteq Writes
                         /\ Interrupts \subseteq Call
                         /\ NoCall \notin Call
ASSUME RotateAssumption == RotateAt \in Nat \ {0}

VARIABLES
  pc,          \* where each call is in the wrapper
  verdict,     \* state.status of each call; "pending" until it is decided
  intent,      \* state.intent_id, 0 for None
  wire,        \* what became of each call's upstream request
  token,       \* the undo token recorded for each call
  up,          \* the processes that are running
  ok,          \* AuditEngine._ok of each process
  blocked,     \* AuditEngine._write_blocked of each process
  lock,        \* the call inside _rotation_guard
  db,          \* the rows of audit.db; the position is the AUTOINCREMENT id
  ready,       \* audit.db holds the audit_log table
  archived,    \* the rows rotated out into audit.<timestamp>.db files
  disk,        \* the storage under ~/.minio-aiops answers
  reconciled   \* the calls an operator resolved with reconcile_pending

callVars  == <<pc, verdict, intent, wire, token>>
procVars  == <<up, ok, blocked>>
storeVars == <<lock, db, ready, archived>>
vars == <<callVars, procVars, storeVars, disk, reconciled>>

Verdict == {"ok", "error", "unknown", "budget_exceeded"}
Status  == Verdict \cup {"pending"}
Row     == [call : Call, status : Status]

Pc == {"idle", "begin", "wait", "guard", "rename", "schema", "insert",
       "call", "sent", "undo", "finalize", "done", "raised", "crashed"}
Ended   == {"done", "raised", "crashed"}
Guarded == {"guard", "rename", "schema", "insert"}

TypeOK ==
  /\ pc \in [Call -> Pc]
  /\ verdict \in [Call -> Status]
  /\ intent \in [Call -> Nat]
  /\ wire \in [Call -> {"none", "sent", "applied", "rejected"}]
  /\ token \in [Call -> {"none", "verified", "unverified"}]
  /\ up \subseteq Proc
  /\ ok \in [Proc -> BOOLEAN]
  /\ blocked \in [Proc -> BOOLEAN]
  /\ lock \in Call \cup {NoCall}
  /\ db \in Seq(Row)
  /\ ready \in BOOLEAN
  /\ archived \subseteq Row
  /\ disk \in BOOLEAN
  /\ reconciled \subseteq Call

Init ==
  /\ pc = [c \in Call |-> "idle"]
  /\ verdict = [c \in Call |-> "pending"]
  /\ intent = [c \in Call |-> 0]
  /\ wire = [c \in Call |-> "none"]
  /\ token = [c \in Call |-> "none"]
  /\ up = Proc
  /\ ok = [p \in Proc |-> TRUE]
  /\ blocked = [p \in Proc |-> FALSE]
  /\ lock = NoCall
  /\ db = <<>>
  /\ ready = TRUE
  /\ archived = {}
  /\ disk = TRUE
  /\ reconciled = {}

-----------------------------------------------------------------------------
(* Helpers *)

Goto(c, from, to) == pc[c] = from /\ pc' = [pc EXCEPT ![c] = to]

Settle(c, status) == verdict' = [verdict EXCEPT ![c] = status]

Block(c) == blocked' = [blocked EXCEPT ![Host[c]] = TRUE]

HasPending(rows) == \E i \in 1..Len(rows) : rows[i].status = "pending"

\* The intent row is inserted strict; the row of a call that never got an
\* intent is inserted best-effort once its verdict is known.
Strict(c) == verdict[c] = "pending"

-----------------------------------------------------------------------------
(* Entering the wrapper: _pre_check and the gate of _begin_write *)

\* Faulty variant of Refuse: a status no reader of the trail knows.
RefuseUnnamed(c) ==
  /\ Goto(c, "idle", "finalize")
  /\ Host[c] \in up
  /\ Settle(c, "refused")
  /\ UNCHANGED <<intent, wire, token, procVars, storeVars, disk, reconciled>>

\* The budget or runaway guard stops the call.
Refuse(c) ==
  /\ Goto(c, "idle", "finalize")
  /\ Host[c] \in up
  /\ Settle(c, "budget_exceeded")
  /\ UNCHANGED <<intent, wire, token, procVars, storeVars, disk, reconciled>>

\* Faulty variant of Admit: writes do without an intent, too.
AdmitUnrecorded(c) ==
  /\ Goto(c, "idle", "call")
  /\ Host[c] \in up
  /\ UNCHANGED <<verdict, intent, wire, token, procVars, storeVars, disk,
                 reconciled>>

\* Reads and previews need no intent.
Admit(c) ==
  /\ Goto(c, "idle", IF c \in Writes THEN "begin" ELSE "call")
  /\ Host[c] \in up
  /\ UNCHANGED <<verdict, intent, wire, token, procVars, storeVars, disk,
                 reconciled>>

\* begin_write sees the process blocked, or log sees the engine unavailable.
IntentRefused(c) ==
  /\ Goto(c, "begin", "finalize")
  /\ blocked[Host[c]] \/ ~ok[Host[c]]
  /\ Settle(c, "error")
  /\ Block(c)
  /\ UNCHANGED <<intent, wire, token, up, ok, storeVars, disk, reconciled>>

IntentRequested(c) ==
  /\ Goto(c, "begin", "wait")
  /\ ~blocked[Host[c]] /\ ok[Host[c]]
  /\ UNCHANGED <<verdict, intent, wire, token, procVars, storeVars, disk,
                 reconciled>>

-----------------------------------------------------------------------------
(* AuditEngine.log: rotate if due and insert, under _rotation_guard *)

\* Faulty variant of AcquireGuard: nobody waits.
AcquireUnlocked(c) ==
  /\ Goto(c, "wait", "guard")
  /\ lock' = c
  /\ UNCHANGED <<verdict, intent, wire, token, procVars, db, ready, archived,
                 disk, reconciled>>

AcquireGuard(c) ==
  /\ Goto(c, "wait", "guard")
  /\ lock = NoCall
  /\ lock' = c
  /\ UNCHANGED <<verdict, intent, wire, token, procVars, db, ready, archived,
                 disk, reconciled>>

\* Faulty variant of RotationDue: pending rows do not stop a rotation.
RotationDueAnyway == disk /\ Len(db) >= RotateAt

RotationDue == disk /\ Len(db) >= RotateAt /\ ~HasPending(db)

StartRotation(c) ==
  /\ Goto(c, "guard", "rename")
  /\ RotationDue
  /\ UNCHANGED <<verdict, intent, wire, token, procVars, storeVars, disk,
                 reconciled>>

\* Not full, a pending row, unreadable, or a reader keeps the WAL checkpoint
\* from completing: the current database stays.
KeepDatabase(c) ==
  /\ Goto(c, "guard", "insert")
  /\ UNCHANGED <<verdict, intent, wire, token, procVars, storeVars, disk,
                 reconciled>>

Rename(c) ==
  /\ disk
  /\ Goto(c, "rename", "schema")
  /\ archived' = archived \cup {db[i] : i \in 1..Len(db)}
  /\ db' = <<>>
  /\ ready' = FALSE
  /\ UNCHANGED <<verdict, intent, wire, token, procVars, lock, disk,
                 reconciled>>

RenameFails(c) ==
  /\ ~disk
  /\ Goto(c, "rename", "insert")
  /\ UNCHANGED <<verdict, intent, wire, token, procVars, storeVars, disk,
                 reconciled>>

\* _init_db; its failure is swallowed and leaves a database without a table.
InitDb(c) ==
  /\ Goto(c, "schema", "insert")
  /\ ready' = (ready \/ disk)
  /\ UNCHANGED <<verdict, intent, wire, token, procVars, lock, db, archived,
                 disk, reconciled>>

InsertRow(c) ==
  /\ Goto(c, "insert", IF Strict(c) THEN "call" ELSE "done")
  /\ disk /\ ready
  /\ db' = Append(db, [call |-> c, status |-> verdict[c]])
  /\ intent' = IF Strict(c) THEN [intent EXCEPT ![c] = Len(db) + 1] ELSE intent
  /\ lock' = NoCall
  /\ UNCHANGED <<verdict, wire, token, procVars, ready, archived, disk,
                 reconciled>>

\* Faulty variant of InsertFails: the error path leaves the guard held.
InsertFailsKeepsLock(c) ==
  /\ ~(disk /\ ready)
  /\ Goto(c, "insert", IF Strict(c) THEN "finalize" ELSE "done")
  /\ IF Strict(c) THEN Settle(c, "error") /\ Block(c)
                  ELSE UNCHANGED <<verdict, blocked>>
  /\ UNCHANGED <<intent, wire, token, up, ok, storeVars, disk, reconciled>>

\* A failed intent blocks the process and stops the call; a failed
\* best-effort row is dropped.
InsertFails(c) ==
  /\ ~(disk /\ ready)
  /\ \/ /\ Strict(c)
        /\ Goto(c, "insert", "finalize")
        /\ Settle(c, "error")
        /\ Block(c)
     \/ /\ ~Strict(c)
        /\ Goto(c, "insert", "done")
        /\ UNCHANGED <<verdict, blocked>>
  /\ lock' = NoCall
  /\ UNCHANGED <<intent, wire, token, up, ok, db, ready, archived, disk,
                 reconciled>>

-----------------------------------------------------------------------------
(* The tool body and the upstream request *)

\* A read or a preview: answered or failed, nothing changed.
Read(c) ==
  /\ c \notin Writes
  /\ Goto(c, "call", "finalize")
  /\ \E s \in {"ok", "error"} : Settle(c, s)
  /\ UNCHANGED <<intent, wire, token, procVars, storeVars, disk, reconciled>>

\* A guard of the tool refuses, or the request cannot leave.
NotSent(c) ==
  /\ c \in Writes
  /\ Goto(c, "call", "finalize")
  /\ Settle(c, "error")
  /\ UNCHANGED <<intent, wire, token, procVars, storeVars, disk, reconciled>>

Send(c) ==
  /\ c \in Writes
  /\ Goto(c, "call", "sent")
  /\ wire' = [wire EXCEPT ![c] = "sent"]
  /\ UNCHANGED <<verdict, intent, token, procVars, storeVars, disk, reconciled>>

\* The server acts on a request in flight, even one whose sender gave up.
ServerActs(c) ==
  /\ wire[c] = "sent"
  /\ \E w \in {"applied", "rejected"} : wire' = [wire EXCEPT ![c] = w]
  /\ UNCHANGED <<pc, verdict, intent, token, procVars, storeVars, disk,
                 reconciled>>

\* An answer with a status: a failure if the server refused the request, or
\* if it applied a first copy of it and refused the second.
Reply(c) ==
  /\ \/ /\ wire[c] = "applied"
        /\ Goto(c, "sent", "undo")
        /\ Settle(c, "ok")
     \/ /\ wire[c] = "rejected" \/ (wire[c] = "applied" /\ c \in Resends)
        /\ Goto(c, "sent", "finalize")
        /\ Settle(c, "error")
  /\ UNCHANGED <<intent, wire, token, procVars, storeVars, disk, reconciled>>

\* Faulty variant of ReplyLost: a lost response is a failure.
ReplyLostAsError(c) ==
  /\ Goto(c, "sent", "finalize")
  /\ Settle(c, "error")
  /\ UNCHANGED <<intent, wire, token, procVars, storeVars, disk, reconciled>>

\* The response, or a read-back after it, fails: tool_errors returns an error
\* payload, flagged outcomeUnknown if it knows the exception.
ReplyLost(c) ==
  /\ \/ /\ c \in Marks
        /\ Goto(c, "sent", "undo")
        /\ Settle(c, "unknown")
     \/ /\ c \notin Marks
        /\ Goto(c, "sent", "finalize")
        /\ Settle(c, "error")
  /\ UNCHANGED <<intent, wire, token, procVars, storeVars, disk, reconciled>>

\* KeyboardInterrupt is no Exception: _capture_error does not run, and
\* _finalize records the status the call was born with.
Interrupt(c) ==
  /\ c \in Interrupts
  /\ Goto(c, "call", "finalize") \/ Goto(c, "sent", "finalize")
  /\ Settle(c, "ok")
  /\ UNCHANGED <<intent, wire, token, procVars, storeVars, disk, reconciled>>

\* Faulty variant of Inverse: an undetermined change passes for a confirmed one.
InverseTrusting(c) == IF verdict[c] \in {"ok", "unknown"} THEN "verified"
                      ELSE "none"

\* An unknown outcome has an inverse only if the prior state was captured.
Inverse(c) == IF verdict[c] = "ok" THEN "verified"
              ELSE IF c \in Captures THEN "unverified" ELSE "none"

\* _record_undo: best-effort, and some results have no inverse.
RecordUndo(c) ==
  /\ Goto(c, "undo", "finalize")
  /\ \E t \in {"none", Inverse(c)} : token' = [token EXCEPT ![c] = t]
  /\ UNCHANGED <<verdict, intent, wire, procVars, storeVars, disk, reconciled>>

-----------------------------------------------------------------------------
(* _finalize: resolve the intent, or log the call that had none *)

OwnsPending(c) == /\ intent[c] \in 1..Len(db)
                  /\ db[intent[c]].status = "pending"

FinishWrite(c) ==
  /\ intent[c] # 0
  /\ Goto(c, "finalize", "done")
  /\ disk /\ ready /\ OwnsPending(c)
  /\ db' = [db EXCEPT ![intent[c]].status = verdict[c]]
  /\ UNCHANGED <<verdict, intent, wire, token, procVars, lock, ready, archived,
                 disk, reconciled>>

\* AuditUnavailable reaches the caller; the row stays pending.
FinishFails(c) ==
  /\ intent[c] # 0
  /\ Goto(c, "finalize", "raised")
  /\ ~(disk /\ ready /\ OwnsPending(c))
  /\ Block(c)
  /\ UNCHANGED <<verdict, intent, wire, token, up, ok, storeVars, disk,
                 reconciled>>

\* log returns None at once when the engine is unavailable.
LogVerdict(c) ==
  /\ intent[c] = 0
  /\ Goto(c, "finalize", IF ok[Host[c]] THEN "wait" ELSE "done")
  /\ UNCHANGED <<verdict, intent, wire, token, procVars, storeVars, disk,
                 reconciled>>

-----------------------------------------------------------------------------
(* Processes, storage and the operator *)

\* The process dies between any two steps; the kernel drops its flock.
Crash(p) ==
  /\ p \in up
  /\ up' = up \ {p}
  /\ pc' = [c \in Call |-> IF Host[c] = p /\ pc[c] \notin Ended \cup {"idle"}
                           THEN "crashed" ELSE pc[c]]
  /\ lock' = IF lock # NoCall /\ Host[lock] = p THEN NoCall ELSE lock
  /\ UNCHANGED <<verdict, intent, wire, token, ok, blocked, db, ready,
                 archived, disk, reconciled>>

\* A new AuditEngine: _init_db decides _ok for the life of the process.
Restart(p) ==
  /\ p \notin up
  /\ up' = up \cup {p}
  /\ ok' = [ok EXCEPT ![p] = disk]
  /\ blocked' = [blocked EXCEPT ![p] = FALSE]
  /\ ready' = (ready \/ disk)
  /\ UNCHANGED <<callVars, lock, db, archived, disk, reconciled>>

StorageChanges ==
  /\ disk' = ~disk
  /\ UNCHANGED <<callVars, procVars, storeVars, reconciled>>

\* Faulty variant of Reconcile: an orphaned intent is written off as failed.
ReconcileAsError(i) ==
  /\ disk /\ ready
  /\ i \in 1..Len(db)
  /\ db[i].status = "pending"
  /\ pc[db[i].call] \in {"raised", "crashed"}
  /\ db' = [db EXCEPT ![i].status = "error"]
  /\ reconciled' = reconciled \cup {db[i].call}
  /\ UNCHANGED <<callVars, procVars, lock, ready, archived, disk>>

\* reconcile_pending, run as SECURITY.md tells the operator to: only for a
\* call that no process is executing any more.
Reconcile(i) ==
  /\ disk /\ ready
  /\ i \in 1..Len(db)
  /\ db[i].status = "pending"
  /\ pc[db[i].call] \in {"raised", "crashed"}
  /\ db' = [db EXCEPT ![i].status = "unknown"]
  /\ reconciled' = reconciled \cup {db[i].call}
  /\ UNCHANGED <<callVars, procVars, lock, ready, archived, disk>>

Enter(c) == Refuse(c) \/ Admit(c)

Step(c) ==
  \/ IntentRefused(c) \/ IntentRequested(c)
  \/ AcquireGuard(c) \/ StartRotation(c) \/ KeepDatabase(c)
  \/ Rename(c) \/ RenameFails(c) \/ InitDb(c)
  \/ InsertRow(c) \/ InsertFails(c)
  \/ Read(c) \/ NotSent(c) \/ Send(c) \/ Reply(c) \/ ReplyLost(c)
  \/ RecordUndo(c)
  \/ FinishWrite(c) \/ FinishFails(c) \/ LogVerdict(c)

Next ==
  \/ \E c \in Call : Enter(c) \/ Step(c) \/ ServerActs(c) \/ Interrupt(c)
  \/ \E p \in Proc : Crash(p) \/ Restart(p)
  \/ StorageChanges
  \/ \E i \in 1..Len(db) : Reconcile(i)

Spec == Init /\ [][Next]_vars

\* A call in progress in a live process goes on: the request has a 30 s
\* timeout and every SQLite connection a 5 s one.  Nothing obliges a client to
\* issue a call, the server to act, an operator to reconcile, or the storage
\* to recover.
FairSpec == Spec /\ \A c \in Call : WF_vars(Step(c))

-----------------------------------------------------------------------------
(* Properties *)

Trail == archived \cup {db[i] : i \in 1..Len(db)}

\* A write that left the process, and whose call did not end with its row
\* resolved, has its pending row in the live database, where health() counts
\* it, unless an operator reconciled it: no crash, rotation or storage failure
\* hides a change that may have landed (audit.py:230-277, 302-328).
UnresolvedVisible ==
  \A c \in Call : wire[c] # "none" /\ pc[c] # "done" /\ c \notin reconciled =>
    \E i \in 1..Len(db) : db[i] = [call |-> c, status |-> "pending"]

\* Rotation never moves an unresolved intent into an archive, where neither
\* finish_write nor reconcile_pending would find it and from where
\* _cleanup_archives may delete it (audit.py:309-316).
ArchivesResolved == \A r \in archived : r.status # "pending"

\* A step that resolves a row resolves the row of the call that takes the
\* step, or one an operator reconciles: although ids restart after a rotation
\* (AUTOINCREMENT in a new file), finish_write never closes a stranger's
\* intent (audit.py:238-249).
RowsResolvedByOwner ==
  [][\A i \in 1..Len(db) : i \in 1..Len(db') /\ db'[i] # db[i] =>
        /\ db[i].status = "pending" /\ db'[i].call = db[i].call
        /\ \/ pc[db[i].call] = "finalize" /\ pc'[db[i].call] = "done"
           \/ db[i].call \in reconciled' ]_vars

\* The premise of the promises about verdicts: every undetermined outcome is
\* told apart from a failure and from a success.
AllTold == Marks = Writes /\ Resends = {} /\ Interrupts = {}

\* The trail never states a wrong outcome for a write: "ok" only if the change
\* landed, "error" only if it did not and never will (outcome.py:3-18).
VerdictsTrue ==
  \A r \in Trail : r.call \in Writes =>
    /\ r.status = "ok" => wire[r.call] = "applied"
    /\ r.status = "error" => wire[r.call] \in {"none", "rejected"}

\* An undo token recorded as verified inverts a change that landed, and an
\* unverified one belongs to a write whose outcome is undetermined
\* (decorators.py:320-386).
TokensJustified ==
  \A c \in Call : /\ token[c] = "verified" => wire[c] = "applied"
                  /\ token[c] = "unverified" => verdict[c] = "unknown"

\* Once a process is write-blocked, none of its calls gets a new intent
\* (SECURITY.md:89-90 "further writes in that process are blocked").
NoIntentAfterBlock ==
  [][\A c \in Call : intent'[c] # intent[c] => ~blocked[Host[c]]]_vars

\* Every call that enters the wrapper comes out of it, or its process dies:
\* no lock holder, rotation or storage failure wedges the others.
EveryCallEnds == \A c \in Call : pc[c] # "idle" ~> pc[c] \in Ended

\* The statuses the trail shows for each write, and whether it landed: what
\* WriteAheadAudit speaks about.
Record == [c \in Writes |-> {r.status : r \in {x \in Trail : x.call = c}}]
Live   == [c \in Writes |-> wire[c] = "applied"]

Contract == INSTANCE WriteAheadAudit
              WITH Call <- Writes, record <- Record, live <- Live

\* The governance package implements the write-ahead contract.
ImplementsContract == Contract!Spec
=============================================================================
