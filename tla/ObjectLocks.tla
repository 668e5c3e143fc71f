---------------------------- MODULE ObjectLocks ----------------------------
(* Object lock on one key of a locked bucket.  Retention, where this tool    *)
(* compares days remaining before the server compares instants; the status   *)
(* it reports; and legal holds, read for one version and written for another.*)
EXTENDS Integers, Sequences

CONSTANTS Grain,         \* clock units in 0.01 day, the precision of _days_until
          Day,           \* clock units in a day
          LastClock,     \* the clock stops here
          LastVersion    \* no key has more versions

\* An odd grain has no ties, so rounding is the same in both directions.
ASSUME LockAssumption ==
  /\ Grain \in Nat /\ Grain % 2 = 1
  /\ Day \in Nat /\ Day > Grain
  /\ LastClock \in Nat
  /\ LastVersion \in Nat \ {0}

VARIABLES lockAim,     \* the tool this behaviour is about
          lockClock,   \* the time, which tool and server share
          retained,    \* the retention of the version, at the server
          holds,       \* the legal hold of each version, oldest first
          lockCall,    \* the retention or status call
          holdCall,    \* the legal-hold call
          holdUndo,    \* the undo descriptor of the last hold that was written
          former,      \* history: the holds when the last call began
          wanted,      \* history: the holds when the call that it undoes began
          strayed,     \* history: others wrote since then
          interfered   \* history: others wrote since the call began

holdVars == <<holdCall, holdUndo, former, wanted, strayed>>
lockVars == <<lockAim, lockClock, retained, holds, lockCall, holdVars, interfered>>

RetentionModes == {"GOVERNANCE", "COMPLIANCE"}
Unkept == [mode |-> "none", until |-> 0]
Retentions == {Unkept} \cup [mode : RetentionModes, until : 0..(LastClock + 2 * Day)]

NoLockCall == [phase |-> "idle", mode |-> "none", days |-> 0, ack |-> FALSE, pass |-> 1,
               until |-> 0, current |-> Unkept, remaining |-> 0, readAt |-> 0,
               hold |-> FALSE, why |-> "none"]
NoHoldCall == [phase |-> "idle", version |-> 0, on |-> FALSE, prior |-> FALSE,
               undoing |-> FALSE]
NoHoldUndo == [version |-> -1, on |-> FALSE]

LockInit ==
  /\ lockAim \in {"retention", "status", "hold"}
  /\ lockClock = 0
  /\ retained \in IF lockAim = "hold" THEN {Unkept}
              ELSE {k \in Retentions : k.until <= Day + Grain}
  /\ holds \in IF lockAim = "hold" THEN {<<FALSE>>, <<TRUE>>} ELSE {<<FALSE>>}
  /\ lockCall = NoLockCall
  /\ holdCall = NoHoldCall
  /\ holdUndo = NoHoldUndo
  /\ former = <<>> /\ wanted = <<>>
  /\ strayed = FALSE /\ interfered = FALSE

------------------------------------------------------------------------------
\* Whole days.
DaysUntilWhole(t) == ((t - lockClock) \div Day) * (Day \div Grain)

\* _days_until: rounded to the nearest grain, negative once elapsed.
DaysFrom(now, t) == (2 * (t - now) + Grain) \div (2 * Grain)
DaysUntil(t) == DaysFrom(lockClock, t)

\* set_object_retention.  The guard runs in the tool and again in the
\* operation: each pass takes its own instant, and the second one is sent.
AskRetention(mode, days, ack) ==
  /\ lockCall.phase = "idle"
  /\ lockCall' = [NoLockCall EXCEPT !.phase = "reading", !.mode = mode, !.days = days,
                    !.ack = ack, !.until = lockClock + days * Day]
  /\ interfered' = FALSE
  /\ UNCHANGED <<retained, holds, holdVars>>

ReadRetention ==
  /\ lockCall.phase = "reading"
  /\ lockCall' = [lockCall EXCEPT !.phase = "judging", !.current = retained, !.readAt = lockClock,
                    !.remaining = DaysUntil(retained.until)]
  /\ UNCHANGED <<retained, holds, holdVars, interfered>>

\* What the guard refuses, the refusal it names first.
Refusal ==
  IF lockCall.current.mode = "COMPLIANCE" /\ lockCall.mode = "GOVERNANCE" THEN "downgrade"
  ELSE IF /\ lockCall.current.mode # "none"
          /\ lockCall.remaining > 0
          /\ DaysUntil(lockCall.until) < lockCall.remaining
       THEN "shorter"
  ELSE IF lockCall.mode = "COMPLIANCE" /\ ~lockCall.ack THEN "unacknowledged"
  ELSE "none"

JudgeRetention ==
  /\ lockCall.phase = "judging"
  /\ lockCall' =
       IF Refusal # "none" THEN [lockCall EXCEPT !.phase = "refused", !.why = Refusal]
       ELSE IF lockCall.pass = 1
         THEN [lockCall EXCEPT !.phase = "reading", !.pass = 2,
                 !.until = lockClock + lockCall.days * Day]
         ELSE [lockCall EXCEPT !.phase = "sending"]
  /\ UNCHANGED <<retained, holds, holdVars, interfered>>

InForce == retained.mode # "none" /\ retained.until > lockClock

\* Without the bypass header, which the SDK never sends.
ServerRejects ==
  InForce /\ (lockCall.until < retained.until \/ (retained.mode = "COMPLIANCE" /\ lockCall.mode # retained.mode))

SendRetention ==
  /\ lockCall.phase = "sending"
  /\ \/ /\ ~ServerRejects
        /\ retained' = [mode |-> lockCall.mode, until |-> lockCall.until]
        /\ lockCall' = [lockCall EXCEPT !.phase = "answered"]
     \/ /\ ServerRejects
        /\ lockCall' = [lockCall EXCEPT !.phase = "refused", !.why = "server"]
        /\ retained' = retained
  /\ UNCHANGED <<holds, holdVars, interfered>>

\* object_lock_status: the retention, then the hold, then how long remains.
AskStatus ==
  /\ lockCall.phase = "idle"
  /\ lockCall' = [NoLockCall EXCEPT !.phase = "status retention", !.current = retained]
  /\ interfered' = FALSE
  /\ UNCHANGED <<retained, holds, holdVars>>

StatusHold ==
  /\ lockCall.phase = "status retention"
  /\ lockCall' = [lockCall EXCEPT !.phase = "status hold", !.hold = holds[1]]
  /\ UNCHANGED <<retained, holds, holdVars, interfered>>

StatusAnswer ==
  /\ lockCall.phase = "status hold"
  /\ lockCall' = [lockCall EXCEPT !.phase = "reported", !.readAt = lockClock,
                    !.remaining = DaysUntil(lockCall.current.until)]
  /\ UNCHANGED <<retained, holds, holdVars, interfered>>

\* Either blocker is enough to hide the other.
DestroyableUnlessBoth(c) ==
  ~(c.hold /\ c.current.mode # "none" /\ c.remaining > 0)

\* _protection: versionDestroyable.
Destroyable(c) == ~c.hold /\ ~(c.current.mode # "none" /\ c.remaining > 0)

LeaveLock ==
  /\ lockCall.phase \in {"answered", "refused", "reported"}
  /\ lockCall' = NoLockCall
  /\ interfered' = FALSE
  /\ UNCHANGED <<retained, holds, holdVars>>

------------------------------------------------------------------------------
\* set_legal_hold.  Version 0 stands for no version_id: the current one.
Version(v) == IF v = 0 THEN Len(holds) ELSE v

StartHold(version, on, undoing) ==
  holdCall' = [phase |-> "reading", version |-> version, on |-> on, prior |-> FALSE,
               undoing |-> undoing]

AskHold(version, on) ==
  /\ holdCall.phase = "idle"
  /\ StartHold(version, on, FALSE)
  /\ former' = holds
  /\ interfered' = FALSE
  /\ UNCHANGED <<retained, holds, lockCall, holdUndo, wanted, strayed>>

\* guard_set_legal_hold: the hold of the current version.
ReadHold ==
  /\ holdCall.phase = "reading"
  /\ holdCall' = [holdCall EXCEPT !.phase = "sending", !.prior = holds[Len(holds)]]
  /\ UNCHANGED <<retained, holds, lockCall, holdUndo, former, wanted, strayed, interfered>>

\* Forgets which version was written.
HoldUndoCurrent(c) == [version |-> 0, on |-> c.prior]

\* _legal_hold_undo.
HoldUndo(c) == [version |-> c.version, on |-> c.prior]

SendHold ==
  /\ holdCall.phase = "sending"
  /\ holds' = [holds EXCEPT ![Version(holdCall.version)] = holdCall.on]
  /\ holdUndo' = HoldUndo(holdCall)
  /\ holdCall' = [holdCall EXCEPT !.phase = "answered"]
  /\ UNCHANGED <<retained, lockCall, former, wanted, strayed, interfered>>

HoldFails ==
  /\ holdCall.phase \in {"reading", "sending"}
  /\ holdCall' = [holdCall EXCEPT !.phase = "refused"]
  /\ UNCHANGED <<retained, holds, lockCall, holdUndo, former, wanted, strayed, interfered>>

\* undo_apply, of the last call or of its undo.
ReplayHold ==
  /\ holdCall.phase = "answered"
  /\ StartHold(holdUndo.version, holdUndo.on, TRUE)
  /\ former' = holds
  /\ wanted' = former
  /\ strayed' = interfered
  /\ interfered' = FALSE
  /\ UNCHANGED <<retained, holds, lockCall, holdUndo>>

LeaveHold ==
  /\ holdCall.phase \in {"answered", "refused"}
  /\ holdCall' = NoHoldCall
  /\ holdUndo' = NoHoldUndo
  /\ former' = <<>> /\ wanted' = <<>>
  /\ strayed' = FALSE /\ interfered' = FALSE
  /\ UNCHANGED <<retained, holds, lockCall>>

\* Others put, extend or lift retention, place and lift holds, upload versions.
OthersLock ==
  /\ \/ lockAim # "hold" /\ retained' \in {Unkept} \cup [mode : RetentionModes, until : {lockClock + Day}]
        /\ holds' = holds
     \/ lockAim # "retention" /\ retained' = retained
        /\ \E v \in DOMAIN holds : holds' = [holds EXCEPT ![v] = ~@]
     \/ lockAim = "hold" /\ retained' = retained
        /\ Len(holds) < LastVersion
        /\ holds' = Append(holds, FALSE)
  /\ <<retained, holds>>' # <<retained, holds>>
  /\ interfered' = TRUE
  /\ strayed' = holdCall.undoing
  /\ UNCHANGED <<lockCall, holdCall, holdUndo, former, wanted>>

TimePasses ==
  /\ lockAim # "hold"
  /\ lockClock < LastClock
  /\ lockClock' = lockClock + 1
  /\ UNCHANGED <<retained, holds, lockCall, holdVars, interfered>>

ToolsNext ==
  \/ /\ lockAim = "retention"
     /\ \/ \E mode \in RetentionModes, days \in {1, 2}, ack \in BOOLEAN :
             AskRetention(mode, days, ack)
        \/ ReadRetention \/ JudgeRetention \/ SendRetention \/ LeaveLock
  \/ lockAim = "status" /\ (AskStatus \/ StatusHold \/ StatusAnswer \/ LeaveLock)
  \/ /\ lockAim = "hold"
     /\ \/ \E version \in 0..Len(holds), on \in BOOLEAN : AskHold(version, on)
        \/ ReadHold \/ SendHold \/ HoldFails \/ ReplayHold \/ LeaveHold
  \/ OthersLock

LockNext == (TimePasses \/ (ToolsNext /\ lockClock' = lockClock)) /\ lockAim' = lockAim

LockSpec == LockInit /\ [][LockNext]_lockVars

------------------------------------------------------------------------------
LockPhases == {"idle", "reading", "judging", "sending", "answered", "refused",
               "status retention", "status hold", "reported"}
Instants == 0..(LastClock + 2 * Day)
LockCalls == [phase : LockPhases, mode : {"none"} \cup RetentionModes, days : {0, 1, 2},
              ack : BOOLEAN, pass : {1, 2}, until : Instants, current : Retentions,
              remaining : Int, readAt : 0..LastClock, hold : BOOLEAN,
              why : {"none", "downgrade", "shorter", "unacknowledged", "server"}]
HoldCalls == [phase : {"idle", "reading", "sending", "answered", "refused"},
              version : 0..LastVersion, on : BOOLEAN, prior : BOOLEAN, undoing : BOOLEAN]

\* Types: one call at a time, of the tool the behaviour is about.
LockTypeOK ==
  /\ lockAim \in {"retention", "status", "hold"}
  /\ lockClock \in 0..LastClock
  /\ retained \in Retentions
  /\ holds \in Seq(BOOLEAN) /\ Len(holds) \in 1..LastVersion
  /\ lockCall \in LockCalls
  /\ lockAim = "hold" => lockCall = NoLockCall
  /\ lockAim # "hold" => holdCall = NoHoldCall
  /\ holdCall \in HoldCalls /\ holdCall.version <= Len(holds)
  /\ holdUndo \in [version : -1..LastVersion, on : BOOLEAN]
  /\ holdUndo # NoHoldUndo => holdCall.phase # "idle"
  /\ former \in Seq(BOOLEAN) /\ (holdCall.phase # "idle" => former # <<>>)
  /\ wanted \in Seq(BOOLEAN) /\ (holdCall.undoing => wanted # <<>>)
  /\ strayed \in BOOLEAN /\ interfered \in BOOLEAN

\* The guard stands for the server's rule: a call it lets through is rejected as
\* weaker, nobody else writing, only by less than the grain it rounds to; and one
\* it refuses as shorter is so, but for the time it took.
RetentionGuardTight ==
  lockCall.phase = "refused" /\ ~interfered =>
    LET shortfall == lockCall.current.until - lockCall.until IN
    /\ lockCall.why = "server" => shortfall < Grain
    /\ lockCall.why = "shorter" => shortfall > lockCall.readAt - lockClock

\* A version reported destroyable has no hold, and no retention left but what
\* rounds to nothing, unless others wrote while the status was read.
DestroyableTrue ==
  lockCall.phase = "reported" /\ ~interfered /\ Destroyable(lockCall)
    => ~holds[1] /\ ~(retained.mode # "none" /\ 2 * (retained.until - lockCall.readAt) > Grain)

HoldUndone == holdCall.phase = "answered" /\ holdCall.undoing /\ ~strayed

\* The undo of a legal hold, or of such an undo, touches the version the call
\* wrote and no other, and puts that one back when it is the current one, whose
\* hold the call read.
HoldRestoredOnCurrent ==
  HoldUndone =>
    /\ Len(holds) = Len(wanted)
    /\ \A v \in DOMAIN holds :
         v # Version(holdCall.version) \/ v = Len(holds) => holds[v] = wanted[v]

\* "Inverse of set_legal_hold: put the hold back the way it was."
\* (mcp_server/tools/objectlock.py:73)
HoldRestored == HoldUndone => holds = wanted
------------------------------------------------------------------------------
\* The inductive invariant.  What the guard or the status read is still there,
\* unless others wrote, and the days remaining are those of the instant they were
\* counted at ...
WhatWasReadHolds ==
  /\ lockCall.phase \in {"reading", "judging", "sending"} =>
       /\ lockAim = "retention"
       /\ lockCall.days \in {1, 2} /\ lockCall.mode \in RetentionModes
       /\ lockCall.why = "none"
       /\ lockCall.until <= lockClock + lockCall.days * Day
  /\ lockCall.phase \in {"status retention", "status hold", "reported"} => lockAim = "status"
  /\ lockCall.readAt <= lockClock
  /\ lockCall.phase \in {"judging", "sending", "status retention", "status hold", "reported"}
       /\ ~interfered => lockCall.current = retained
  /\ lockCall.phase \in {"status hold", "reported"} /\ ~interfered => lockCall.hold = holds[1]
  /\ lockCall.phase \in {"judging", "reported"} =>
       lockCall.remaining = DaysFrom(lockCall.readAt, lockCall.current.until)

\* ... a call on its second pass has been compared with what is there ...
FirstPassTold ==
  lockCall.phase \in {"reading", "judging", "sending"} /\ lockCall.pass = 2 /\ ~interfered =>
    retained.mode = "none" \/ retained.until - lockCall.until < Grain

\* ... one that goes to the server has passed the guard twice ...
GuardPassed ==
  lockCall.phase = "sending" =>
    /\ lockCall.pass = 2
    /\ ~(lockCall.current.mode = "COMPLIANCE" /\ lockCall.mode = "GOVERNANCE")

\* ... the holds are the former ones, but for the version a call wrote, whose undo
\* carries what the current version had ...
SameBut(before) ==
  /\ Len(holds) = Len(before)
  /\ \A v \in DOMAIN holds : v # Version(holdCall.version) => holds[v] = before[v]

HoldsFormer ==
  /\ holdCall.phase = "answered" => holdUndo.version = holdCall.version
  /\ ~interfered /\ holdCall.phase # "idle" => SameBut(former)
  /\ ~interfered =>
       /\ holdCall.phase \in {"reading", "sending"} => holds = former
       /\ holdCall.phase = "sending" => holdCall.prior = former[Len(former)]
       /\ holdCall.phase = "answered" => holdUndo.on = former[Len(former)]

\* ... and an undo carries it back, to holds that differ in that version only.
UndoCarries ==
  /\ holdCall.undoing => holdCall.phase # "idle"
  /\ holdCall.undoing /\ ~strayed =>
       /\ ~interfered
       /\ SameBut(wanted)
       /\ holdCall.phase \in {"reading", "sending"} => holdCall.on = wanted[Len(wanted)]

LockInv ==
  /\ LockTypeOK
  /\ WhatWasReadHolds /\ FirstPassTold /\ GuardPassed
  /\ HoldsFormer /\ UndoCarries
  /\ RetentionGuardTight /\ DestroyableTrue /\ HoldRestoredOnCurrent
=============================================================================
