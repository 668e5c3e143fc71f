------------------------------ MODULE CliExit ------------------------------
(* What a command of the CLI tells the script that ran it.  A command asks,  *)
(* calls its governed twin, or under @audited runs as a governed call        *)
(* itself, and ends with an exit status: 0, 1, or 2 for a write whose        *)
(* outcome is undetermined.  `doctor` counts what its probes find.           *)
EXTENDS Integers

CONSTANT MaxTargets     \* bounds the targets of the configuration

ASSUME DoctorAssumption == MaxTargets \in Nat \ {0}

VARIABLES cliCmd,       \* the command
          cliResult,    \* what its governed call returned or raised
          cliRow,       \* the status of that call for the audit log
          cliEffect,    \* history: what it did at the server
          checkup,      \* the doctor's round
          exitStatus    \* how the command ended

cliVars == <<cliCmd, cliResult, cliRow, cliEffect, checkup, exitStatus>>

\* No exit status yet.
Running == 3

\* Reads under @audited; `undo list`, which prints what its governed twin returns;
\* writes; retention-set, which reads back what it wrote; purge; `undo apply`.
Reads      == {"read", "list"}
AsksAlways == {"retention", "purge", "undo"}
CliKinds   == Reads \cup AsksAlways \cup {"write"}
NoCommand == [phase |-> "idle", kind |-> "none", dry |-> FALSE, asks |-> FALSE,
              prompts |-> 0, marks |-> FALSE]
NoResult  == [raised |-> FALSE, error |-> FALSE, unknown |-> FALSE, applied |-> TRUE,
              interrupted |-> FALSE]
NoEffect  == [landed |-> FALSE, lost |-> FALSE, partly |-> FALSE]
NoCheckup == [phase |-> "idle", skip |-> FALSE, all |-> 0, left |-> 0, problems |-> 0,
              sick |-> FALSE]

CliInit ==
  /\ cliCmd = NoCommand
  /\ cliResult = NoResult
  /\ cliRow = "none"
  /\ cliEffect = NoEffect
  /\ checkup = NoCheckup
  /\ exitStatus = Running

CliAt(phase, next) == cliCmd.phase = phase /\ cliCmd' = [cliCmd EXCEPT !.phase = next]

------------------------------------------------------------------------------
\* Before the governed call.  A removal, retention-set, purge and undo ask for
\* confirmation twice, other writes not; a call marks a lost response or not by
\* the kind of its exception.
RunCommand(kind, dry, asks, marks) ==
  /\ cliCmd.phase = "idle" /\ checkup.phase = "idle"
  /\ kind \in Reads => ~dry /\ ~asks
  /\ kind \in AsksAlways => asks
  /\ cliCmd' = [NoCommand EXCEPT !.phase = IF asks /\ ~dry THEN "asking" ELSE "ready",
                  !.kind = kind, !.dry = dry, !.asks = asks, !.marks = marks]
  /\ UNCHANGED <<cliResult, cliRow, cliEffect, checkup, exitStatus>>

\* An argument or a file is refused before anything else; a read is already a
\* governed call by then.
RejectArguments ==
  /\ cliCmd.phase \in {"asking", "ready"} /\ cliCmd.prompts = 0 /\ cliCmd.kind # "list"
  /\ cliCmd' = [cliCmd EXCEPT !.phase = "ended"]
  /\ cliRow' = IF cliCmd.kind = "read" THEN "error" ELSE "none"
  /\ exitStatus' = 1
  /\ UNCHANGED <<cliResult, cliEffect, checkup>>

\* double_confirm: two prompts, and an abort at either.
ConfirmOrAbort(yes) ==
  /\ cliCmd.phase = "asking"
  /\ cliCmd' = [cliCmd EXCEPT !.prompts = @ + 1,
                  !.phase = IF ~yes THEN "ended" ELSE IF cliCmd.prompts = 1 THEN "ready"
                            ELSE "asking"]
  /\ exitStatus' = IF yes THEN exitStatus ELSE 1
  /\ UNCHANGED <<cliResult, cliRow, cliEffect, checkup>>

------------------------------------------------------------------------------
\* The governed call.

Returns(result, row, effect) ==
  /\ CliAt("ready", "returned")
  /\ cliResult' = result
  /\ cliRow' = row
  /\ cliEffect' = effect
  /\ UNCHANGED <<checkup, exitStatus>>

\* The budget or the audit log refuses it: it raises before anything is sent.
CallBlocked ==
  \E row \in {"none", "error", "budget_exceeded"} :
    Returns([NoResult EXCEPT !.raised = TRUE], row, NoEffect)

\* A guard, a read before the write, a token that cannot be applied or the
\* server's answer refuses it: a read raises, a tool returns the error.
CallRefused ==
  Returns([NoResult EXCEPT !.raised = cliCmd.kind = "read", !.error = cliCmd.kind # "read"],
          "error", NoEffect)

\* The change landed and what follows it raises: the read-back of a retention, or,
\* in an undo, the end of the inverse's call (its row cannot be resolved) or the
\* mark of the token.  tool_errors turns that into an error like any other.
CallFailsLate(lost) ==
  /\ cliCmd.kind \in {"retention", "undo"} /\ ~cliCmd.dry
  /\ lost => cliCmd.kind = "undo"
  /\ Returns([NoResult EXCEPT !.error = TRUE], "error",
             [NoEffect EXCEPT !.landed = TRUE, !.lost = lost])

\* Ctrl-C in the body of the tool: what ran by then did its work, the row gets the
\* status the call started with, and the command ends with a failure.
CallInterrupted ==
  \E effect \in {NoEffect, [NoEffect EXCEPT !.landed = TRUE]} :
    /\ effect # NoEffect => ~cliCmd.dry /\ cliCmd.kind \notin Reads
    /\ Returns([NoResult EXCEPT !.raised = TRUE, !.interrupted = TRUE], "ok", effect)

\* A preview that passes its guards, and a read that is answered.
CallHarmless ==
  /\ cliCmd.dry \/ cliCmd.kind \in Reads
  /\ Returns(NoResult, "ok", NoEffect)

CallAnswered ==
  /\ ~cliCmd.dry /\ cliCmd.kind \notin Reads
  /\ \/ Returns(NoResult, "ok", [NoEffect EXCEPT !.landed = TRUE])
     \* Uploads of a purge fail: the result lists them, and has no error.
     \/ cliCmd.kind = "purge" /\ Returns(NoResult, "ok", [NoEffect EXCEPT !.partly = TRUE])

\* The inverse an undo dispatched is refused, or its response is lost: that
\* result is nested, and the undo itself returns.
InverseFails(landed, lost) ==
  /\ cliCmd.kind = "undo" /\ ~cliCmd.dry
  /\ landed => lost
  /\ Returns([NoResult EXCEPT !.applied = FALSE], "ok",
             [NoEffect EXCEPT !.landed = landed, !.lost = lost])

\* The response is lost, the change may have landed.
ResponseLost(landed) ==
  /\ cliCmd.kind \in {"write", "retention"} /\ ~cliCmd.dry
  /\ Returns([NoResult EXCEPT !.error = TRUE, !.unknown = cliCmd.marks],
             IF cliCmd.marks THEN "unknown" ELSE "error",
             [NoEffect EXCEPT !.landed = landed, !.lost = TRUE])

\* The row cannot be resolved when the call ends: the call raises, its intent
\* stays pending.
RowStuck(landed) ==
  /\ cliCmd.kind \notin Reads /\ ~cliCmd.dry
  /\ Returns([NoResult EXCEPT !.raised = TRUE], "pending", [NoEffect EXCEPT !.landed = landed])

------------------------------------------------------------------------------
\* The end of a command.

\* Judges the error first.
CheckedErrorFirst == IF cliResult.error THEN 1 ELSE IF cliResult.unknown THEN 2 ELSE 0

\* checked: a lost response carries both keys, and outcomeUnknown goes first.
Checked == IF cliResult.unknown THEN 2 ELSE IF cliResult.error THEN 1 ELSE 0

\* dry_run_preview looks at the error only, `undo list` does not go through
\* checked, a read ends as its body did.  What is raised ends as one line of
\* cli_errors or as a traceback: 1 both ways, which here stands for 130, too, the
\* status that Typer gives to a Ctrl-C.
ExitDue ==
  IF cliResult.raised THEN 1
  ELSE IF cliCmd.kind = "list" THEN 0
  ELSE IF cliCmd.dry THEN (IF cliResult.error THEN 1 ELSE 0)
  ELSE Checked

EndCommand ==
  /\ CliAt("returned", "ended")
  /\ exitStatus' = ExitDue
  /\ UNCHANGED <<cliResult, cliRow, cliEffect, checkup>>

LeaveCommand ==
  /\ cliCmd.phase = "ended" \/ checkup.phase = "ended"
  /\ cliCmd' = NoCommand /\ cliResult' = NoResult /\ cliRow' = "none"
  /\ cliEffect' = NoEffect /\ checkup' = NoCheckup /\ exitStatus' = Running

------------------------------------------------------------------------------
\* run_doctor.

\* The configuration is missing, cannot be loaded or names no target.
DoctorStops ==
  /\ cliCmd.phase = "idle" /\ checkup.phase = "idle"
  /\ checkup' = [NoCheckup EXCEPT !.phase = "ended", !.sick = TRUE]
  /\ exitStatus' = 1
  /\ UNCHANGED <<cliCmd, cliResult, cliRow, cliEffect>>

DoctorStarts(targets, skip, stored) ==
  /\ cliCmd.phase = "idle" /\ checkup.phase = "idle"
  /\ checkup' = [phase |-> "secret", skip |-> skip, all |-> targets, left |-> targets,
                 problems |-> IF stored THEN 0 ELSE 1, sick |-> ~stored]
  /\ UNCHANGED <<cliCmd, cliResult, cliRow, cliEffect, exitStatus>>

\* The targets are gone through twice, once for the secrets and, unless that is
\* skipped, once for the probes.
AfterTarget(first) ==
  IF checkup.left > 1 THEN [phase |-> first, left |-> checkup.left - 1]
  ELSE IF first = "secret" /\ ~checkup.skip
       THEN [phase |-> "connect", left |-> checkup.all]
       ELSE [phase |-> "done", left |-> 0]

AfterProbe(probe, found) ==
  IF probe = "secret" THEN AfterTarget("secret")
  ELSE IF probe = "metrics" \/ found = "unreachable" THEN AfterTarget("connect")
  ELSE [phase |-> CASE probe = "connect" -> "health"
                    [] probe = "health"  -> "s3"
                    [] probe = "s3"      -> "metrics",
        left |-> checkup.left]

\* One probe of one target: well; failed; or, for the connection and the health
\* endpoints, unreachable, which skips the rest of that target.
DoctorProbes(found) ==
  LET next == AfterProbe(checkup.phase, found) IN
  /\ checkup.phase \in {"secret", "connect", "health", "s3", "metrics"}
  /\ found = "unreachable" => checkup.phase \in {"connect", "health"}
  /\ found = "failed" => checkup.phase # "connect"
  /\ checkup' = [checkup EXCEPT !.phase = next.phase, !.left = next.left,
                   !.problems = IF found = "well" THEN @ ELSE @ + 1,
                   !.sick = @ \/ found # "well"]
  /\ UNCHANGED <<cliCmd, cliResult, cliRow, cliEffect, exitStatus>>

\* A master password that is missing or wrong is no OSError: the round ends in
\* a traceback.
DoctorCrashes ==
  /\ checkup.phase = "secret"
  /\ checkup' = [checkup EXCEPT !.phase = "ended", !.sick = TRUE]
  /\ exitStatus' = 1
  /\ UNCHANGED <<cliCmd, cliResult, cliRow, cliEffect>>

DoctorEnds ==
  /\ checkup.phase = "done"
  /\ checkup' = [checkup EXCEPT !.phase = "ended"]
  /\ exitStatus' = IF checkup.problems > 0 THEN 1 ELSE 0
  /\ UNCHANGED <<cliCmd, cliResult, cliRow, cliEffect>>

CliNext ==
  \/ \E kind \in CliKinds, dry, asks, marks \in BOOLEAN : RunCommand(kind, dry, asks, marks)
  \/ RejectArguments
  \/ \E yes \in BOOLEAN : ConfirmOrAbort(yes)
  \/ CallBlocked
  \/ CallRefused
  \/ \E lost \in BOOLEAN : CallFailsLate(lost)
  \/ CallHarmless
  \/ CallAnswered
  \/ \E landed, lost \in BOOLEAN : InverseFails(landed, lost)
  \/ CallInterrupted
  \/ \E landed \in BOOLEAN : ResponseLost(landed) \/ RowStuck(landed)
  \/ EndCommand
  \/ LeaveCommand
  \/ DoctorStops
  \/ \E targets \in 1..MaxTargets, skip, stored \in BOOLEAN : DoctorStarts(targets, skip, stored)
  \/ \E found \in {"well", "failed", "unreachable"} : DoctorProbes(found)
  \/ DoctorCrashes
  \/ DoctorEnds

CliSpec == CliInit /\ [][CliNext]_cliVars

------------------------------------------------------------------------------
ProbePhases == {"secret", "connect", "health", "s3", "metrics"}
CliCommands == [phase : {"idle", "asking", "ready", "returned", "ended"},
             kind : {"none"} \cup CliKinds, dry : BOOLEAN, asks : BOOLEAN,
             prompts : 0..2, marks : BOOLEAN]
CliResults == [raised : BOOLEAN, error : BOOLEAN, unknown : BOOLEAN, applied : BOOLEAN,
               interrupted : BOOLEAN]
CliRows == {"none", "ok", "error", "budget_exceeded", "unknown", "pending"}
CliEffects == [landed : BOOLEAN, lost : BOOLEAN, partly : BOOLEAN]
Checkups == [phase : {"idle", "done", "ended"} \cup ProbePhases, skip : BOOLEAN,
             all : 0..MaxTargets, left : 0..MaxTargets, problems : Nat, sick : BOOLEAN]

\* Types: one command or one round at a time, and a command has an exit status
\* exactly when it has ended.
CliTypeOK ==
  /\ cliCmd \in CliCommands /\ cliResult \in CliResults /\ cliEffect \in CliEffects
  /\ cliRow \in CliRows
  /\ checkup \in Checkups
  /\ cliCmd.phase = "idle" \/ checkup.phase = "idle"
  /\ exitStatus \in 0..Running
  /\ exitStatus # Running <=> "ended" \in {cliCmd.phase, checkup.phase}
  /\ checkup.problems <= 1 + 4 * MaxTargets + MaxTargets

\* What an exit status tells of a command that ended.
Trusted(status) ==
  /\ status = 0 /\ cliCmd.kind # "list" => cliRow = "ok"
  /\ status = 0 /\ ~cliCmd.dry /\ cliCmd.kind \notin Reads /\ cliResult.applied
     => (cliEffect.landed \/ cliEffect.partly) /\ ~cliEffect.lost
  /\ status = 2 <=> cliRow = "unknown"
  /\ status = 1 /\ cliEffect.landed
     => \/ cliRow = "pending"
        \/ cliResult.interrupted
        \/ cliEffect.lost /\ ~cliCmd.marks
        \/ cliRow = "error" /\ cliCmd.kind \in {"retention", "undo"}
  /\ cliEffect # NoEffect => ~cliCmd.dry /\ (cliCmd.asks => cliCmd.prompts = 2)

\* What a script can make of the exit status of a command.  0: the row says ok
\* (not for `undo list`, which prints an error and ends with 0), and a real write
\* was answered for, except for uploads a purge left and an undo that reports its
\* inverse not applied.  2: the row says unknown.  1: nothing landed, unless the
\* row is still pending, the user interrupted the call, the lost response came
\* unmarked, or the error is one of the two tools that do more after the change
\* (lock_writes.py:338, tools/undo.py:181-185).  A preview, or a prompt not
\* confirmed twice, changes nothing; and the doctor ends with 0 only if no probe it
\* made went wrong.
ExitStatusTrue ==
  /\ cliCmd.phase = "ended" => Trusted(exitStatus)
  /\ checkup.phase = "ended" => (exitStatus = 0 <=> ~checkup.sick)
------------------------------------------------------------------------------
\* The inductive invariant.  Before the governed call nothing was done, and what
\* asks was confirmed twice ...
NothingYet ==
  /\ cliCmd.phase \in {"idle", "asking", "ready"} =>
       cliEffect = NoEffect /\ cliResult = NoResult /\ cliRow = "none"
  /\ cliCmd.phase = "asking" => cliCmd.prompts < 2 /\ ~cliCmd.dry
  /\ cliCmd.phase \in {"ready", "returned"} /\ cliCmd.asks /\ ~cliCmd.dry => cliCmd.prompts = 2
  /\ cliCmd.kind \in AsksAlways => cliCmd.asks

\* ... what it returned is worth the status it will end with ...
ReturnedTrue == cliCmd.phase = "returned" => Trusted(ExitDue)

\* ... and the doctor counts what it finds, at most once per probe it made.
ProbesMade ==
  CASE checkup.phase = "secret"  -> checkup.all - checkup.left
    [] checkup.phase = "connect" -> checkup.all + 4 * (checkup.all - checkup.left)
    [] checkup.phase = "health"  -> checkup.all + 4 * (checkup.all - checkup.left) + 1
    [] checkup.phase = "s3"      -> checkup.all + 4 * (checkup.all - checkup.left) + 2
    [] checkup.phase = "metrics" -> checkup.all + 4 * (checkup.all - checkup.left) + 3
    [] OTHER                     -> 5 * checkup.all

ProblemsCounted ==
  /\ checkup.phase \in ProbePhases => checkup.left \in 1..checkup.all
  /\ checkup.problems <= 1 + ProbesMade
  /\ checkup.phase \in ProbePhases \cup {"done"} => (checkup.problems = 0 <=> ~checkup.sick)

CliInv == CliTypeOK /\ NothingYet /\ ReturnedTrue /\ ProblemsCounted /\ ExitStatusTrue
=============================================================================
