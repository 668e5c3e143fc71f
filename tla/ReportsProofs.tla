--------------------------- MODULE ReportsProofs ---------------------------
(***************************************************************************)
(* Theorems of the reports: the exit status of the CLI, the verdicts on    *)
(* the gauges and the findings of the scans, for any deployment.           *)
(***************************************************************************)
EXTENDS Gauges, CliExit, Scans, FiniteSetTheorems, TLAPS

------------------------------------------------------------------------------
\* CliExit.

\* The returned record of a command keeps what was asked of it.
LEMMA ReturnFields ==
  ASSUME cliCmd \in CliCommands,
         NEW result, NEW row, NEW effect, Returns(result, row, effect)
  PROVE  /\ cliCmd' \in CliCommands
         /\ cliCmd.phase = "ready" /\ cliCmd'.phase = "returned"
         /\ cliCmd'.kind = cliCmd.kind /\ cliCmd'.dry = cliCmd.dry
         /\ cliCmd'.asks = cliCmd.asks /\ cliCmd'.marks = cliCmd.marks
         /\ cliCmd'.prompts = cliCmd.prompts
         /\ cliResult' = result /\ cliRow' = row /\ cliEffect' = effect
         /\ UNCHANGED <<checkup, exitStatus>>
BY DEF Returns, CliAt, CliCommands

\* A governed call that returns: what remains to show is that the status it is
\* going to end with can be trusted.
LEMMA ReturnKeeps ==
  ASSUME CliInv, NEW result \in CliResults,
         NEW row \in CliRows,
         NEW effect \in CliEffects, Returns(result, row, effect), Trusted(ExitDue)'
  PROVE  CliInv'
<1>1. /\ cliCmd' \in CliCommands
      /\ cliCmd.phase = "ready" /\ cliCmd'.phase = "returned"
      /\ cliCmd'.kind = cliCmd.kind /\ cliCmd'.dry = cliCmd.dry
      /\ cliCmd'.asks = cliCmd.asks /\ cliCmd'.prompts = cliCmd.prompts
      /\ cliResult' = result /\ cliRow' = row /\ cliEffect' = effect
      /\ UNCHANGED <<checkup, exitStatus>>
  BY ReturnFields DEF CliInv, CliTypeOK
<1>2. checkup.phase = "idle"
  BY <1>1 DEF CliInv, CliTypeOK
<1>3. CliTypeOK'
  BY <1>1, <1>2 DEF CliInv, CliTypeOK
<1>4. NothingYet'
  BY <1>1 DEF CliInv, NothingYet
<1>5. ReturnedTrue'
  BY DEF ReturnedTrue
<1>6. ProblemsCounted'
  BY <1>1 DEF CliInv, ProblemsCounted, ProbesMade
<1>7. ExitStatusTrue'
  BY <1>1, <1>2 DEF ExitStatusTrue
<1> QED
  BY <1>3, <1>4, <1>5, <1>6, <1>7 DEF CliInv

\* Each way the governed call can go leads to a status that can be trusted.
LEMMA CallKeeps ==
  ASSUME CliInv,
         \/ CallBlocked \/ CallRefused \/ CallHarmless \/ CallAnswered \/ CallInterrupted
         \/ \E lost \in BOOLEAN : CallFailsLate(lost)
         \/ \E landed, lost \in BOOLEAN : InverseFails(landed, lost)
         \/ \E landed \in BOOLEAN : ResponseLost(landed) \/ RowStuck(landed)
  PROVE  CliInv'
<1>1. /\ cliCmd \in CliCommands
      /\ cliCmd.phase = "ready" => (cliCmd.asks /\ ~cliCmd.dry => cliCmd.prompts = 2)
      /\ cliCmd.kind \in AsksAlways => cliCmd.asks
      /\ Reads = {"read", "list"} /\ AsksAlways = {"retention", "purge", "undo"}
      /\ {"none", "ok", "error", "budget_exceeded", "unknown", "pending"} = CliRows
  BY DEF CliInv, CliTypeOK, NothingYet, Reads, AsksAlways, CliRows
<1>2. /\ NoResult \in CliResults /\ NoEffect \in CliEffects
      /\ ~NoEffect.landed /\ ~NoEffect.lost /\ ~NoEffect.partly
  BY DEF NoResult, NoEffect, CliResults, CliEffects
<1>3. CASE CallBlocked
  <2> DEFINE result == [NoResult EXCEPT !.raised = TRUE]
  <2>1. result \in CliResults /\ result.raised
    BY DEF NoResult, CliResults
  <2>2. PICK row \in {"none", "error", "budget_exceeded"} : Returns(result, row, NoEffect)
    BY <1>3 DEF CallBlocked
  <2>3. Trusted(ExitDue)'
    <3> HIDE DEF result
    <3> QED
      BY <1>1, <1>2, <2>1, <2>2, ReturnFields DEF Trusted, ExitDue
  <2> QED
    BY <1>1, <1>2, <2>1, <2>2, <2>3, ReturnKeeps
<1>4. CASE CallRefused
  <2> DEFINE result == [NoResult EXCEPT !.raised = cliCmd.kind = "read",
                          !.error = cliCmd.kind # "read"]
  <2>1. /\ result \in CliResults /\ ~result.unknown
        /\ result.raised <=> cliCmd.kind = "read"
        /\ result.error <=> cliCmd.kind # "read"
    BY DEF NoResult, CliResults
  <2>2. Returns(result, "error", NoEffect)
    BY <1>4 DEF CallRefused
  <2>3. Trusted(ExitDue)'
    <3> HIDE DEF result
    <3> QED
      BY <1>1, <1>2, <2>1, <2>2, ReturnFields DEF Trusted, ExitDue, Checked
  <2> QED
    BY <1>1, <1>2, <2>1, <2>2, <2>3, ReturnKeeps
<1>5. CASE CallHarmless
  <2>1. /\ Returns(NoResult, "ok", NoEffect)
        /\ cliCmd.dry \/ cliCmd.kind \in Reads
    BY <1>5 DEF CallHarmless
  <2>2. Trusted(ExitDue)'
    BY <1>1, <2>1, ReturnFields DEF Trusted, ExitDue, Checked, NoEffect, NoResult
  <2> QED
    BY <1>1, <1>2, <2>1, <2>2, ReturnKeeps
<1>6. CASE CallAnswered
  <2> DEFINE whole == [NoEffect EXCEPT !.landed = TRUE]
             part  == [NoEffect EXCEPT !.partly = TRUE]
  <2>1. /\ whole \in CliEffects /\ whole.landed /\ ~whole.lost
        /\ part \in CliEffects /\ part.partly /\ ~part.lost /\ ~part.landed
    BY DEF NoEffect, CliEffects
  <2>2. PICK effect \in {whole, part} : Returns(NoResult, "ok", effect)
    BY <1>6 DEF CallAnswered
  <2>3. ~cliCmd.dry
    BY <1>6 DEF CallAnswered
  <2>4. Trusted(ExitDue)'
    <3> HIDE DEF whole, part
    <3>1. /\ effect \in CliEffects /\ ~effect.lost
          /\ effect.landed \/ effect.partly
      BY <2>1
    <3> QED
      BY <1>1, <2>2, <2>3, <3>1, ReturnFields DEF Trusted, ExitDue, Checked, NoResult
  <2> QED
    BY <1>1, <1>2, <2>1, <2>2, <2>4, ReturnKeeps
<1>7. ASSUME NEW landed \in BOOLEAN, NEW lost \in BOOLEAN, InverseFails(landed, lost)
      PROVE  CliInv'
  <2> DEFINE result == [NoResult EXCEPT !.applied = FALSE]
             effect == [NoEffect EXCEPT !.landed = landed, !.lost = lost]
  <2>1. /\ result \in CliResults /\ ~result.applied /\ ~result.raised
        /\ ~result.error /\ ~result.unknown
        /\ effect \in CliEffects
    BY DEF NoEffect, NoResult, CliResults, CliEffects
  <2>2. Returns(result, "ok", effect) /\ ~cliCmd.dry /\ cliCmd.kind = "undo"
    BY <1>7 DEF InverseFails
  <2>3. Trusted(ExitDue)'
    <3> HIDE DEF result, effect
    <3> QED
      BY <1>1, <2>1, <2>2, ReturnFields DEF Trusted, ExitDue, Checked
  <2> QED
    BY <1>1, <2>1, <2>2, <2>3, ReturnKeeps
<1>8. ASSUME NEW landed \in BOOLEAN, ResponseLost(landed)
      PROVE  CliInv'
  <2> DEFINE result == [NoResult EXCEPT !.error = TRUE, !.unknown = cliCmd.marks]
             effect == [NoEffect EXCEPT !.landed = landed, !.lost = TRUE]
             row    == IF cliCmd.marks THEN "unknown" ELSE "error"
  <2>1. /\ result \in CliResults /\ ~result.raised /\ result.error
        /\ result.unknown = cliCmd.marks
        /\ effect \in CliEffects /\ effect.lost
    BY <1>1 DEF NoEffect, NoResult, CliResults, CliEffects, CliCommands
  <2>2. Returns(result, row, effect) /\ ~cliCmd.dry /\ cliCmd.kind \in {"write", "retention"}
    BY <1>8 DEF ResponseLost
  <2>3. Trusted(ExitDue)'
    <3> HIDE DEF result, effect
    <3> QED
      BY <1>1, <2>1, <2>2, ReturnFields DEF Trusted, ExitDue, Checked
  <2> QED
    BY <1>1, <2>1, <2>2, <2>3, ReturnKeeps
<1>9. ASSUME NEW landed \in BOOLEAN, RowStuck(landed)
      PROVE  CliInv'
  <2> DEFINE result == [NoResult EXCEPT !.raised = TRUE]
             effect == [NoEffect EXCEPT !.landed = landed]
  <2>1. result \in CliResults /\ result.raised /\ effect \in CliEffects
    BY DEF NoEffect, NoResult, CliResults, CliEffects
  <2>2. Returns(result, "pending", effect) /\ ~cliCmd.dry
    BY <1>9 DEF RowStuck
  <2>3. Trusted(ExitDue)'
    <3> HIDE DEF result, effect
    <3> QED
      BY <1>1, <2>1, <2>2, ReturnFields DEF Trusted, ExitDue
  <2> QED
    BY <1>1, <2>1, <2>2, <2>3, ReturnKeeps
<1>10. ASSUME NEW lost \in BOOLEAN, CallFailsLate(lost)
       PROVE  CliInv'
  <2> DEFINE result == [NoResult EXCEPT !.error = TRUE]
             effect == [NoEffect EXCEPT !.landed = TRUE, !.lost = lost]
  <2>1. /\ result \in CliResults /\ result.error /\ ~result.raised /\ ~result.unknown
        /\ effect \in CliEffects
    BY DEF NoEffect, NoResult, CliResults, CliEffects
  <2>2. /\ Returns(result, "error", effect) /\ ~cliCmd.dry
        /\ cliCmd.kind \in {"retention", "undo"}
    BY <1>10 DEF CallFailsLate
  <2>3. Trusted(ExitDue)'
    <3> HIDE DEF result, effect
    <3> QED
      BY <1>1, <2>1, <2>2, ReturnFields DEF Trusted, ExitDue, Checked
  <2> QED
    BY <1>1, <2>1, <2>2, <2>3, ReturnKeeps
<1>11. CASE CallInterrupted
  <2> DEFINE result == [NoResult EXCEPT !.raised = TRUE, !.interrupted = TRUE]
             change == [NoEffect EXCEPT !.landed = TRUE]
  <2>1. /\ result \in CliResults /\ result.raised /\ result.interrupted
        /\ change \in CliEffects
    BY DEF NoEffect, NoResult, CliResults, CliEffects
  <2>2. PICK effect \in {NoEffect, change} :
          /\ effect # NoEffect => ~cliCmd.dry /\ cliCmd.kind \notin Reads
          /\ Returns(result, "ok", effect)
    BY <1>11 DEF CallInterrupted
  <2>3. Trusted(ExitDue)'
    <3> HIDE DEF result, change
    <3> QED
      BY <1>1, <1>2, <2>1, <2>2, ReturnFields DEF Trusted, ExitDue
  <2> QED
    BY <1>1, <1>2, <2>1, <2>2, <2>3, ReturnKeeps
<1> QED
  BY <1>3, <1>4, <1>5, <1>6, <1>7, <1>8, <1>9, <1>10, <1>11

\* The steps of a command outside the governed call.
LEMMA CommandKeeps ==
  ASSUME CliInv,
         \/ \E kind \in CliKinds, dry, asks, marks \in BOOLEAN : RunCommand(kind, dry, asks, marks)
         \/ RejectArguments \/ EndCommand
         \/ \E yes \in BOOLEAN : ConfirmOrAbort(yes)
  PROVE  CliInv'
<1> USE DEF CliInv
<1>1. ASSUME NEW kind \in CliKinds, NEW dry \in BOOLEAN, NEW asks \in BOOLEAN,
             NEW marks \in BOOLEAN, RunCommand(kind, dry, asks, marks)
      PROVE  CliInv'
  <2> DEFINE first == IF asks /\ ~dry THEN "asking" ELSE "ready"
  <2>1. /\ cliCmd'.phase \in {"asking", "ready"} /\ cliCmd'.kind = kind /\ cliCmd'.dry = dry
        /\ cliCmd'.asks = asks /\ cliCmd'.prompts = 0 /\ cliCmd' \in CliCommands
        /\ cliCmd'.phase = "asking" <=> asks /\ ~dry
    <3>1. cliCmd' = [NoCommand EXCEPT !.phase = first, !.kind = kind, !.dry = dry,
                                      !.asks = asks, !.marks = marks]
      BY ONLY <1>1 DEF RunCommand
    <3>2. first \in {"asking", "ready"} /\ (first = "asking" <=> asks /\ ~dry)
      OBVIOUS
    <3> HIDE DEF first
    <3>3. cliCmd' = [phase |-> first, kind |-> kind, dry |-> dry, asks |-> asks,
                     prompts |-> 0, marks |-> marks]
      BY ONLY <3>1 DEF NoCommand
    <3> QED
      BY ONLY <3>2, <3>3, kind \in CliKinds, dry \in BOOLEAN, asks \in BOOLEAN,
         marks \in BOOLEAN DEF CliCommands
  <2>2. /\ UNCHANGED <<cliResult, cliRow, cliEffect, checkup, exitStatus>>
        /\ cliCmd.phase = "idle" /\ checkup.phase = "idle"
        /\ kind \in AsksAlways => asks
    BY <1>1 DEF RunCommand
  <2>3. CliTypeOK'
    BY <2>1, <2>2 DEF CliTypeOK
  <2>4. NothingYet'
    BY <2>1, <2>2 DEF NothingYet
  <2>5. ReturnedTrue' /\ ExitStatusTrue'
    BY <2>1, <2>2 DEF ReturnedTrue, ExitStatusTrue
  <2>6. ProblemsCounted'
    BY <2>2 DEF ProblemsCounted, ProbesMade
  <2> QED
    BY <2>3, <2>4, <2>5, <2>6
<1>2. CASE RejectArguments
  <2>1. /\ cliCmd' \in CliCommands /\ cliCmd'.phase = "ended"
        /\ cliCmd'.kind = cliCmd.kind /\ cliCmd'.dry = cliCmd.dry
        /\ cliCmd'.asks = cliCmd.asks /\ cliCmd'.prompts = cliCmd.prompts
    BY <1>2 DEF RejectArguments, CliTypeOK, CliCommands
  <2>2. /\ UNCHANGED <<cliResult, cliEffect, checkup>> /\ exitStatus' = 1
        /\ cliRow' \in {"none", "error"} /\ cliRow' \in CliRows
        /\ cliCmd.phase \in {"asking", "ready"} /\ checkup.phase = "idle"
        /\ cliEffect = NoEffect
    BY <1>2 DEF RejectArguments, CliTypeOK, CliRows, NothingYet
  <2>3. CliTypeOK'
    BY <2>1, <2>2 DEF CliTypeOK, Running
  <2>4. NothingYet'
    BY <2>1, <2>2 DEF NothingYet
  <2>5. ReturnedTrue' /\ ExitStatusTrue'
    BY <2>1, <2>2 DEF ReturnedTrue, ExitStatusTrue, Trusted, NoEffect
  <2>6. ProblemsCounted'
    BY <2>2 DEF ProblemsCounted, ProbesMade
  <2> QED
    BY <2>3, <2>4, <2>5, <2>6
<1>3. ASSUME NEW yes \in BOOLEAN, ConfirmOrAbort(yes)
      PROVE  CliInv'
  <2>1. /\ cliCmd.phase = "asking" /\ cliCmd.prompts \in 0..1 /\ checkup.phase = "idle"
        /\ ~cliCmd.dry /\ cliEffect = NoEffect /\ cliRow = "none" /\ cliResult = NoResult
        /\ exitStatus = Running
    <3>1. cliCmd.phase = "asking"
      BY ONLY <1>3, Zenon DEF ConfirmOrAbort
    <3> QED
      BY <3>1 DEF CliTypeOK, NothingYet, CliCommands
  <2>2. /\ cliCmd' \in CliCommands /\ cliCmd'.prompts = cliCmd.prompts + 1
        /\ cliCmd'.kind = cliCmd.kind /\ cliCmd'.dry = cliCmd.dry
        /\ cliCmd'.asks = cliCmd.asks
        /\ yes => cliCmd'.phase = IF cliCmd.prompts = 1 THEN "ready" ELSE "asking"
        /\ ~yes => cliCmd'.phase = "ended"
    <3> DEFINE next == IF ~yes THEN "ended" ELSE IF cliCmd.prompts = 1 THEN "ready" ELSE "asking"
    <3>1. cliCmd' = [cliCmd EXCEPT !.prompts = cliCmd.prompts + 1, !.phase = next]
      BY ONLY <1>3, <2>1 DEF ConfirmOrAbort
    <3>2. /\ next \in {"asking", "ready", "ended"}
          /\ yes => next = IF cliCmd.prompts = 1 THEN "ready" ELSE "asking"
          /\ ~yes => next = "ended"
      OBVIOUS
    <3>3. cliCmd \in CliCommands /\ cliCmd.prompts + 1 \in 0..2
      BY <2>1 DEF CliTypeOK
    <3> HIDE DEF next
    <3> QED
      BY ONLY <3>1, <3>2, <3>3 DEF CliCommands
  <2>3. /\ UNCHANGED <<cliResult, cliRow, cliEffect, checkup>>
        /\ exitStatus' = IF yes THEN Running ELSE 1
    BY ONLY <1>3, <2>1 DEF ConfirmOrAbort
  <2>4. CliTypeOK'
    BY <2>1, <2>2, <2>3 DEF CliTypeOK, Running
  <2>5. NothingYet'
    BY <2>1, <2>2, <2>3 DEF NothingYet
  <2>6. ReturnedTrue' /\ ExitStatusTrue'
    BY <2>1, <2>2, <2>3 DEF ReturnedTrue, ExitStatusTrue, Trusted, NoEffect
  <2>7. ProblemsCounted'
    BY <2>3 DEF ProblemsCounted, ProbesMade
  <2> QED
    BY <2>4, <2>5, <2>6, <2>7
<1>4. CASE EndCommand
  <2>1. /\ cliCmd.phase = "returned" /\ cliCmd'.phase = "ended" /\ cliCmd' \in CliCommands
        /\ cliCmd'.kind = cliCmd.kind /\ cliCmd'.dry = cliCmd.dry
        /\ cliCmd'.asks = cliCmd.asks /\ cliCmd'.prompts = cliCmd.prompts
        /\ cliCmd'.marks = cliCmd.marks
    BY <1>4 DEF EndCommand, CliAt, CliTypeOK, CliCommands
  <2>2. /\ UNCHANGED <<cliResult, cliRow, cliEffect, checkup>>
        /\ exitStatus' = ExitDue /\ ExitDue \in 0..2 /\ checkup.phase = "idle"
    BY <1>4, <2>1 DEF EndCommand, ExitDue, Checked, CliTypeOK
  <2>3. CliTypeOK'
    BY <2>1, <2>2 DEF CliTypeOK, Running
  <2>4. NothingYet'
    BY <2>1, <2>2 DEF NothingYet
  <2>5. Trusted(ExitDue)
    BY <2>1 DEF ReturnedTrue
  <2>6. ReturnedTrue' /\ ExitStatusTrue'
    <3> DEFINE due == ExitDue
    <3>1. Trusted(due) /\ exitStatus' = due
      BY <2>2, <2>5
    <3> HIDE DEF due
    <3> QED
      BY <2>1, <2>2, <3>1 DEF ReturnedTrue, ExitStatusTrue, Trusted
  <2>7. ProblemsCounted'
    BY <2>2 DEF ProblemsCounted, ProbesMade
  <2> QED
    BY <2>3, <2>4, <2>6, <2>7
<1> QED
  BY <1>1, <1>2, <1>3, <1>4

\* A step of the doctor's round keeps the invariant when it keeps the parts about
\* the round.
LEMMA RoundKeeps ==
  ASSUME CliInv, cliCmd.phase = "idle", UNCHANGED <<cliCmd, cliResult, cliRow, cliEffect>>,
         checkup' \in Checkups, exitStatus' \in 0..Running,
         exitStatus' # Running <=> checkup'.phase = "ended",
         checkup'.problems <= 1 + 5 * MaxTargets,
         checkup'.phase = "ended" => (exitStatus' = 0 <=> ~checkup'.sick),
         ProblemsCounted'
  PROVE  CliInv'
<1>1. CliTypeOK'
  BY DoctorAssumption DEF CliInv, CliTypeOK
<1>2. NothingYet'
  BY DEF CliInv, NothingYet
<1>3. ReturnedTrue' /\ ExitStatusTrue'
  BY DEF ReturnedTrue, ExitStatusTrue
<1> QED
  BY <1>1, <1>2, <1>3 DEF CliInv

\* What the probes made so far bound.
LEMMA ProbesBound ==
  ASSUME NEW all \in 0..MaxTargets, NEW left \in 1..all
  PROVE  /\ all - left \in 0..MaxTargets
         /\ all + 4 * (all - left) + 4 <= 5 * all
         /\ all - left + 1 <= all
BY DoctorAssumption

\* The steps of doctor keep the invariant of the command line.
LEMMA DoctorKeeps ==
  ASSUME CliInv,
         \/ DoctorStops \/ DoctorCrashes \/ DoctorEnds
         \/ \E targets \in 1..MaxTargets, skip, stored \in BOOLEAN :
              DoctorStarts(targets, skip, stored)
         \/ \E found \in {"well", "failed", "unreachable"} : DoctorProbes(found)
  PROVE  CliInv'
<1>1. /\ checkup \in Checkups /\ exitStatus \in 0..Running
      /\ cliCmd.phase = "idle" \/ checkup.phase = "idle"
      /\ exitStatus # Running <=> "ended" \in {cliCmd.phase, checkup.phase}
      /\ checkup.problems <= 1 + 5 * MaxTargets
  BY DoctorAssumption DEF CliInv, CliTypeOK
<1>2. CASE DoctorStops
  <2>1. /\ cliCmd.phase = "idle" /\ UNCHANGED <<cliCmd, cliResult, cliRow, cliEffect>>
        /\ exitStatus' = 1
    BY <1>2 DEF DoctorStops
  <2>2. /\ checkup' \in Checkups /\ checkup'.phase = "ended" /\ checkup'.sick
        /\ checkup'.problems = 0 /\ checkup'.all = 0
    <3>1. checkup' = [phase |-> "ended", skip |-> FALSE, all |-> 0, left |-> 0,
                      problems |-> 0, sick |-> TRUE]
      BY ONLY <1>2 DEF DoctorStops, NoCheckup
    <3> QED
      BY <3>1, DoctorAssumption DEF Checkups
  <2>3. ProblemsCounted'
    BY <2>2 DEF ProblemsCounted, ProbesMade, ProbePhases
  <2> QED
    BY <2>1, <2>2, <2>3, RoundKeeps, DoctorAssumption DEF Running
<1>3. CASE DoctorCrashes
  <2>1. /\ UNCHANGED <<cliCmd, cliResult, cliRow, cliEffect>>
        /\ exitStatus' = 1 /\ checkup.phase = "secret" /\ cliCmd.phase = "idle"
    BY <1>1, <1>3 DEF DoctorCrashes
  <2>2. /\ checkup' \in Checkups /\ checkup'.phase = "ended" /\ checkup'.sick
        /\ checkup'.problems = checkup.problems /\ checkup'.all = checkup.all
    BY <1>1, <1>3 DEF DoctorCrashes, Checkups
  <2>3. checkup.left \in 1..checkup.all /\ checkup.problems <= 1 + (checkup.all - checkup.left)
    BY <2>1 DEF CliInv, ProblemsCounted, ProbesMade, ProbePhases
  <2>4. ProblemsCounted'
    BY <1>1, <2>2, <2>3 DEF ProblemsCounted, ProbesMade, ProbePhases, Checkups
  <2> QED
    BY <1>1, <2>1, <2>2, <2>4, RoundKeeps DEF Running
<1>4. CASE DoctorEnds
  <2>1. /\ UNCHANGED <<cliCmd, cliResult, cliRow, cliEffect>>
        /\ exitStatus' = IF checkup.problems > 0 THEN 1 ELSE 0
        /\ checkup.phase = "done" /\ cliCmd.phase = "idle"
    BY <1>1, <1>4 DEF DoctorEnds
  <2>2. /\ checkup' \in Checkups /\ checkup'.phase = "ended" /\ checkup'.sick = checkup.sick
        /\ checkup'.problems = checkup.problems /\ checkup'.all = checkup.all
    BY <1>1, <1>4 DEF DoctorEnds, Checkups
  <2>3. /\ checkup.problems \in Nat /\ checkup.problems <= 1 + 5 * checkup.all
        /\ checkup.problems = 0 <=> ~checkup.sick
    BY <1>1, <2>1 DEF CliInv, ProblemsCounted, ProbesMade, ProbePhases, Checkups
  <2>4. ProblemsCounted'
    BY <2>2, <2>3 DEF ProblemsCounted, ProbesMade, ProbePhases
  <2> QED
    BY <1>1, <2>1, <2>2, <2>3, <2>4, RoundKeeps DEF Running
<1>5. ASSUME NEW targets \in 1..MaxTargets, NEW skip \in BOOLEAN, NEW stored \in BOOLEAN,
             DoctorStarts(targets, skip, stored)
      PROVE  CliInv'
  <2>1. /\ UNCHANGED <<cliCmd, cliResult, cliRow, cliEffect, exitStatus>>
        /\ checkup.phase = "idle" /\ cliCmd.phase = "idle"
    BY <1>5 DEF DoctorStarts
  <2> DEFINE count == IF stored THEN 0 ELSE 1
             sick  == ~stored
  <2>2. checkup' = [phase |-> "secret", skip |-> skip, all |-> targets, left |-> targets,
                    problems |-> count, sick |-> sick]
    BY ONLY <1>5 DEF DoctorStarts
  <2>3. /\ count \in {0, 1} /\ (count = 0 <=> ~sick) /\ targets \in 1..MaxTargets
        /\ sick \in BOOLEAN
    OBVIOUS
  <2> HIDE DEF count, sick
  <2>4. /\ checkup' \in Checkups /\ checkup'.phase = "secret" /\ checkup'.sick = sick
        /\ checkup'.problems = count /\ checkup'.all = targets /\ checkup'.left = targets
    BY <2>2, <2>3, DoctorAssumption DEF Checkups, ProbePhases
  <2>5. ProblemsCounted'
    BY <2>3, <2>4, DoctorAssumption DEF ProblemsCounted, ProbesMade, ProbePhases
  <2> QED
    BY <1>1, <2>1, <2>3, <2>4, <2>5, RoundKeeps, DoctorAssumption
<1>6. ASSUME NEW found \in {"well", "failed", "unreachable"}, DoctorProbes(found)
      PROVE  CliInv'
  <2> DEFINE next  == AfterProbe(checkup.phase, found)
             count == IF found = "well" THEN checkup.problems ELSE checkup.problems + 1
             all   == checkup.all
             left  == checkup.left
  <2>1. /\ UNCHANGED <<cliCmd, cliResult, cliRow, cliEffect, exitStatus>>
        /\ checkup.phase \in ProbePhases /\ cliCmd.phase = "idle"
        /\ found = "unreachable" => checkup.phase \in {"connect", "health"}
    BY <1>1, <1>6 DEF DoctorProbes, ProbePhases
  <2>2. checkup' = [checkup EXCEPT !.phase = next.phase, !.left = next.left,
                      !.problems = count, !.sick = checkup.sick \/ found # "well"]
    BY ONLY <1>6 DEF DoctorProbes
  <2>3. /\ all \in 0..MaxTargets /\ left \in 1..all /\ checkup.problems \in Nat
        /\ checkup.sick \in BOOLEAN /\ checkup.skip \in BOOLEAN
        /\ checkup.problems <= 1 + ProbesMade
        /\ checkup.problems = 0 <=> ~checkup.sick
    BY <1>1, <2>1 DEF CliInv, ProblemsCounted, Checkups
  \* Where the round goes, and how many probes it has made by then.
  <2> DEFINE reached ==
         CASE next.phase = "secret"  -> all - next.left
           [] next.phase = "connect" -> all + 4 * (all - next.left)
           [] next.phase = "health"  -> all + 4 * (all - next.left) + 1
           [] next.phase = "s3"      -> all + 4 * (all - next.left) + 2
           [] next.phase = "metrics" -> all + 4 * (all - next.left) + 3
           [] OTHER                  -> 5 * all
  <2>4. /\ next.phase \in ProbePhases \cup {"done"}
        /\ next.phase \in ProbePhases => next.left \in 1..all
        /\ next.left \in 0..MaxTargets
        /\ ProbesMade \in Int /\ reached \in Int
        /\ ProbesMade + 1 <= reached /\ reached <= 5 * all
    <3>1. CASE checkup.phase = "secret"
      BY <2>3, <3>1, DoctorAssumption DEF AfterProbe, AfterTarget, ProbePhases, ProbesMade
    <3>2. CASE checkup.phase = "connect"
      BY <2>3, <3>2, DoctorAssumption DEF AfterProbe, AfterTarget, ProbePhases, ProbesMade
    <3>3. CASE checkup.phase = "health"
      BY <2>3, <3>3, DoctorAssumption DEF AfterProbe, AfterTarget, ProbePhases, ProbesMade
    <3>4. CASE checkup.phase = "s3"
      BY <2>1, <2>3, <3>4, DoctorAssumption DEF AfterProbe, AfterTarget, ProbePhases, ProbesMade
    <3>5. CASE checkup.phase = "metrics"
      BY <2>3, <3>5, DoctorAssumption DEF AfterProbe, AfterTarget, ProbePhases, ProbesMade
    <3> QED
      BY <2>1, <3>1, <3>2, <3>3, <3>4, <3>5 DEF ProbePhases
  <2>5. /\ count \in Nat /\ count <= checkup.problems + 1
        /\ count = 0 <=> (~checkup.sick /\ found = "well")
    BY <2>3
  <2>6. /\ checkup' \in Checkups /\ checkup'.phase = next.phase /\ checkup'.left = next.left
        /\ checkup'.problems = count /\ checkup'.all = all
        /\ checkup'.sick <=> (checkup.sick \/ found # "well")
    <3> HIDE DEF next, count, reached
    <3>1. (checkup.sick \/ found # "well") \in BOOLEAN
      OBVIOUS
    <3> QED
      BY <1>1, <2>2, <2>3, <2>4, <2>5 DEF Checkups
  <2>7. ProbesMade' = reached
    <3> HIDE DEF next, count
    <3> QED
      BY <2>6 DEF ProbesMade
  <2>8. /\ count <= 1 + reached /\ count <= 1 + 5 * all
    <3> HIDE DEF next, count, reached
    <3> QED
      BY <2>3, <2>4, <2>5
  <2>9. ProblemsCounted'
    <3> HIDE DEF next, count, reached
    <3> QED
      BY <2>4, <2>5, <2>6, <2>7, <2>8 DEF ProblemsCounted
  <2>10. /\ checkup'.phase # "ended" /\ checkup.phase # "ended"
         /\ checkup'.problems <= 1 + 5 * MaxTargets
    <3> HIDE DEF next, count, reached
    <3> QED
      BY <2>1, <2>3, <2>4, <2>5, <2>6, <2>8, DoctorAssumption DEF ProbePhases
  <2> QED
    BY <1>1, <2>1, <2>6, <2>9, <2>10, RoundKeeps
<1> QED
  BY <1>2, <1>3, <1>4, <1>5, <1>6

\* The inductive step, and what follows.
THEOREM CliInvariant == CliSpec => []CliInv
<1>1. CliInit => CliInv
  BY DoctorAssumption DEF CliInit, CliInv, CliTypeOK, CliRows, AsksAlways, CliCommands, CliResults, CliEffects,
     Checkups, NoCommand, NoResult, NoEffect, NoCheckup, Running, NothingYet, ReturnedTrue,
     ProblemsCounted, ProbesMade, ProbePhases, ExitStatusTrue
<1>2. CliInv /\ [CliNext]_cliVars => CliInv'
  <2> SUFFICES ASSUME CliInv, [CliNext]_cliVars PROVE CliInv'
    OBVIOUS
  <2>1. CASE LeaveCommand
    <3>1. CliInit'
      BY <2>1 DEF LeaveCommand, CliInit
    <3> QED
      BY <3>1, DoctorAssumption DEF CliInit, CliInv, CliTypeOK, CliRows, AsksAlways, CliCommands, CliResults,
         CliEffects, Checkups, NoCommand, NoResult, NoEffect, NoCheckup, Running, NothingYet,
         ReturnedTrue, ProblemsCounted, ProbesMade, ProbePhases, ExitStatusTrue
  <2>2. CASE UNCHANGED cliVars
    BY <2>2 DEF cliVars, CliInv, CliTypeOK, NothingYet, ReturnedTrue, ProblemsCounted,
       ProbesMade, ExitStatusTrue, Trusted, ExitDue, Checked
  <2> QED
    BY <2>1, <2>2, CommandKeeps, CallKeeps, DoctorKeeps DEF CliNext
<1> QED
  BY <1>1, <1>2, PTL DEF CliSpec

\* A script can trust the exit status of a command, and the doctor's.
THEOREM ExitStatusTrusted == CliSpec => []ExitStatusTrue
<1>1. CliInv => ExitStatusTrue
  BY DEF CliInv
<1> QED
  BY <1>1, CliInvariant, PTL

------------------------------------------------------------------------------
\* Gauges.

\* The value of each gauge in the text of a deployment.
LEMMA TextValues ==
  ASSUME NEW p \in Plants, NEW g \in Gauge
  PROVE  /\ g \in hidden => TextOf(p)[g] = {}
         /\ g \notin hidden => \E v : TextOf(p)[g] = {v}
         /\ TextOf(p)["online"] = IF "online" \in hidden THEN {} ELSE {p.online}
         /\ TextOf(p)["quorum"] = IF "quorum" \in hidden THEN {} ELSE {WriteQuorum}
         /\ TextOf(p)["used"] = IF "used" \in hidden THEN {} ELSE {p.used}
         /\ TextOf(p)["offline"] = IF "offline" \in hidden THEN {} ELSE {p.offline}
         /\ DOMAIN TextOf(p) = Gauge
BY DEF TextOf, Gauge

\* A text is a function of the gauges, whatever they hold.
LEMMA TextIsFunction ==
  ASSUME NEW p
  PROVE  TextOf(p) = [g \in Gauge |-> TextOf(p)[g]]
<1> DEFINE value(g) == IF g \in hidden THEN {}
                       ELSE CASE g = "online"  -> {p.online}
                              [] g = "quorum"  -> {WriteQuorum}
                              [] g = "healing" -> {p.healing}
                              [] g = "used"    -> {p.used}
                              [] g = "offline" -> {p.offline}
<1>1. TextOf(p) = [g \in Gauge |-> value(g)]
  BY DEF TextOf
<1> HIDE DEF value
<1> QED
  BY <1>1

\* It changes with what the server exports only.
LEMMA TextStays ==
  ASSUME NEW p, UNCHANGED hidden
  PROVE  TextOf(p)' = TextOf(p)
BY DEF TextOf

\* The readings a deployment consists of.
LEMMA PlantParts ==
  ASSUME NEW p \in Plants
  PROVE  /\ p.used \in {80, 85, 95} /\ p.offline \in {0, 1} /\ p.healing \in {0, 1}
         /\ \A e \in ErasureSet : p.online[e] \in Int
  BY GaugeAssumption DEF Plants, OnlineDrives

\* The offline nodes, which /node exports too, are read once; nothing else is
\* added by /node.
LEMMA NodeAddsNothing ==
  ASSUME NEW p \in Plants, plant \in Plants, merged = TextOf(p)
  PROVE  Merge(merged, NodeText) = merged
<1>1. ASSUME NEW g \in Gauge, merged[g] = {}
      PROVE  NodeText[g] = {}
  <2>1. g \in hidden
    BY <1>1, TextValues
  <2>2. ClusterText[g] = {}
    BY <2>1, TextValues DEF ClusterText
  <2> QED
    BY <2>2 DEF NodeText
<1>2. merged = [g \in Gauge |-> merged[g]]
  BY TextIsFunction
<1> QED
  BY <1>1, <1>2 DEF Merge

\* A text has a value at most for every gauge.
LEMMA OneValue ==
  ASSUME NEW p \in Plants, NEW read, read = TextOf(p) \/ read = NoText
  PROVE  DOMAIN read = Gauge /\ \A g \in Gauge : Cardinality(read[g]) <= 1
<1>1. Cardinality({}) = 0
  BY FS_EmptySet
<1>2. \A v : Cardinality({v}) = 1
  BY FS_Singleton
<1>3. CASE read = NoText
  BY <1>1, <1>3 DEF NoText
<1>4. CASE read = TextOf(p)
  <2>1. ASSUME NEW g \in Gauge PROVE Cardinality(read[g]) <= 1
    <3>1. CASE read[g] = {}
      BY <1>1, <3>1
    <3>2. CASE \E v : read[g] = {v}
      <4>1. PICK v : read[g] = {v}
        BY <3>2
      <4>2. Cardinality(read[g]) = 1
        BY <1>2, <4>1
      <4> QED
        BY <4>2
    <3>3. read[g] = {} \/ \E v : read[g] = {v}
      BY <1>4, TextValues
    <3> QED
      BY <3>1, <3>2, <3>3
  <2> QED
    BY <1>4, <2>1 DEF TextOf
<1> QED
  BY <1>3, <1>4

\* A healing verdict without findings leaves no set within one drive of its quorum.
LEMMA MarginsSeen ==
  ASSUME plant \in Plants, merged = TextOf(plant)
  PROVE  /\ HealingHealthy = {TRUE} =>
              \/ \A e \in ErasureSet : plant.online[e] > WriteQuorum + 1
              \/ "quorum" \in hidden
         /\ HasQuorum(plant) => "quorum lost" \notin HealingFindings
<1>1. /\ merged["online"] = IF "online" \in hidden THEN {} ELSE {plant.online}
      /\ merged["quorum"] = IF "quorum" \in hidden THEN {} ELSE {WriteQuorum}
  BY TextValues DEF Gauge
<1>2. WriteQuorum \in Int /\ \A e \in ErasureSet : plant.online[e] \in Int
  BY PlantParts, GaugeAssumption
<1>3. ASSUME HealingHealthy = {TRUE}, "quorum" \notin hidden,
             NEW e \in ErasureSet
      PROVE  plant.online[e] > WriteQuorum + 1
  <2>1. merged["online"] # {} /\ HealingFindings = {}
    BY <1>3 DEF HealingHealthy
  <2>2. merged["online"] = {plant.online} /\ merged["quorum"] = {WriteQuorum}
    BY <1>1, <1>3, <2>1
  <2>3. plant.online[e] - WriteQuorum \in Margins
    BY <2>2 DEF Margins
  <2>4. ~(plant.online[e] - WriteQuorum <= 1)
    BY <2>1, <2>3 DEF HealingFindings
  <2> QED
    BY <1>2, <2>4
<1>4. ASSUME HasQuorum(plant), "quorum lost" \in HealingFindings
      PROVE  FALSE
  <2>1. PICK m \in Margins : m < 0 \/ m = 0 \/ m <= 1
    BY <1>4 DEF HealingFindings
  <2>2. PICK n \in Margins : n < 0
    BY <1>4 DEF HealingFindings
  <2>3. merged["online"] = {plant.online} /\ merged["quorum"] = {WriteQuorum}
    BY <1>1, <2>2 DEF Margins
  <2>4. PICK e \in ErasureSet : n = plant.online[e] - WriteQuorum
    BY <2>2, <2>3 DEF Margins
  <2> DEFINE online == plant.online[e]
  <2>5. /\ online >= WriteQuorum /\ online \in Int /\ WriteQuorum \in Int
        /\ n = online - WriteQuorum /\ n < 0
    BY <1>2, <1>4, <2>2, <2>4 DEF HasQuorum
  <2> HIDE DEF online
  <2> QED
    BY ONLY <2>5
<1> QED
  BY <1>3, <1>4

\* A capacity verdict without findings, and an overview that is not degraded.
LEMMA CapacitySeen ==
  ASSUME plant \in Plants, merged = TextOf(plant)
  PROVE  /\ CapacityHealthy = {TRUE} =>
              plant.used < 85 /\ (plant.offline = 0 \/ "offline" \in hidden)
         /\ ~Degraded => plant.offline = 0 \/ "offline" \in hidden
<1>1. /\ merged["used"] = IF "used" \in hidden THEN {} ELSE {plant.used}
      /\ merged["offline"] = IF "offline" \in hidden THEN {} ELSE {plant.offline}
  BY TextValues DEF Gauge
<1>2. plant.used \in {80, 85, 95} /\ plant.offline \in {0, 1}
  BY PlantParts
<1>3. ASSUME CapacityHealthy = {TRUE}
      PROVE  plant.used < 85 /\ (plant.offline = 0 \/ "offline" \in hidden)
  <2>1. merged["used"] = {plant.used} /\ CapacityFindings = {}
    BY <1>1, <1>3 DEF CapacityHealthy
  <2>2. /\ ~(plant.used >= 95) /\ ~(plant.used >= 85 /\ plant.used < 95)
        /\ merged["offline"] \ {0} = {}
    BY <2>1 DEF CapacityFindings
  <2> QED
    BY <1>1, <1>2, <2>2
<1>4. ASSUME ~Degraded PROVE plant.offline = 0 \/ "offline" \in hidden
  BY <1>1, <1>4 DEF Degraded
<1> QED
  BY <1>3, <1>4

\* What was read at one moment makes the verdicts measured.
LEMMA MeasuredIfReadAtOnce ==
  ASSUME GaugeTypeOK, ReadAtOnce, ProbedHealth
  PROVE  CleanVerdictsMeasured
<1>1. merged["offline"] \subseteq offlines
  <2>1. CASE merged = NoText
    BY <2>1 DEF NoText, Gauge
  <2>2. CASE merged # NoText
    <3>1. PICK p \in Plants : merged = TextOf(p) /\ p.offline \in offlines
      BY <2>2 DEF ReadAtOnce, GaugeTypeOK
    <3> QED
      BY <3>1, TextValues DEF Gauge
  <2> QED
    BY <2>1, <2>2
<1>2. ASSUME reading = "reported", ~unsteady
      PROVE  CleanVerdictsMeasured
  <2>1. merged = TextOf(plant) /\ plant \in Plants
    BY <1>2 DEF ReadAtOnce, GaugeTypeOK
  <2>2. health => HasQuorum(plant)
    BY <1>2 DEF ProbedHealth
  <2> QED
    BY <1>1, <2>1, <2>2, MarginsSeen, CapacitySeen DEF CleanVerdictsMeasured
<1>3. ASSUME reading = "unreadable", ~unsteady
      PROVE  CleanVerdictsMeasured
  <2>1. \A g \in Gauge : merged[g] = {}
    BY <1>3 DEF GaugeTypeOK, NoText
  <2>2. HealingHealthy = {} /\ CapacityHealthy = {} /\ HealingFindings = {}
    <3>1. merged["online"] = {} /\ merged["used"] = {}
      BY <2>1 DEF Gauge
    <3>2. Margins = {}
      BY <3>1 DEF Margins
    <3> QED
      BY <3>1, <3>2 DEF HealingHealthy, CapacityHealthy, HealingFindings
  <2>3. health => HasQuorum(plant)
    BY <1>3 DEF ProbedHealth
  <2> QED
    BY <1>1, <1>3, <2>2, <2>3 DEF CleanVerdictsMeasured
<1> QED
  BY <1>1, <1>2, <1>3 DEF CleanVerdictsMeasured

\* Every step of the probes and scrapes keeps the invariant of the gauges.
LEMMA GaugeStepKeeps ==
  ASSUME GaugeTypeOK, ReadAtOnce, ProbedHealth, [GaugeNext]_gaugeVars
  PROVE  GaugeTypeOK' /\ ReadAtOnce' /\ ProbedHealth'
<1>1. ASSUME NEW i \in 1..3, NEW reachable \in BOOLEAN, ProbeHealth(i, reachable)
      PROVE  GaugeTypeOK' /\ ReadAtOnce' /\ ProbedHealth'
  <2>1. /\ UNCHANGED <<plant, hidden, merged, unsteady, offlines>>
        /\ health' = (health /\ reachable /\ (i = 3 => HasQuorum(plant)))
        /\ reading = Probing[i] /\ reading' = Probing[i + 1]
    BY <1>1 DEF ProbeHealth
  <2>a. /\ reading \in {"idle", "live", "ready"} /\ reading' \in {"live", "ready", "cluster"}
        /\ reading' = "cluster" => i = 3
    BY ONLY <2>1, i \in 1..3 DEF Probing
  <2>b. /\ health' \in BOOLEAN
        /\ health' => (i = 3 => HasQuorum(plant))
    BY <2>1 DEF GaugeTypeOK
  <2>2. GaugeTypeOK'
    BY <2>1, <2>a, <2>b DEF GaugeTypeOK
  <2>3. ReadAtOnce'
    BY <2>1, <2>a DEF ReadAtOnce, NoText
  <2>4. ProbedHealth'
    BY <2>1, <2>a, <2>b DEF ProbedHealth, HasQuorum
  <2> QED
    BY <2>2, <2>3, <2>4
<1>2. ASSUME NEW ok \in BOOLEAN, ScrapeCluster(ok)
      PROVE  GaugeTypeOK' /\ ReadAtOnce' /\ ProbedHealth'
  <2>1. /\ UNCHANGED <<plant, hidden, health, unsteady, offlines>>
        /\ reading = "cluster" /\ merged = NoText
        /\ reading' = IF ok THEN "scraped cluster" ELSE "unreadable"
        /\ ok => merged' = Merge(merged, ClusterText)
        /\ ~ok => merged' = NoText
    BY <1>2 DEF ScrapeCluster, ReadAtOnce
  <2>2. ok => merged' = TextOf(plant)
    BY <2>1 DEF Merge, ClusterText, NoText, TextOf
  <2>3. plant \in Plants /\ plant.offline \in offlines
    BY DEF GaugeTypeOK, ReadAtOnce
  <2>4. ReadAtOnce'
    BY <2>1, <2>2, <2>3 DEF ReadAtOnce, TextOf, NoText
  <2>5. /\ DOMAIN merged' = Gauge
        /\ \A g \in Gauge : Cardinality(merged'[g]) <= 1
    <3>1. merged' = TextOf(plant) \/ merged' = NoText
      BY <2>1, <2>2
    <3> QED
      BY <2>3, <3>1, OneValue
  <2>6. GaugeTypeOK'
    BY <2>1, <2>5 DEF GaugeTypeOK, NoText
  <2>7. ProbedHealth'
    BY <2>1 DEF ProbedHealth, HasQuorum
  <2> QED
    BY <2>4, <2>6, <2>7
<1>3. ASSUME NEW ok \in BOOLEAN, ScrapeNode(ok)
      PROVE  GaugeTypeOK' /\ ReadAtOnce' /\ ProbedHealth'
  <2>1. /\ UNCHANGED <<plant, hidden, health, unsteady, offlines>>
        /\ reading = "scraped cluster"
        /\ reading' = IF ok THEN "scraped node" ELSE "unreadable"
        /\ ok => merged' = Merge(merged, NodeText)
        /\ ~ok => merged' = NoText
    BY <1>3 DEF ScrapeNode
  <2>2. PICK p \in Plants : /\ merged = TextOf(p) /\ p.offline \in offlines
                            /\ ~unsteady => p = plant
    BY <2>1 DEF ReadAtOnce
  <2>3. plant \in Plants /\ plant.offline \in offlines
    BY DEF GaugeTypeOK, ReadAtOnce
  <2>4. ok => merged' = TextOf(p)
    BY <2>1, <2>2, <2>3, NodeAddsNothing
  <2>5. ReadAtOnce'
    BY <2>1, <2>2, <2>3, <2>4 DEF ReadAtOnce, TextOf, NoText
  <2>6. /\ DOMAIN merged' = Gauge
        /\ \A g \in Gauge : Cardinality(merged'[g]) <= 1
    <3>1. merged' = TextOf(p) \/ merged' = NoText
      BY <2>1, <2>4
    <3> QED
      BY <3>1, OneValue
  <2>7. GaugeTypeOK'
    BY <2>1, <2>6 DEF GaugeTypeOK, NoText
  <2>8. ProbedHealth'
    BY <2>1 DEF ProbedHealth, HasQuorum
  <2> QED
    BY <2>5, <2>7, <2>8
<1>4. CASE ScrapeBucket
  <2>1. /\ UNCHANGED <<plant, hidden, health, merged, unsteady, offlines>>
        /\ reading = "scraped node" /\ reading' = "reported"
    BY <1>4 DEF ScrapeBucket
  <2>2. PICK p \in Plants : /\ merged = TextOf(p) /\ p.offline \in offlines
                            /\ ~unsteady => p = plant
    BY <2>1 DEF ReadAtOnce
  <2>3. ReadAtOnce'
    BY <2>1, <2>2, TextStays DEF ReadAtOnce
  <2>4. GaugeTypeOK' /\ ProbedHealth'
    BY <2>1 DEF GaugeTypeOK, ProbedHealth, HasQuorum
  <2> QED
    BY <2>3, <2>4
<1>5. ASSUME NEW q \in Plants, PlantChanges(q)
      PROVE  GaugeTypeOK' /\ ReadAtOnce' /\ ProbedHealth'
  <2>1. /\ UNCHANGED <<hidden, reading, health, merged>> /\ plant' = q /\ unsteady' = TRUE
        /\ offlines' = offlines \cup {q.offline}
    BY <1>5 DEF PlantChanges
  <2>2. GaugeTypeOK' /\ ProbedHealth'
    BY <2>1 DEF GaugeTypeOK, ProbedHealth, NoText
  <2>3. ReadAtOnce'
    <3>1. CASE reading \in {"scraped cluster", "scraped node", "reported"}
      <4>1. PICK p \in Plants : merged = TextOf(p) /\ p.offline \in offlines
        BY <3>1 DEF ReadAtOnce
      <4> QED
        BY <2>1, <3>1, <4>1, TextStays DEF ReadAtOnce
    <3>2. CASE reading \notin {"scraped cluster", "scraped node", "reported"}
      BY <2>1, <3>2 DEF ReadAtOnce, NoText
    <3> QED
      BY <3>1, <3>2
  <2> QED
    BY <2>2, <2>3
<1>6. CASE UNCHANGED gaugeVars
  <2>1. UNCHANGED <<plant, hidden, reading, health, merged, unsteady, offlines>>
    BY <1>6 DEF gaugeVars
  <2>2. GaugeTypeOK' /\ ProbedHealth'
    BY <2>1 DEF GaugeTypeOK, ProbedHealth, NoText, HasQuorum
  <2>3. ReadAtOnce'
    BY <2>1, TextStays DEF ReadAtOnce, NoText
  <2> QED
    BY <2>2, <2>3
<1> QED
  BY <1>1, <1>2, <1>3, <1>4, <1>5, <1>6 DEF GaugeNext, ReadingNext

\* Every reading is a reading of one moment, in every deployment.
THEOREM GaugeInvariant == GaugeSpec => []GaugeInv
<1>1. GaugeInit => GaugeTypeOK /\ ReadAtOnce /\ ProbedHealth
  <2> SUFFICES ASSUME GaugeInit PROVE GaugeTypeOK /\ ReadAtOnce /\ ProbedHealth
    OBVIOUS
  <2>1. /\ plant \in Plants /\ hidden \subseteq Gauge /\ reading = "idle" /\ health = TRUE
        /\ merged = NoText /\ unsteady = FALSE /\ offlines = {plant.offline}
    BY DEF GaugeInit
  <2>2. DOMAIN merged = Gauge /\ \A g \in Gauge : Cardinality(merged[g]) <= 1
    BY <2>1, OneValue
  <2> QED
    BY <2>1, <2>2 DEF GaugeTypeOK, ReadAtOnce, ProbedHealth
<1>2. GaugeTypeOK /\ ReadAtOnce /\ ProbedHealth /\ [GaugeNext]_gaugeVars
      => GaugeTypeOK' /\ ReadAtOnce' /\ ProbedHealth'
  BY GaugeStepKeeps
<1>3. GaugeTypeOK /\ ReadAtOnce /\ ProbedHealth => GaugeInv
  BY MeasuredIfReadAtOnce DEF GaugeInv
<1> QED
  BY <1>1, <1>2, <1>3, PTL DEF GaugeSpec

\* A clean verdict was measured.
THEOREM VerdictsMeasured == GaugeSpec => []CleanVerdictsMeasured
<1>1. GaugeInv => CleanVerdictsMeasured
  BY DEF GaugeInv
<1> QED
  BY <1>1, GaugeInvariant, PTL

------------------------------------------------------------------------------
\* Scans.

Aims == {"retention", "exposure", "lifecycle", "iam"}

\* A subject has its place in the listing.
LEMMA PlaceInListing ==
  ASSUME NEW x \in Subject
  PROVE  /\ Place(x) \in 1..Len(Subjects) /\ Len(Subjects) \in Nat
         /\ Subjects[Place(x)] = x
<1>1. DOMAIN Subjects = 1..Len(Subjects) /\ Len(Subjects) \in Nat
  BY ScanAssumption
<1>2. \E i \in DOMAIN Subjects : Subjects[i] = x
  BY DEF Subject
<1> QED
  BY <1>1, <1>2 DEF Place

\* The probes of each diagnosis, and their turns.
LEMMA TurnInProbes ==
  ASSUME scanAim \in Aims, NEW f \in Probed(scanAim)
  PROVE  /\ Turn(f) \in 1..4 /\ Turn(f) \in DOMAIN Probes(scanAim)
         /\ Probes(scanAim)[Turn(f)] = f
<1>1. \E i \in DOMAIN Probes(scanAim) : Probes(scanAim)[i] = f
  BY DEF Probed
<1>2. Turn(f) \in DOMAIN Probes(scanAim) /\ Probes(scanAim)[Turn(f)] = f
  BY <1>1 DEF Turn
<1>3. DOMAIN Probes(scanAim) \subseteq 1..4
  BY DEF Aims, Probes
<1> QED
  BY <1>2, <1>3

\* What is probed and what is listed.
LEMMA FieldsOfAims ==
  ASSUME scanAim \in Aims
  PROVE  /\ scanAim = "retention" => Probed(scanAim) = {"rules", "lock", "versioning"}
         /\ scanAim = "exposure" =>
              Probed(scanAim) = {"policy", "encryption", "versioning", "rules"}
         /\ scanAim = "lifecycle" => Probed(scanAim) = {"rules", "versioning", "uploads"}
         /\ scanAim = "iam" => Probed(scanAim) = {"group"}
         /\ Probed(scanAim) \subseteq AllFields
         /\ Listed(scanAim) \subseteq AllFields
         /\ Fields(scanAim) \subseteq AllFields
         /\ Probed(scanAim) \cap Listed(scanAim) = {}
<1>1. CASE scanAim = "retention"
  <2>1. Probed(scanAim) = {"rules", "lock", "versioning"} /\ Listed(scanAim) = {}
    BY <1>1 DEF Probed, Probes, Listed
  <2> QED
    BY <1>1, <2>1 DEF Fields, AllFields
<1>2. CASE scanAim = "exposure"
  <2>1. /\ Probed(scanAim) = {"policy", "encryption", "versioning", "rules"}
        /\ Listed(scanAim) = {}
    BY <1>2 DEF Probed, Probes, Listed
  <2> QED
    BY <1>2, <2>1 DEF Fields, AllFields
<1>3. CASE scanAim = "lifecycle"
  <2>1. /\ Probed(scanAim) = {"rules", "versioning", "uploads"}
        /\ Listed(scanAim) = {"size"}
    BY <1>3 DEF Probed, Probes, Listed
  <2> QED
    BY <1>3, <2>1 DEF Fields, AllFields
<1>4. CASE scanAim = "iam"
  <2>1. Probed(scanAim) = {"group"} /\ Listed(scanAim) = {"own", "enabled"}
    BY <1>4 DEF Probed, Probes, Listed
  <2> QED
    BY <1>4, <2>1 DEF Fields, AllFields
<1> QED
  BY <1>1, <1>2, <1>3, <1>4 DEF Aims

\* Two probes of a scan have two positions.
LEMMA PositionsDiffer ==
  ASSUME scanAim \in Aims, NEW limit \in Nat,
         NEW p \in Plan(limit), NEW q \in Plan(limit)
  PROVE  /\ Position(p) \in Nat \ {0}
         /\ p[1] \in Subject /\ p[2] \in Probed(scanAim) /\ p[2] \in AllFields
         /\ Position(p) = Position(q) => p[1] = q[1] /\ p[2] = q[2] /\ p = q
<1>1. /\ p[1] \in Subject /\ p[2] \in Probed(scanAim) /\ p = <<p[1], p[2]>>
      /\ q[1] \in Subject /\ q[2] \in Probed(scanAim) /\ q = <<q[1], q[2]>>
  <2>1. Len(Subjects) \in Nat /\ DOMAIN Subjects = 1..Len(Subjects)
    BY ScanAssumption
  <2>2. Scanned(limit) \subseteq Subject
    BY <2>1 DEF Scanned, Subject, Reach, Least
  <2> QED
    BY <2>2 DEF Plan
<1> DEFINE i == Place(p[1])
           j == Place(q[1])
           t == Turn(p[2])
           u == Turn(q[2])
<1>2. /\ i \in Nat \ {0} /\ j \in Nat \ {0} /\ Subjects[i] = p[1] /\ Subjects[j] = q[1]
  BY <1>1, PlaceInListing
<1>3. /\ t \in 1..4 /\ u \in 1..4
      /\ Probes(scanAim)[t] = p[2] /\ Probes(scanAim)[u] = q[2]
  BY <1>1, TurnInProbes
<1>4. Position(p) = 4 * i + t /\ Position(q) = 4 * j + u
  BY DEF Position
<1> HIDE DEF i, j, t, u
<1>5. 4 * i + t \in Nat \ {0} /\ (4 * i + t = 4 * j + u => i = j /\ t = u)
  BY <1>2, <1>3
<1> QED
  BY <1>1, <1>2, <1>3, <1>4, <1>5, FieldsOfAims

\* A value of a field is neither of the two marks.
LEMMA ValuesAreRead ==
  ASSUME NEW f \in AllFields, NEW v \in Domain(f)
  PROVE  v # "unread" /\ v # "failed" /\ v \in Values
BY DEF AllFields, Domain, Values

\* What made a probe needless still does when more is answered.
LEMMA NeedlessStays ==
  ASSUME NEW a, NEW b, NEW x, NEW f,
         \A g \in AllFields : a[x][g] # "unread" => b[x][g] = a[x][g],
         Needless(x, f, a)
  PROVE  Needless(x, f, b)
<1>1. CASE scanAim = "retention" /\ "failed" \in {a[x][g] : g \in AllFields}
  BY <1>1 DEF Needless
<1>2. CASE scanAim = "retention" /\ f = "versioning" /\ a[x].lock = "none"
  BY <1>2 DEF Needless, AllFields
<1>3. CASE scanAim = "lifecycle" /\ f = "uploads" /\ a[x].rules = "tidy"
  BY <1>3 DEF Needless, AllFields
<1> QED
  BY <1>1, <1>2, <1>3 DEF Needless

\* The order of the probes does not change while a scan runs.
LEMMA PlanStays ==
  ASSUME UNCHANGED scanAim
  PROVE  /\ \A limit : Plan(limit)' = Plan(limit)
         /\ \A p : Position(p)' = Position(p)
         /\ \A x, f, a : Needless(x, f, a)' <=> Needless(x, f, a)
BY DEF Plan, Scanned, Reach, Position, Turn, Needless

\* The scans start well typed.
LEMMA ScanInitTypes == ScanInit => ScanTypeOK
<1> SUFFICES ASSUME ScanInit PROVE ScanTypeOK
  OBVIOUS
<1>1. /\ scanAim \in Aims /\ world \in [Subject -> Kind(scanAim)] /\ scan = NoScan
      /\ got = [x \in Subject |-> Unread] /\ failures = 0 /\ altered = {}
  BY DEF ScanInit, Aims
<1>2. Clean \in [AllFields -> Values] /\ \A f \in AllFields : Clean[f] \in Domain(f)
  <2>1. \A f \in AllFields : Clean[f] \in Domain(f)
    BY DEF Clean, AllFields, Domain
  <2>2. \A f \in AllFields : Domain(f) \subseteq Values
    BY DEF Values
  <2>3. Clean = [f \in AllFields |-> Clean[f]]
    BY DEF Clean
  <2> QED
    BY <2>1, <2>2, <2>3
<1>3. ASSUME NEW w \in Kind(scanAim)
      PROVE  w \in [AllFields -> Values] /\ \A f \in AllFields : w[f] \in Domain(f)
  <2>1. PICK k : /\ \A f \in Fields(scanAim) : k[f] \in Domain(f)
                 /\ w = [f \in AllFields |-> IF f \in Fields(scanAim) THEN k[f] ELSE Clean[f]]
    BY DEF Kind
  <2>2. \A f \in AllFields : Domain(f) \subseteq Values
    BY DEF Values
  <2> QED
    BY <1>2, <2>1, <2>2
<1>4. got \in [Subject -> [AllFields -> Values \cup {"unread", "failed"}]]
  BY <1>1 DEF Unread
<1>5. \A x \in Subject, f \in AllFields :
        world[x][f] \in Domain(f) /\ got[x][f] \in Domain(f) \cup {"unread", "failed"}
  BY <1>1, <1>3 DEF Unread
<1>6. world \in [Subject -> [AllFields -> Values]]
  BY <1>1, <1>3
<1>7. scan \in [phase : {"idle", "probing"}, limit : 0..MaxLimit, at : Nat]
      /\ scan.phase = "idle"
  BY <1>1, ScanAssumption DEF NoScan
<1> QED
  BY <1>1, <1>4, <1>5, <1>6, <1>7, ScanAssumption DEF ScanTypeOK, Aims

\* Listing the subjects keeps the invariant of the scans.
LEMMA StartKeeps ==
  ASSUME ScanInv, NEW limit \in 1..MaxLimit, NEW metrics \in BOOLEAN,
         StartScan(limit, metrics)
  PROVE  ScanInv'
<1>1. /\ scan.phase = "idle" /\ UNCHANGED <<scanAim, world, failures, altered>>
      /\ scan' = [phase |-> "probing", limit |-> limit, at |-> 0]
  BY DEF StartScan
<1> DEFINE answer(x, f) == IF f \notin Listed(scanAim) THEN "unread"
                           ELSE IF metrics THEN world[x][f] ELSE "failed"
<1>2. got' = [x \in Subject |-> [f \in AllFields |-> answer(x, f)]]
  BY DEF StartScan
<1>3. \A x \in Subject, f \in AllFields :
        /\ answer(x, f) \in {world[x][f], "unread", "failed"}
        /\ f \in Listed(scanAim) =>
             answer(x, f) # "unread" /\ (answer(x, f) = "failed" => scanAim = "lifecycle")
        /\ f \notin Listed(scanAim) => answer(x, f) = "unread"
        /\ world[x][f] \in Domain(f) /\ world[x][f] \in Values
  BY ValuesAreRead DEF ScanInv, ScanTypeOK, StartScan
<1> HIDE DEF answer
<1>4. \A x \in Subject, f \in AllFields : got'[x][f] = answer(x, f)
  BY <1>2
<1>5. got' \in [Subject -> [AllFields -> Values \cup {"unread", "failed"}]]
  BY <1>2, <1>3
<1>6. scan' \in [phase : {"idle", "probing"}, limit : 0..MaxLimit, at : Nat]
  BY <1>1, ScanAssumption
<1>7. ScanTypeOK'
  BY <1>1, <1>3, <1>4, <1>5, <1>6 DEF ScanInv, ScanTypeOK
<1>8. AnswersTrue'
  BY <1>1, <1>3, <1>4 DEF AnswersTrue
<1>9. ReadInOrder'
  <2>1. scanAim \in Aims /\ limit \in Nat
    BY DEF ScanInv, ScanTypeOK, Aims
  <2>2. ASSUME NEW x \in Subject, NEW f \in Listed(scanAim)
        PROVE  got'[x][f] # "unread" /\ (got'[x][f] = "failed" => scanAim = "lifecycle")
    BY <1>3, <1>4, <2>1, FieldsOfAims
  <2>3. ASSUME NEW p \in Plan(limit)
        PROVE  Position(p) > 0 /\ got'[p[1]][p[2]] = "unread"
    <3>1. /\ Position(p) \in Nat \ {0} /\ p[1] \in Subject /\ p[2] \in Probed(scanAim)
          /\ p[2] \in AllFields
      BY <2>1, PositionsDiffer
    <3>2. p[2] \notin Listed(scanAim)
      BY <2>1, <3>1, FieldsOfAims
    <3> QED
      BY <1>3, <1>4, <3>1, <3>2
  <2>4. ASSUME NEW p \in Plan(limit) PROVE ~(Position(p) <= 0)
    <3>1. Position(p) \in Nat \ {0}
      BY <2>1, PositionsDiffer
    <3> QED
      BY <3>1
  <2> QED
    BY <1>1, <2>2, <2>3, <2>4, PlanStays DEF ReadInOrder
<1> QED
  BY <1>7, <1>8, <1>9 DEF ScanInv

\* A probe, answered or failed, keeps the invariant of the scans.
LEMMA ProbeKeeps ==
  ASSUME ScanInv, NEW p \in Plan(scan.limit), p \in Upcoming, NEW ok \in BOOLEAN,
         ProbeNext(p, ok)
  PROVE  ScanInv'
<1>1. /\ scan.phase = "probing" /\ UNCHANGED <<scanAim, world, altered>>
      /\ p \in Todo /\ \A q \in Todo : Position(p) <= Position(q)
      /\ scan' = [scan EXCEPT !.at = Position(p)]
  BY DEF ProbeNext, Upcoming
<1>2. /\ scanAim \in Aims /\ scan.limit \in Nat /\ scan.at \in Nat
      /\ scan \in [phase : {"idle", "probing"}, limit : 0..MaxLimit, at : Nat]
      /\ scan.limit # 0 /\ failures \in 0..MaxFailures
  BY <1>1, ScanAssumption DEF ScanInv, ScanTypeOK, Aims
<1>3. \A q \in Plan(scan.limit) :
        /\ Position(q) \in Nat \ {0}
        /\ q[1] \in Subject /\ q[2] \in Probed(scanAim) /\ q[2] \in AllFields
        /\ Position(p) = Position(q) => p = q
        /\ q = <<q[1], q[2]>>
  BY <1>2, PositionsDiffer DEF Plan
<1> DEFINE x == p[1]
           f == p[2]
           v == IF ok THEN world[x][f] ELSE "failed"
<1>4. /\ x \in Subject /\ f \in AllFields /\ f \notin Listed(scanAim) /\ p = <<x, f>>
      /\ Position(p) > scan.at
  BY <1>1, <1>2, <1>3, FieldsOfAims DEF Todo
<1>5. /\ v \in {world[x][f], "failed"} /\ v # "unread"
      /\ v \in Values \cup {"failed"} /\ v \in Domain(f) \cup {"failed"}
  BY <1>4, ValuesAreRead DEF ScanInv, ScanTypeOK
<1>6. got' = [got EXCEPT ![x][f] = v]
  BY DEF ProbeNext
<1> HIDE DEF x, f, v
<1>7. /\ got \in [Subject -> [AllFields -> Values \cup {"unread", "failed"}]]
      /\ \A y \in Subject, g \in AllFields : got[y][g] \in Domain(g) \cup {"unread", "failed"}
  BY DEF ScanInv, ScanTypeOK
<1>8. /\ got' \in [Subject -> [AllFields -> Values \cup {"unread", "failed"}]]
      /\ got'[x][f] = v
      /\ \A y \in Subject, g \in AllFields : y # x \/ g # f => got'[y][g] = got[y][g]
  BY <1>4, <1>5, <1>6, <1>7
<1>9. got[x][f] = "unread"
  <2>1. ~(Position(p) <= scan.at)
    BY <1>2, <1>3, <1>4
  <2> QED
    BY <1>1, <1>4, <2>1 DEF ScanInv, ReadInOrder
<1>10. \A y \in Subject, g \in AllFields : got[y][g] # "unread" => got'[y][g] = got[y][g]
  BY <1>8, <1>9
<1>11. failures' \in 0..MaxFailures
  BY <1>2, ScanAssumption DEF ProbeNext
<1>12. /\ scan' \in [phase : {"idle", "probing"}, limit : 0..MaxLimit, at : Nat]
       /\ scan'.at = Position(p) /\ scan'.limit = scan.limit /\ scan'.phase = "probing"
  BY <1>1, <1>2, <1>3
<1>13. ScanTypeOK'
  <2>1. ASSUME NEW y \in Subject, NEW g \in AllFields
        PROVE  got'[y][g] \in Domain(g) \cup {"unread", "failed"}
    BY <1>5, <1>7, <1>8
  <2> QED
    BY <1>1, <1>2, <1>8, <1>11, <1>12, <2>1 DEF ScanInv, ScanTypeOK
<1>14. AnswersTrue'
  <2>1. ASSUME NEW y \in Subject \ altered, NEW g \in AllFields
        PROVE  got'[y][g] \in {world[y][g], "unread", "failed"}
    <3>1. CASE y = x /\ g = f
      BY <1>5, <1>8, <3>1
    <3>2. CASE y # x \/ g # f
      BY <1>8, <3>2 DEF ScanInv, AnswersTrue
    <3> QED
      BY <3>1, <3>2
  <2> QED
    BY <1>1, <2>1 DEF AnswersTrue
<1>15. ReadInOrder'
  <2>1. ASSUME NEW y \in Subject, NEW g \in Listed(scanAim)
        PROVE  got'[y][g] # "unread" /\ (got'[y][g] = "failed" => scanAim = "lifecycle")
    BY <1>1, <1>2, <1>10, FieldsOfAims DEF ScanInv, ReadInOrder
  <2>2. ASSUME NEW q \in Plan(scan.limit), Position(q) <= Position(p)
        PROVE  got'[q[1]][q[2]] # "unread" \/ Needless(q[1], q[2], got')
    <3>1. q[1] \in Subject /\ q[2] \in AllFields /\ Position(q) \in Nat
      BY <1>3
    <3>2. CASE q = p
      BY <1>5, <1>8, <3>2 DEF x, f
    <3>3. CASE q # p /\ Needless(q[1], q[2], got)
      BY <1>10, <3>1, <3>3, NeedlessStays
    <3>4. CASE q # p /\ ~Needless(q[1], q[2], got)
      <4>1. ~(Position(p) <= Position(q))
        BY <1>3, <2>2, <3>1, <3>4
      <4>2. q \notin Todo
        BY <1>1, <4>1
      <4>3. Position(q) <= scan.at
        BY <1>2, <3>1, <3>4, <4>2 DEF Todo
      <4>4. got[q[1]][q[2]] # "unread"
        BY <1>1, <3>4, <4>3 DEF ScanInv, ReadInOrder
      <4> QED
        BY <1>10, <3>1, <4>4
    <3> QED
      BY <3>2, <3>3, <3>4
  <2>3. ASSUME NEW q \in Plan(scan.limit), ~(Position(q) <= Position(p))
        PROVE  got'[q[1]][q[2]] = "unread"
    <3>1. q[1] \in Subject /\ q[2] \in AllFields /\ Position(q) \in Nat /\ Position(p) \in Nat
      BY <1>3
    <3>2. ~(Position(q) <= scan.at) /\ q # p
      BY <1>2, <1>4, <2>3, <3>1
    <3>3. got[q[1]][q[2]] = "unread"
      BY <1>1, <3>2 DEF ScanInv, ReadInOrder
    <3>4. q[1] # x \/ q[2] # f
      BY <1>3, <1>4, <3>2
    <3> QED
      BY <1>8, <3>1, <3>3, <3>4
  <2> QED
    BY <1>1, <1>12, <2>1, <2>2, <2>3, PlanStays DEF ReadInOrder
<1> QED
  BY <1>13, <1>14, <1>15 DEF ScanInv

\* Others change a subject that is listed among the altered from then on.
LEMMA OthersKeep ==
  ASSUME ScanInv, NEW x \in Subject, NEW f \in Fields(scanAim), NEW v \in Domain(f),
         OthersChange(x, f, v)
  PROVE  ScanInv'
<1>1. /\ UNCHANGED <<scanAim, scan, got, failures>> /\ altered' = altered \cup {x}
      /\ world' = [world EXCEPT ![x][f] = v]
  BY DEF OthersChange
<1>2. scanAim \in Aims /\ world \in [Subject -> [AllFields -> Values]]
  BY DEF ScanInv, ScanTypeOK, Aims
<1>3. f \in AllFields /\ v \in Values
  BY <1>2, FieldsOfAims, ValuesAreRead
<1>4. /\ world' \in [Subject -> [AllFields -> Values]]
      /\ world'[x][f] = v
      /\ \A y \in Subject, g \in AllFields : y # x \/ g # f => world'[y][g] = world[y][g]
  BY <1>1, <1>2, <1>3
<1>5. ScanTypeOK'
  <2>1. ASSUME NEW y \in Subject, NEW g \in AllFields PROVE world'[y][g] \in Domain(g)
    BY <1>3, <1>4 DEF ScanInv, ScanTypeOK
  <2> QED
    BY <1>1, <1>4, <2>1 DEF ScanInv, ScanTypeOK
<1>6. AnswersTrue'
  BY <1>1, <1>4 DEF ScanInv, AnswersTrue
<1>7. ReadInOrder'
  BY <1>1, PlanStays DEF ScanInv, ReadInOrder
<1> QED
  BY <1>5, <1>6, <1>7 DEF ScanInv

\* When a scan is finished, every probe of a scanned subject was answered, failed
\* or was needless, and an answer about a subject nobody changed is so.
LEMMA FinishedRead ==
  ASSUME ScanInv, Finished, NEW x \in Scanned(scan.limit)
  PROVE  /\ x \in Subject
         /\ \A f \in Probed(scanAim) : got[x][f] # "unread" \/ Needless(x, f, got)
         /\ \A f \in Listed(scanAim) :
              got[x][f] # "unread" /\ (got[x][f] = "failed" => scanAim = "lifecycle")
         /\ x \notin altered =>
              \A f \in AllFields : got[x][f] \in {world[x][f], "unread", "failed"}
         /\ \A f \in AllFields : world[x][f] \in Domain(f)
<1>1. /\ scanAim \in Aims /\ scan.limit \in Nat /\ scan.phase = "probing" /\ Todo = {}
      /\ scan.at \in Nat
  BY ScanAssumption DEF ScanInv, ScanTypeOK, Aims, Finished
<1>2. x \in Subject
  <2>1. Len(Subjects) \in Nat /\ DOMAIN Subjects = 1..Len(Subjects)
    BY ScanAssumption
  <2> QED
    BY <1>1, <2>1 DEF Scanned, Subject, Reach, Least
<1>3. ASSUME NEW f \in Probed(scanAim)
      PROVE  got[x][f] # "unread" \/ Needless(x, f, got)
  <2> DEFINE p == <<x, f>>
  <2>1. p \in Plan(scan.limit) /\ p[1] = x /\ p[2] = f
    BY DEF Plan
  <2>2. Position(p) \in Nat
    BY <1>1, <2>1, PositionsDiffer
  <2> HIDE DEF p
  <2>3. Position(p) <= scan.at \/ Needless(x, f, got)
    BY <1>1, <2>1, <2>2 DEF Todo
  <2> QED
    BY <1>1, <2>1, <2>3 DEF ScanInv, ReadInOrder
<1>4. \A f \in Listed(scanAim) :
        got[x][f] # "unread" /\ (got[x][f] = "failed" => scanAim = "lifecycle")
  BY <1>1, <1>2 DEF ScanInv, ReadInOrder
<1>5. \A f \in AllFields : world[x][f] \in Domain(f)
  BY <1>2 DEF ScanInv, ScanTypeOK
<1>6. x \notin altered => \A f \in AllFields : got[x][f] \in {world[x][f], "unread", "failed"}
  BY <1>2 DEF ScanInv, AnswersTrue
<1> QED
  BY <1>2, <1>3, <1>4, <1>5, <1>6

\* A bucket whose probes all succeeded has the retention faults it is said to have.
LEMMA RetentionSeen ==
  ASSUME ScanInv, Finished, scanAim = "retention", NEW x \in Scanned(scan.limit),
         x \notin altered, x \notin BucketErrors, NEW code
  PROVE  Fault(code, got[x]) <=> Fault(code, world[x])
<1> DEFINE a == got[x]
           w == world[x]
<1>1. \A f \in AllFields : a[f] # "failed"
  BY FinishedRead DEF BucketErrors
<1>2. \A f \in Probed(scanAim) : a[f] = w[f] \/ Needless(x, f, got)
  <2>1. scanAim \in Aims
    BY DEF Aims
  <2> QED
    BY <1>1, <2>1, FinishedRead, FieldsOfAims
<1>3. a.lock = w.lock /\ a.rules = w.rules
  <2>1. ~Needless(x, "lock", got) /\ ~Needless(x, "rules", got)
    BY <1>1 DEF Needless
  <2> QED
    BY <1>2, <2>1, FieldsOfAims DEF Aims
<1>4. a.versioning = w.versioning \/ a.lock = "none"
  <2>1. Needless(x, "versioning", got) => a.lock = "none"
    BY <1>1 DEF Needless
  <2> QED
    BY <1>2, <2>1, FieldsOfAims DEF Aims
<1> HIDE DEF a, w
<1>5. RetentionFault(code, a) <=> RetentionFault(code, w)
  BY <1>3, <1>4 DEF RetentionFault
<1> QED
  BY <1>5 DEF Fault, a, w

\* What is found out about the exposure of a bucket is so; what is not is due to a
\* probe that failed.
LEMMA ExposureSeen ==
  ASSUME ScanInv, Finished, scanAim = "exposure", NEW x \in Scanned(scan.limit),
         x \notin altered, NEW code
  PROVE  /\ Fault(code, got[x]) => Fault(code, world[x])
         /\ Fault(code, world[x]) /\ ~Fault(code, got[x]) => Unseen(x, code)
<1> DEFINE a == got[x]
           w == world[x]
<1>1. /\ Probed(scanAim) = {"policy", "encryption", "versioning", "rules"}
      /\ Probed(scanAim) \subseteq AllFields /\ Fields(scanAim) \subseteq AllFields
      /\ Probed(scanAim) \subseteq Fields(scanAim)
  BY FieldsOfAims DEF Aims, Fields
<1>2. \A f \in Probed(scanAim) : a[f] = w[f] \/ a[f] = "failed"
  <2>1. \A f : ~Needless(x, f, got)
    BY DEF Needless
  <2> QED
    BY <1>1, <2>1, FinishedRead
<1>3. \A f \in AllFields : w[f] \in Domain(f)
  BY FinishedRead
<1>4. \A c, b : Fault(c, b) <=> ExposureFault(c, b)
  BY DEF Fault
<1> HIDE DEF a, w
<1>5. /\ a.policy \in {w.policy, "failed"} /\ a.encryption \in {w.encryption, "failed"}
      /\ a.versioning \in {w.versioning, "failed"} /\ a.rules \in {w.rules, "failed"}
  BY <1>1, <1>2
<1>6. ExposureFault(code, a) => ExposureFault(code, w)
  BY <1>5 DEF ExposureFault
<1>7. ASSUME ExposureFault(code, w), ~ExposureFault(code, a)
      PROVE  \E f \in Fields(scanAim) : /\ a[f] = "failed"
               /\ \E v \in Domain(f) : ~Fault(code, [w EXCEPT ![f] = v])
  <2>0. w \in [AllFields -> Values] /\ x \in Subject
    BY FinishedRead DEF ScanInv, ScanTypeOK, w
  <2>1. CASE code \in {"public write", "public read"}
    <3>1. a.policy = "failed"
      BY <1>5, <1>7, <2>1 DEF ExposureFault
    <3>2. "private" \in Domain("policy")
      BY DEF Domain
    <3>3. ~ExposureFault(code, [w EXCEPT !["policy"] = "private"])
      BY <1>1, <2>0, <2>1 DEF ExposureFault
    <3> QED
      BY <1>1, <1>4, <3>1, <3>2, <3>3
  <2>2. CASE code = "unencrypted"
    <3>1. a.encryption = "failed"
      BY <1>5, <1>7, <2>2 DEF ExposureFault
    <3>2. "sse" \in Domain("encryption")
      BY DEF Domain
    <3>3. ~ExposureFault(code, [w EXCEPT !["encryption"] = "sse"])
      BY <1>1, <2>0, <2>2 DEF ExposureFault
    <3> QED
      BY <1>1, <1>4, <3>1, <3>2, <3>3
  <2>3. CASE code = "not versioned"
    <3>1. a.versioning = "failed"
      BY <1>5, <1>7, <2>3 DEF ExposureFault
    <3>2. "Enabled" \in Domain("versioning")
      BY DEF Domain
    <3>3. ~ExposureFault(code, [w EXCEPT !["versioning"] = "Enabled"])
      BY <1>1, <2>0, <2>3 DEF ExposureFault
    <3> QED
      BY <1>1, <1>4, <3>1, <3>2, <3>3
  <2>4. CASE code = "no rules"
    <3>1. a.rules = "failed"
      BY <1>5, <1>7, <2>4 DEF ExposureFault
    <3>2. "tidy" \in Domain("rules")
      BY DEF Domain
    <3>3. ~ExposureFault(code, [w EXCEPT !["rules"] = "tidy"])
      BY <1>1, <2>0, <2>4 DEF ExposureFault
    <3> QED
      BY <1>1, <1>4, <3>1, <3>2, <3>3
  <2> QED
    BY <1>7, <2>1, <2>2, <2>3, <2>4 DEF ExposureFault
<1>8. Unseen(x, code) <=> \E f \in Fields(scanAim) : /\ a[f] = "failed"
               /\ \E v \in Domain(f) : ~Fault(code, [w EXCEPT ![f] = v])
  BY DEF Unseen, a, w
<1> QED
  BY <1>4, <1>6, <1>7, <1>8 DEF a, w

\* A gap of a bucket whose rules were read is one, and a gap that is not found is
\* due to a probe that failed.
LEMMA LifecycleSeen ==
  ASSUME ScanInv, Finished, scanAim = "lifecycle", NEW x \in Scanned(scan.limit),
         x \notin altered, NEW code
  PROVE  /\ Fault(code, got[x]) => Fault(code, world[x]) \/ got[x].rules = "failed"
         /\ Fault(code, world[x]) /\ ~Fault(code, got[x]) => Unseen(x, code)
<1> DEFINE a == got[x]
           w == world[x]
<1>1. /\ Probed(scanAim) = {"rules", "versioning", "uploads"} /\ "size" \in Listed(scanAim)
      /\ Fields(scanAim) = Probed(scanAim) \cup Listed(scanAim)
      /\ Fields(scanAim) \subseteq AllFields
  BY FieldsOfAims DEF Aims, Fields, Listed
<1>2. /\ a.rules \in {w.rules, "failed"} /\ a.versioning \in {w.versioning, "failed"}
      /\ a.size \in {w.size, "failed"}
      /\ a.uploads \in {w.uploads, "failed"} \/ (a.uploads = "unread" /\ a.rules = "tidy")
  <2>1. /\ \A f : Needless(x, f, got) => f = "uploads" /\ got[x].rules = "tidy"
    BY DEF Needless
  <2>2. \A f \in Fields(scanAim) \ {"uploads"} : a[f] # "unread"
    BY <1>1, <2>1, FinishedRead
  <2>3. \A f \in Fields(scanAim) : a[f] \in {w[f], "unread", "failed"}
    BY <1>1, FinishedRead
  <2>4. a["uploads"] # "unread" \/ a.rules = "tidy"
    BY <1>1, <2>1, FinishedRead
  <2> HIDE DEF a, w
  <2> QED
    BY <1>1, <2>2, <2>3, <2>4
<1>3. /\ w.rules \in {"none", "week", "tidy"} /\ w.uploads \in {"none", "stale"}
      /\ w.versioning \in {"Enabled", "Suspended"} /\ w.size \in {"small", "large"}
  <2>1. \A f \in AllFields : w[f] \in Domain(f)
    BY FinishedRead
  <2>2. /\ Domain("rules") = {"none", "week", "tidy"} /\ Domain("uploads") = {"none", "stale"}
        /\ Domain("versioning") = {"Enabled", "Suspended"}
        /\ Domain("size") = {"small", "large"}
    BY DEF Domain
  <2> HIDE DEF w
  <2> QED
    BY <2>1, <2>2 DEF AllFields
<1>4. \A c, b : Fault(c, b) <=> LifecycleFault(c, b)
  BY DEF Fault
<1>5. w \in [AllFields -> Values]
  BY FinishedRead DEF ScanInv, ScanTypeOK
<1>6. Unseen(x, code) <=> \E f \in Fields(scanAim) : /\ a[f] = "failed"
               /\ \E v \in Domain(f) : ~Fault(code, [w EXCEPT ![f] = v])
  BY DEF Unseen
<1> HIDE DEF a, w
<1>7. LifecycleFault(code, a) => LifecycleFault(code, w) \/ a.rules = "failed"
  BY <1>2, <1>3 DEF LifecycleFault
<1>8. ASSUME LifecycleFault(code, w), ~LifecycleFault(code, a)
      PROVE  Unseen(x, code)
  <2>1. CASE code = "old versions"
    <3>1. a.versioning = "failed"
      BY <1>2, <1>3, <1>8, <2>1 DEF LifecycleFault
    <3>2. "Suspended" \in Domain("versioning")
      BY DEF Domain
    <3>3. ~LifecycleFault(code, [w EXCEPT !["versioning"] = "Suspended"])
      BY <1>1, <1>5, <2>1 DEF LifecycleFault
    <3> QED
      BY <1>1, <1>4, <1>6, <3>1, <3>2, <3>3
  <2>2. CASE code = "uploads"
    <3>1. a.uploads = "failed"
      BY <1>2, <1>3, <1>8, <2>2 DEF LifecycleFault
    <3>2. "none" \in Domain("uploads")
      BY DEF Domain
    <3>3. ~LifecycleFault(code, [w EXCEPT !["uploads"] = "none"])
      BY <1>1, <1>5, <2>2 DEF LifecycleFault
    <3> QED
      BY <1>1, <1>4, <1>6, <3>1, <3>2, <3>3
  <2>3. CASE code = "large"
    <3>1. a.size = "failed"
      BY <1>2, <1>3, <1>8, <2>3 DEF LifecycleFault
    <3>2. "small" \in Domain("size")
      BY DEF Domain
    <3>3. ~LifecycleFault(code, [w EXCEPT !["size"] = "small"])
      BY <1>1, <1>5, <2>3 DEF LifecycleFault
    <3> QED
      BY <1>1, <1>4, <1>6, <3>1, <3>2, <3>3
  <2> QED
    BY <1>8, <2>1, <2>2, <2>3 DEF LifecycleFault
<1> QED
  BY <1>4, <1>7, <1>8 DEF a, w

\* A reason against a user whose group was read is one, and a reason that is not
\* found is due to the group.
LEMMA IamSeen ==
  ASSUME ScanInv, Finished, scanAim = "iam", NEW x \in Scanned(scan.limit),
         x \notin altered, NEW code
  PROVE  /\ Fault(code, got[x]) => Fault(code, world[x]) \/ got[x].group = "failed"
         /\ Fault(code, world[x]) /\ ~Fault(code, got[x]) => Unseen(x, code)
<1> DEFINE a == got[x]
           w == world[x]
<1>1. /\ Probed(scanAim) = {"group"} /\ Listed(scanAim) = {"own", "enabled"}
      /\ Fields(scanAim) = Probed(scanAim) \cup Listed(scanAim)
      /\ Fields(scanAim) \subseteq AllFields
  BY FieldsOfAims DEF Aims, Fields, Listed
<1>2. \A f \in AllFields : w[f] \in Domain(f)
  BY FinishedRead
<1>3. /\ w.own \in {"none", "data", "admin"} /\ w.group \in {"none", "admin"}
      /\ w.enabled \in {"yes", "no"}
  <2>1. /\ Domain("own") = {"none", "data", "admin"} /\ Domain("group") = {"none", "admin"}
        /\ Domain("enabled") = {"yes", "no"}
    BY DEF Domain
  <2> HIDE DEF w
  <2> QED
    BY <1>2, <2>1 DEF AllFields
<1>4. \A c, b : Fault(c, b) <=> IamFault(c, b)
  BY DEF Fault
<1>5. w \in [AllFields -> Values]
  BY FinishedRead DEF ScanInv, ScanTypeOK
<1>6. Unseen(x, code) <=> \E f \in Fields(scanAim) : /\ a[f] = "failed"
               /\ \E v \in Domain(f) : ~Fault(code, [w EXCEPT ![f] = v])
  BY DEF Unseen
<1>7. /\ a.group \in {w.group, "failed"} /\ a.own = w.own /\ a.enabled = w.enabled
  <2>1. \A f : ~Needless(x, f, got)
    BY DEF Needless
  <2>2. \A f \in Fields(scanAim) : a[f] # "unread" /\ a[f] \in {w[f], "unread", "failed"}
    BY <1>1, <2>1, FinishedRead
  <2>3. \A f \in Listed(scanAim) : a[f] # "failed"
    BY FinishedRead
  <2> HIDE DEF a, w
  <2> QED
    BY <1>1, <2>2, <2>3
<1> HIDE DEF a, w
<1>8. /\ Effective(w) = {w.own, w.group} \cap {"data", "admin"}
      /\ Effective(a) = {a.own, a.group} \cap {"data", "admin"}
  BY DEF Effective
<1>9. IamFault(code, a) => IamFault(code, w) \/ a.group = "failed"
  BY <1>7, <1>8 DEF IamFault
<1>10. ASSUME IamFault(code, w), ~IamFault(code, a)
       PROVE  Unseen(x, code)
  <2> DEFINE u == [w EXCEPT !["group"] = "none"]
  <2>1. /\ u.own = w.own /\ u.group = "none" /\ u.enabled = w.enabled
    BY <1>5 DEF AllFields
  <2>2. Effective(u) = {w.own, "none"} \cap {"data", "admin"}
    BY <2>1 DEF Effective
  <2> HIDE DEF u
  <2>3. code \in {"full admin", "disabled"} /\ a.group = "failed"
    BY <1>3, <1>7, <1>8, <1>10 DEF IamFault
  <2>4. ~IamFault(code, u)
    BY <1>3, <1>7, <1>8, <1>10, <2>1, <2>2, <2>3 DEF IamFault
  <2>5. "none" \in Domain("group") /\ "group" \in Fields(scanAim)
    BY <1>1 DEF Domain
  <2> QED
    BY <1>4, <1>6, <2>3, <2>4, <2>5 DEF u
<1> QED
  BY <1>4, <1>9, <1>10 DEF a, w

\* Five codes are finitely many.
LEMMA FiveAreFinite ==
  ASSUME NEW a, NEW b, NEW c, NEW d, NEW e
  PROVE  IsFiniteSet({a, b, c, d, e})
<1>1. IsFiniteSet({a})
  BY FS_Singleton
<1>2. IsFiniteSet({a} \cup {b})
  BY <1>1, FS_AddElement
<1>3. IsFiniteSet(({a} \cup {b}) \cup {c})
  BY <1>2, FS_AddElement
<1>4. IsFiniteSet((({a} \cup {b}) \cup {c}) \cup {d})
  BY <1>3, FS_AddElement
<1>5. IsFiniteSet(((({a} \cup {b}) \cup {c}) \cup {d}) \cup {e})
  BY <1>4, FS_AddElement
<1>6. ((({a} \cup {b}) \cup {c}) \cup {d}) \cup {e} = {a, b, c, d, e}
  OBVIOUS
<1> QED
  BY <1>5, <1>6

\* A report has finitely many rows.
LEMMA RowsAreFinite ==
  ASSUME scanAim \in Aims
  PROVE  IsFiniteSet(Rows)
<1>1. IsFiniteSet(Subject)
  <2>1. Len(Subjects) \in Nat /\ DOMAIN Subjects = 1..Len(Subjects)
    BY ScanAssumption
  <2>2. IsFiniteSet(1..Len(Subjects))
    BY <2>1, FS_Interval
  <2>3. Subjects \in Surjection(1..Len(Subjects), Subject)
    BY <2>1, ScanAssumption DEF Surjection, Subject
  <2> QED
    BY <2>2, <2>3, FS_Surjection
<1>2. IsFiniteSet(Codes)
  <2>1. CASE scanAim = "retention"
    BY <2>1, FiveAreFinite DEF Codes
  <2>2. CASE scanAim = "exposure"
    BY <2>2, FiveAreFinite DEF Codes
  <2>3. CASE scanAim = "lifecycle"
    <3>1. Codes = {"old versions", "uploads", "large", "large", "large"}
      BY <2>3 DEF Codes
    <3> QED
      BY <3>1, FiveAreFinite
  <2>4. CASE scanAim = "iam"
    <3>1. Codes = {"no policy", "full admin", "broad data", "disabled", "disabled"}
      BY <2>4 DEF Codes
    <3> QED
      BY <3>1, FiveAreFinite
  <2> QED
    BY <2>1, <2>2, <2>3, <2>4 DEF Aims
<1>3. IsFiniteSet(Codes \cup {"all"})
  BY <1>2, FS_AddElement
<1>4. IsFiniteSet(Subject \X (Codes \cup {"all"}))
  BY <1>1, <1>3, FS_Product
<1>5. Rows \subseteq Subject \X (Codes \cup {"all"})
  <2>1. Findings \subseteq Subject \X Codes
    BY DEF Findings
  <2>2. \A f \in Subject \X Codes : RowOf(f) \in Subject \X (Codes \cup {"all"})
    BY DEF RowOf
  <2> QED
    BY <2>1, <2>2 DEF Rows
<1> QED
  BY <1>4, <1>5, FS_Subset

\* Ranks are numbers, and a row ranks as its findings do.
LEMMA RanksAreNumbers ==
  ASSUME NEW f
  PROVE  /\ RankOf(f) \in Nat /\ RankOf(RowOf(f)) = RankOf(f)
         /\ RowOf(f)[1] = f[1]
<1>1. \A code : Weight(code) \in Nat
  BY DEF Weight
<1>2. ASSUME NEW x PROVE ScoreOf(x) \in Nat
  <2> DEFINE adds(code) == IF <<x, code>> \in Findings THEN Weight(code) ELSE 0
             n1 == adds("no policy")
             n2 == adds("full admin")
             n3 == adds("broad data")
             n4 == adds("disabled")
  <2>1. n1 \in Nat /\ n2 \in Nat /\ n3 \in Nat /\ n4 \in Nat
    BY <1>1
  <2>2. ScoreOf(x) = n1 + n2 + n3 + n4
    BY DEF ScoreOf
  <2> HIDE DEF n1, n2, n3, n4
  <2> QED
    BY <2>1, <2>2
<1>3. RowOf(f)[1] = f[1]
  BY DEF RowOf
<1> QED
  BY <1>1, <1>2, <1>3 DEF RankOf, RowOf

\* A finding that the report does not show lost its place to rows at least as bad,
\* and there are more rows than the limit.
LEMMA CutRowsAreBetter ==
  ASSUME ScanInv, NEW f \in Findings, f \notin Shown
  PROVE  Cardinality(Rows) > scan.limit /\ \A g \in Shown : RankOf(g) >= RankOf(f)
<1> DEFINE r == RowOf(f)
<1>1. scanAim \in Aims /\ scan.limit \in Nat
  BY ScanAssumption DEF ScanInv, ScanTypeOK, Aims
<1>2. scanAim \in {"retention", "iam"} /\ ~(Cardinality(Ahead(r)) < scan.limit)
  BY DEF Shown
<1>3. r \in Rows /\ \A q \in Rows : Ahead(q) \subseteq Rows
  BY DEF Rows, Ahead
<1>4. IsFiniteSet(Rows) /\ Cardinality(Rows) \in Nat
  BY <1>1, RowsAreFinite, FS_CardinalityType
<1>5. r \notin Ahead(r)
  <2>1. RankOf(r) \in Nat
    BY RanksAreNumbers
  <2>2. Place(r[1]) \in Nat
    <3>1. r[1] \in Subject
      BY RanksAreNumbers DEF Findings
    <3> QED
      BY <3>1, PlaceInListing
  <2>3. ~Collected(r, r)
    BY <2>2 DEF Collected
  <2> QED
    BY <2>1, <2>3 DEF Ahead
<1>6. Cardinality(Rows) > scan.limit
  <2>1. /\ IsFiniteSet(Rows \ {r}) /\ Cardinality(Rows \ {r}) = Cardinality(Rows) - 1
    BY <1>3, <1>4, FS_RemoveElement
  <2>2. Ahead(r) \in SUBSET (Rows \ {r})
    BY <1>3, <1>5
  <2>3. /\ IsFiniteSet(Ahead(r)) /\ Cardinality(Ahead(r)) <= Cardinality(Rows \ {r})
    BY <2>1, <2>2, FS_Subset
  <2>4. Cardinality(Ahead(r)) \in Nat
    BY <2>3, FS_CardinalityType
  <2> QED
    BY <1>1, <1>2, <1>4, <2>1, <2>3, <2>4
<1>7. ASSUME NEW g \in Shown
      PROVE  RankOf(g) >= RankOf(f)
  <2> DEFINE q == RowOf(g)
  <2>1. RankOf(g) \in Nat /\ RankOf(f) \in Nat /\ RankOf(q) = RankOf(g) /\ RankOf(r) = RankOf(f)
    BY RanksAreNumbers
  <2>2. g \in Findings /\ Cardinality(Ahead(q)) < scan.limit
    BY <1>2 DEF Shown
  <2>3. q \in Rows
    BY <2>2 DEF Rows
  <2>4. ASSUME RankOf(g) < RankOf(f)
        PROVE  FALSE
    <3> HIDE DEF r, q
    <3>1. ASSUME NEW k \in Ahead(r) PROVE k \in Ahead(q)
      <4>1. k \in Rows /\ (RankOf(k) > RankOf(r) \/ RankOf(k) = RankOf(r))
        BY <3>1 DEF Ahead
      <4>2. RankOf(k) \in Nat
        BY RanksAreNumbers
      <4>3. RankOf(k) > RankOf(q)
        BY <2>1, <2>4, <4>1, <4>2
      <4> QED
        BY <4>1, <4>3 DEF Ahead
    <3>2. IsFiniteSet(Ahead(q))
      BY <1>3, <1>4, <2>3, FS_Subset
    <3>3. Ahead(r) \in SUBSET Ahead(q)
      BY <3>1
    <3>4. IsFiniteSet(Ahead(r)) /\ Cardinality(Ahead(r)) <= Cardinality(Ahead(q))
      BY <3>2, <3>3, FS_Subset
    <3>5. Cardinality(Ahead(r)) \in Nat /\ Cardinality(Ahead(q)) \in Nat
      BY <3>2, <3>4, FS_CardinalityType
    <3> QED
      BY <1>1, <1>2, <2>2, <3>4, <3>5
  <2> QED
    BY <2>1, <2>4
<1> QED
  BY <1>6, <1>7

\* A kept scan reports no false fault ...
LEMMA ShownIsTrue ==
  ASSUME ScanInv
  PROVE  FindingsTrue
<1> SUFFICES ASSUME Finished, NEW f \in Shown, f[1] \notin altered
             PROVE  \/ Fault(f[2], world[f[1]])
                    \/ scanAim = "lifecycle" /\ got[f[1]].rules = "failed"
                    \/ scanAim = "iam" /\ got[f[1]].group = "failed"
  BY DEF FindingsTrue
<1>1. /\ f[1] \in Scanned(scan.limit) /\ f[1] \notin BucketErrors /\ Fault(f[2], got[f[1]])
  BY DEF Shown, Findings
<1>2. scanAim \in Aims
  BY DEF ScanInv, ScanTypeOK, Aims
<1> QED
  BY <1>1, <1>2, RetentionSeen, ExposureSeen, LifecycleSeen, IamSeen DEF Aims

\* ... and does not pass over a true one in silence.
LEMMA SilenceIsOwnedUp ==
  ASSUME ScanInv
  PROVE  NoFalseAllClear
<1> SUFFICES ASSUME Finished, NEW x \in Subject \ altered, NEW code \in Codes,
                    Fault(code, world[x]), <<x, code>> \notin Shown
             PROVE  \/ x \in BucketErrors
                    \/ Place(x) > Reach(scan.limit)
                    \/ /\ Cardinality(Rows) > scan.limit
                       /\ <<x, code>> \in Findings
                       /\ \A f \in Shown : RankOf(f) >= RankOf(<<x, code>>)
                    \/ scanAim # "retention" /\ Unseen(x, code)
  BY DEF NoFalseAllClear
<1>1. scanAim \in Aims /\ scan.limit \in Nat
  BY ScanAssumption DEF ScanInv, ScanTypeOK, Aims
<1>2. CASE x \notin Scanned(scan.limit)
  <2>1. /\ Place(x) \in 1..Len(Subjects) /\ Len(Subjects) \in Nat /\ Subjects[Place(x)] = x
    BY PlaceInListing
  <2>2. Reach(scan.limit) \in Nat
    BY <1>1, <2>1 DEF Reach, Least
  <2>3. Place(x) \notin 1..Reach(scan.limit)
    BY <1>2, <2>1 DEF Scanned
  <2> QED
    BY <2>1, <2>2, <2>3
<1>3. CASE x \in Scanned(scan.limit) /\ x \notin BucketErrors /\ Fault(code, got[x])
  <2>1. <<x, code>> \in Findings
    BY <1>3 DEF Findings
  <2> QED
    BY <2>1, CutRowsAreBetter
<1>4. CASE x \in Scanned(scan.limit) /\ x \notin BucketErrors /\ ~Fault(code, got[x])
  BY <1>1, <1>4, RetentionSeen, ExposureSeen, LifecycleSeen, IamSeen DEF Aims
<1> QED
  BY <1>2, <1>3, <1>4

\* Every scan, of any subjects and with any failures.
THEOREM ScanInvariant == ScanSpec => []ScanInv
<1>1. ScanInit => ScanInv
  <2> SUFFICES ASSUME ScanInit PROVE ScanInv
    OBVIOUS
  <2>1. /\ scan.phase = "idle" /\ got = [x \in Subject |-> Unread]
    BY DEF ScanInit, NoScan
  <2>2. AnswersTrue
    BY <2>1 DEF AnswersTrue, Unread
  <2>3. ReadInOrder
    BY <2>1 DEF ReadInOrder
  <2> QED
    BY <2>2, <2>3, ScanInitTypes DEF ScanInv
<1>2. ScanInv /\ [ScanNext]_scanVars => ScanInv'
  <2> SUFFICES ASSUME ScanInv, [ScanNext]_scanVars PROVE ScanInv'
    OBVIOUS
  <2>1. CASE UNCHANGED scanVars
    <3>1. UNCHANGED <<scanAim, world, scan, got, failures, altered>>
      BY <2>1 DEF scanVars
    <3>2. ScanTypeOK' /\ AnswersTrue'
      BY <3>1 DEF ScanInv, ScanTypeOK, AnswersTrue
    <3>3. ReadInOrder'
      BY <3>1, PlanStays DEF ScanInv, ReadInOrder
    <3> QED
      BY <3>2, <3>3 DEF ScanInv
  <2>2. Upcoming \subseteq Plan(scan.limit)
    BY DEF Upcoming, Todo
  <2> QED
    BY <2>1, <2>2, StartKeeps, ProbeKeeps, OthersKeep DEF ScanNext
<1> QED
  BY <1>1, <1>2, PTL DEF ScanSpec

\* A clean report means clean subjects, or owns up to what it did not see.
THEOREM AllClearsTrue == ScanSpec => []NoFalseAllClear
<1>1. ScanInv => NoFalseAllClear
  BY SilenceIsOwnedUp
<1> QED
  BY <1>1, ScanInvariant, PTL

\* What a scan reports is so.
THEOREM FindingsAreTrue == ScanSpec => []FindingsTrue
<1>1. ScanInv => FindingsTrue
  BY ShownIsTrue
<1> QED
  BY <1>1, ScanInvariant, PTL
=============================================================================
