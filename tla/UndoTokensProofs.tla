-------------------------- MODULE UndoTokensProofs --------------------------
(***************************************************************************)
(* Proofs that undo tokens tell the truth, for any number of agents and    *)
(* tokens and with every fault: an applied token was undone, a reported    *)
(* one is never replayed, and a token restores what its write replaced.    *)
(***************************************************************************)
EXTENDS UndoTokens, TLAPS

-----------------------------------------------------------------------------
(* The table of tokens *)

\* The elements of the table are tokens.
LEMMA TokensAreTokens ==
  ASSUME NEW s \in Seq(Token), NEW k \in 1..Len(s)
  PROVE  s[k] \in Token /\ s[k].prior \in Value
<1>1. s \in [1..Len(s) -> Token]
  OBVIOUS
<1>2. s[k] \in Token
  BY <1>1
<1> QED
  BY <1>2 DEF Token

\* UndoStore.mark: one token becomes applied, the others stay as they are.
LEMMA MarkToken ==
  ASSUME NEW s \in Seq(Token), NEW k \in 1..Len(s)
  PROVE  LET u == [s EXCEPT ![k].status = "applied"] IN
         /\ u \in Seq(Token) /\ Len(u) = Len(s)
         /\ u[k] = [prior |-> s[k].prior, status |-> "applied"]
         /\ \A i \in 1..Len(s) : i # k => u[i] = s[i]
<1> DEFINE t == [prior |-> s[k].prior, status |-> "applied"]
           u == [s EXCEPT ![k].status = "applied"]
<1>1. s \in [1..Len(s) -> Token]
  OBVIOUS
<1>2. s[k] \in Token /\ [s[k] EXCEPT !.status = "applied"] = t
  BY <1>1 DEF Token
<1>3. t \in Token
  BY <1>2 DEF Token
<1>4. u = [s EXCEPT ![k] = t]
  BY <1>1, <1>2
<1>5. u \in [1..Len(s) -> Token]
  BY <1>1, <1>3, <1>4
<1>6. u \in Seq(Token) /\ Len(u) = Len(s)
  BY <1>5
<1> QED
  BY <1>1, <1>4, <1>5, <1>6

\* UndoStore.record: a row is added at the end.
LEMMA AppendToken ==
  ASSUME NEW s \in Seq(Token), NEW t \in Token
  PROVE  /\ Append(s, t) \in Seq(Token)
         /\ Len(Append(s, t)) = Len(s) + 1
         /\ Append(s, t)[Len(s) + 1] = t
         /\ \A i \in 1..Len(s) : Append(s, t)[i] = s[i]
  OBVIOUS

-----------------------------------------------------------------------------
(* The two ways the table changes *)

\* What a step does to the table: nothing, one token at the end, or one mark.
SameTable == UNCHANGED <<tokens, reported>>

Grown(a) ==
  /\ pc[a] = "record" /\ prior[a] \in Value /\ Len(tokens) < MaxTokens
  /\ tokens' = Append(tokens, [prior |-> prior[a], status |-> "recorded"])
  /\ reported' = reported

Marked(a) ==
  /\ pc[a] = "mark" /\ applying[a] \in 1..Len(tokens)
  /\ tokens' = [tokens EXCEPT ![applying[a]].status = "applied"]
  /\ reported' = reported \cup {applying[a]}

\* A step marks the token an agent is applying, adds one, or leaves the table.
LEMMA TableKinds ==
  ASSUME UInv, [Next]_vars
  PROVE  SameTable \/ \E a \in Agent : Grown(a) \/ Marked(a)
<1>1. ASSUME NEW a \in Agent, RecordToken(a) PROVE SameTable \/ Grown(a)
  BY <1>1 DEF RecordToken, SameTable, Grown, UInv, PriorRead
<1>2. ASSUME NEW a \in Agent, Mark(a) PROVE Marked(a)
  <2>1. applying[a] \in 0..Len(tokens) /\ applying[a] # 0 /\ Len(tokens) \in Nat
    BY <1>2 DEF Mark, UInv, AgentPhase, TypeOK
  <2> QED
    BY <1>2, <2>1 DEF Mark, Marked
<1> QED
  BY <1>1, <1>2 DEF Next, StartWrite, LookUp, ReadPrior, Send, ServerApplies,
     ServerRejects, Confirmed, Refused, ResponseLost, MarkFails, Crash,
     StrayArrives, vars, SameTable

\* The table never shrinks, a token keeps its prior value, and an applied one
\* stays applied.
LEMMA TableGrows ==
  ASSUME UInv, [Next]_vars
  PROVE  /\ tokens' \in Seq(Token) /\ Len(tokens') <= MaxTokens
         /\ Len(tokens) <= Len(tokens')
         /\ \A k \in 1..Len(tokens) :
               tokens[k].status = "applied" => tokens'[k].status = "applied"
<1>1. tokens \in Seq(Token) /\ Len(tokens) \in Nat /\ Len(tokens) <= MaxTokens
      /\ MaxTokens \in Nat
  BY TokenAssumption DEF UInv, TypeOK
<1>2. CASE SameTable
  BY <1>1, <1>2 DEF SameTable
<1>3. ASSUME NEW a \in Agent, Grown(a)
      PROVE  /\ tokens' \in Seq(Token) /\ Len(tokens') <= MaxTokens
             /\ Len(tokens) <= Len(tokens')
             /\ \A k \in 1..Len(tokens) : tokens'[k] = tokens[k]
  <2>1. [prior |-> prior[a], status |-> "recorded"] \in Token
    BY <1>3 DEF Grown, Token
  <2> QED
    BY <1>1, <1>3, <2>1, AppendToken DEF Grown
<1>4. ASSUME NEW a \in Agent, Marked(a)
      PROVE  /\ tokens' \in Seq(Token) /\ Len(tokens') = Len(tokens)
             /\ tokens'[applying[a]].status = "applied"
             /\ \A k \in 1..Len(tokens) : k # applying[a] => tokens'[k] = tokens[k]
  <2>1. /\ tokens' \in Seq(Token) /\ Len(tokens') = Len(tokens)
        /\ tokens'[applying[a]]
             = [prior |-> tokens[applying[a]].prior, status |-> "applied"]
        /\ \A k \in 1..Len(tokens) : k # applying[a] => tokens'[k] = tokens[k]
    BY <1>1, <1>4, MarkToken DEF Marked
  <2> QED
    BY <2>1
<1> QED
  BY <1>1, <1>2, <1>3, <1>4, TableKinds

-----------------------------------------------------------------------------
(* The invariant is inductive *)

\* The invariant holds initially.
LEMMA UInitInv == Init => UInv
  BY TokenAssumption DEF Init, UInv, TypeOK, AgentPhase, PriorKnown, PriorRead,
     AppliedLanded, ReportedApplied, Pc, TokenId

\* A landing counts for its token, and no count ever goes down.
LEMMA LandsCount ==
  ASSUME TypeOK, NEW value, NEW k \in {0} \cup TokenId, Lands(value, k)
  PROVE  /\ undone' \in [TokenId -> 0..2]
         /\ \A i \in TokenId : undone[i] > 0 => undone'[i] > 0
         /\ k # 0 => undone'[k] > 0
<1>1. \A i \in TokenId : undone[i] \in 0..2
  BY DEF TypeOK
<1> QED
  BY <1>1 DEF Lands

\* Counts never go down in any step.
LEMMA CountsGrow ==
  ASSUME TypeOK, [Next]_vars
  PROVE  /\ undone' \in [TokenId -> 0..2]
         /\ \A i \in TokenId : undone[i] > 0 => undone'[i] > 0
<1>1. ASSUME NEW a \in Agent, ServerApplies(a)
      PROVE  /\ undone' \in [TokenId -> 0..2]
             /\ \A i \in TokenId : undone[i] > 0 => undone'[i] > 0
  <2>1. applying[a] \in {0} \cup TokenId /\ Lands(want[a], applying[a])
    BY <1>1 DEF ServerApplies, TypeOK
  <2> QED
    BY <2>1, LandsCount
<1>2. ASSUME NEW r \in stray, StrayArrives(r)
      PROVE  /\ undone' \in [TokenId -> 0..2]
             /\ \A i \in TokenId : undone[i] > 0 => undone'[i] > 0
  <2>1. r.token \in {0} \cup TokenId
    BY DEF TypeOK, Request
  <2>2. CASE Lands(r.value, r.token)
    BY <2>1, <2>2, LandsCount
  <2>3. CASE undone' = undone
    BY <2>3 DEF TypeOK
  <2> QED
    BY <1>2, <2>2, <2>3 DEF StrayArrives
<1>3. \/ \E a \in Agent : ServerApplies(a)
      \/ \E r \in stray : StrayArrives(r)
      \/ undone' = undone
  BY DEF Next, StartWrite, LookUp, ReadPrior, Send, ServerRejects, Confirmed,
     Refused, ResponseLost, RecordToken, Mark, MarkFails, Crash, vars
<1> QED
  BY <1>1, <1>2, <1>3 DEF TypeOK

\* A token is marked only after its inverse landed, and stays marked.
LEMMA UStepApplied ==
  ASSUME UInv, [Next]_vars
  PROVE  AppliedLanded' /\ ReportedApplied'
<1>1. /\ tokens \in Seq(Token) /\ Len(tokens) \in Nat
      /\ 1..Len(tokens) \subseteq TokenId
      /\ \A i \in TokenId : undone[i] > 0 => undone'[i] > 0
  BY TokenAssumption, CountsGrow DEF UInv, TypeOK, TokenId
<1>2. CASE SameTable
  BY <1>1, <1>2 DEF SameTable, UInv, AppliedLanded, ReportedApplied
<1>3. ASSUME NEW a \in Agent, Grown(a) PROVE AppliedLanded' /\ ReportedApplied'
  <2> DEFINE t == [prior |-> prior[a], status |-> "recorded"]
  <2>1. t \in Token /\ t.status # "applied"
    BY <1>3 DEF Grown, Token
  <2>2. /\ Len(tokens') = Len(tokens) + 1
        /\ tokens'[Len(tokens) + 1] = t
        /\ \A i \in 1..Len(tokens) : tokens'[i] = tokens[i]
    BY <1>1, <1>3, <2>1, AppendToken DEF Grown
  <2>3. reported' = reported
    BY <1>3 DEF Grown
  <2> HIDE DEF t
  <2>4. AppliedLanded'
    BY <1>1, <2>1, <2>2 DEF UInv, AppliedLanded
  <2>5. ReportedApplied'
    BY <1>1, <2>2, <2>3 DEF UInv, ReportedApplied
  <2> QED
    BY <2>4, <2>5
<1>4. ASSUME NEW a \in Agent, Marked(a) PROVE AppliedLanded' /\ ReportedApplied'
  <2> DEFINE j == applying[a]
  <2>1. j \in 1..Len(tokens) /\ pc[a] = "mark" /\ reported' = reported \cup {j}
    BY <1>4 DEF Marked
  <2>2. undone[j] > 0
    BY <2>1 DEF UInv, AgentPhase
  <2>3. /\ Len(tokens') = Len(tokens)
        /\ tokens'[j] = [prior |-> tokens[j].prior, status |-> "applied"]
        /\ \A k \in 1..Len(tokens) : k # j => tokens'[k] = tokens[k]
    BY <1>1, <1>4, <2>1, MarkToken DEF Marked
  <2>4. tokens'[j].status = "applied"
    BY <2>3
  <2> HIDE DEF j
  <2>5. AppliedLanded'
    BY <1>1, <2>1, <2>2, <2>3 DEF UInv, AppliedLanded
  <2>6. ReportedApplied'
    BY <1>1, <2>1, <2>3, <2>4 DEF UInv, ReportedApplied
  <2> QED
    BY <2>5, <2>6
<1> QED
  BY <1>2, <1>3, <1>4, TableKinds

\* The conjuncts that speak of one agent at a time.
AgentInv == AgentPhase /\ PriorKnown /\ PriorRead

\* The types of everything but the table, the counts and the reports.
AgentTypes ==
  /\ setting \in Value
  /\ pc \in [Agent -> Pc]
  /\ want \in [Agent -> Value \cup {NoValue}]
  /\ prior \in [Agent -> Value \cup {NoValue}]
  /\ applying \in [Agent -> {0} \cup TokenId]
  /\ wire \in [Agent -> {"none", "sent", "applied", "rejected"}]
  /\ stray \subseteq Request
  /\ disturbed \in [Agent -> BOOLEAN]
  /\ replaced \in [Agent -> Value \cup {NoValue}]

\* Leaving a call keeps the agents' part of the invariant.
LEMMA LeaveKeeps ==
  ASSUME UInv, NEW a \in Agent, pc[a] # "idle", Leave(a),
         setting' = setting, Len(tokens) <= Len(tokens'), Len(tokens') \in Nat,
         \A i \in TokenId : undone[i] > 0 => undone'[i] > 0
  PROVE  AgentTypes' /\ AgentInv'
<1>1. AgentTypes'
  <2>1. wire[a] = "sent" =>
          [value |-> want[a], token |-> applying[a]] \in Request
    BY DEF UInv, TypeOK, PriorRead, Request
  <2>2. stray' \subseteq Request
    BY <2>1 DEF Leave, UInv, TypeOK
  <2> QED
    BY <2>2 DEF Leave, AgentTypes, UInv, TypeOK, Pc
<1>2. AgentPhase'
  BY DEF Leave, UInv, TypeOK, AgentPhase
<1>3. PriorKnown'
  BY DEF Leave, UInv, TypeOK, PriorKnown
<1>4. PriorRead'
  BY DEF Leave, UInv, TypeOK, PriorRead
<1> QED
  BY <1>1, <1>2, <1>3, <1>4 DEF AgentInv

\* A change that lands for someone else disturbs the agents it may mislead.
LEMMA DisturbKeeps ==
  ASSUME UInv, NEW others \in SUBSET Agent, Disturb(others),
         NEW b \in others, wire'[b] = wire[b],
         UNCHANGED <<pc, prior>>, replaced'[b] = replaced[b], ~disturbed'[b]
  PROVE  /\ pc'[b] \in {"send", "sent"} /\ wire'[b] # "applied" =>
              prior'[b] = setting'
         /\ wire'[b] = "applied" => prior'[b] = replaced'[b]
  BY DEF UInv, TypeOK, PriorKnown, Disturb

\* What an agent's program point says of its request, its token and the prior
\* value it read survives every step, its own and those of others.
LEMMA UStepAgents ==
  ASSUME UInv, [Next]_vars
  PROVE  AgentTypes' /\ AgentInv'
<1>1. /\ Len(tokens) <= Len(tokens') /\ Len(tokens) \in Nat /\ Len(tokens') \in Nat
      /\ \A i \in TokenId : undone[i] > 0 => undone'[i] > 0
      /\ 1..Len(tokens) \subseteq TokenId
  BY TableGrows, CountsGrow, TokenAssumption DEF UInv, TypeOK, TokenId
<1>2. ASSUME NEW a \in Agent,
             Refused(a) \/ ResponseLost(a) \/ Mark(a) \/ MarkFails(a) \/ Crash(a)
      PROVE  AgentTypes' /\ AgentInv'
  <2>1. pc[a] # "idle" /\ Leave(a) /\ setting' = setting
    BY <1>2 DEF Refused, ResponseLost, Mark, MarkFails, Crash
  <2> QED
    BY <1>1, <2>1, LeaveKeeps
<1>3. ASSUME NEW a \in Agent, RecordToken(a) PROVE AgentTypes' /\ AgentInv'
  <2>1. CASE applying[a] = 0 /\ Leave(a)
    BY <1>1, <1>3, <2>1, LeaveKeeps DEF RecordToken
  <2>2. CASE applying[a] # 0 /\ Goto(a, "record", "mark")
             /\ UNCHANGED <<want, prior, applying, wire, disturbed, replaced, stray>>
    <3>1. undone' = undone /\ setting' = setting
      BY <1>3 DEF RecordToken
    <3>2. AgentTypes'
      BY <2>2, <3>1 DEF AgentTypes, Goto, UInv, TypeOK, Pc
    <3>3. AgentPhase'
      BY <1>1, <2>2, <3>1 DEF Goto, UInv, TypeOK, AgentPhase
    <3>4. PriorKnown' /\ PriorRead'
      BY <2>2, <3>1 DEF Goto, UInv, TypeOK, PriorKnown, PriorRead, AgentPhase
    <3> QED
      BY <3>2, <3>3, <3>4 DEF AgentInv
  <2> QED
    BY <1>3, <2>1, <2>2 DEF RecordToken
<1>4. ASSUME NEW a \in Agent, NEW v \in Value, StartWrite(a, v)
      PROVE  AgentTypes' /\ AgentInv'
  BY <1>1, <1>4 DEF StartWrite, Goto, UInv, TypeOK, Pc, AgentTypes, AgentInv,
     AgentPhase, PriorKnown, PriorRead
<1>5. ASSUME NEW a \in Agent, NEW k \in TokenId, LookUp(a, k)
      PROVE  AgentTypes' /\ AgentInv'
  <2>1. k \in 1..Len(tokens) /\ tokens[k].prior \in Value
    BY <1>5, TokensAreTokens DEF LookUp, UInv, TypeOK
  <2> QED
    BY <1>1, <1>5, <2>1 DEF LookUp, Goto, UInv, TypeOK, Pc, AgentTypes,
       AgentInv, AgentPhase, PriorKnown, PriorRead
<1>6. ASSUME NEW a \in Agent, ReadPrior(a) PROVE AgentTypes' /\ AgentInv'
  BY <1>1, <1>6 DEF ReadPrior, Goto, UInv, TypeOK, Pc, AgentTypes, AgentInv,
     AgentPhase, PriorKnown, PriorRead
<1>7. ASSUME NEW a \in Agent, Send(a) PROVE AgentTypes' /\ AgentInv'
  BY <1>1, <1>7 DEF Send, Goto, UInv, TypeOK, Pc, AgentTypes, AgentInv,
     AgentPhase, PriorKnown, PriorRead
<1>8. ASSUME NEW a \in Agent, ServerRejects(a) PROVE AgentTypes' /\ AgentInv'
  BY <1>1, <1>8 DEF ServerRejects, UInv, TypeOK, Pc, AgentTypes, AgentInv,
     AgentPhase, PriorKnown, PriorRead
<1>9. ASSUME NEW a \in Agent, Confirmed(a) PROVE AgentTypes' /\ AgentInv'
  BY <1>1, <1>9 DEF Confirmed, Goto, UInv, TypeOK, Pc, AgentTypes, AgentInv,
     AgentPhase, PriorKnown, PriorRead
<1>10. ASSUME NEW a \in Agent, ServerApplies(a) PROVE AgentTypes' /\ AgentInv'
  <2>1. /\ wire[a] = "sent" /\ pc[a] \in {"sent", "record", "mark"}
        /\ want[a] \in Value /\ applying[a] \in {0} \cup TokenId
        /\ setting' = want[a] /\ Lands(want[a], applying[a])
    BY <1>10 DEF ServerApplies, Lands, UInv, TypeOK, AgentPhase, PriorRead
  <2>2. applying[a] # 0 => undone'[applying[a]] > 0
    BY <2>1, LandsCount DEF UInv
  <2>3. AgentTypes'
    BY <1>10, <2>1 DEF ServerApplies, Disturb, AgentTypes, UInv, TypeOK
  <2>4. AgentPhase'
    BY <1>1, <1>10, <2>1, <2>2 DEF ServerApplies, UInv, TypeOK, AgentPhase
  <2>5. PriorKnown'
    <3> SUFFICES ASSUME NEW b \in Agent, ~disturbed'[b]
                 PROVE  /\ pc'[b] \in {"send", "sent"} /\ wire'[b] # "applied" =>
                             prior'[b] = setting'
                        /\ wire'[b] = "applied" => prior'[b] = replaced'[b]
      BY DEF PriorKnown
    <3>1. CASE b = a
      <4>1. pc[a] = "sent" /\ ~disturbed[a]
        BY <1>10, <2>1, <3>1 DEF ServerApplies, Disturb, UInv, AgentPhase
      <4> QED
        BY <1>10, <3>1, <4>1 DEF ServerApplies, UInv, TypeOK, PriorKnown
    <3>2. CASE b # a
      <4>1. /\ b \in Agent \ {a} /\ Disturb(Agent \ {a})
            /\ wire'[b] = wire[b] /\ replaced'[b] = replaced[b]
            /\ UNCHANGED <<pc, prior>>
        BY <1>10, <3>2 DEF ServerApplies, UInv, TypeOK
      <4> QED
        BY <4>1, DisturbKeeps
    <3> QED
      BY <3>1, <3>2
  <2>6. PriorRead'
    BY <1>10 DEF ServerApplies, UInv, PriorRead
  <2> QED
    BY <2>3, <2>4, <2>5, <2>6 DEF AgentInv
<1>11. ASSUME NEW r \in stray, StrayArrives(r) PROVE AgentTypes' /\ AgentInv'
  <2>1. r.value \in Value /\ stray' \subseteq Request
    BY <1>11 DEF StrayArrives, UInv, TypeOK, Request
  <2>2. UNCHANGED <<tokens, pc, want, prior, applying, wire, replaced>>
    BY <1>11 DEF StrayArrives
  <2>3. AgentPhase' /\ PriorRead'
    BY <1>1, <2>2 DEF UInv, TypeOK, AgentPhase, PriorRead
  <2>4. CASE setting' = r.value /\ Disturb(Agent)
    <3>1. AgentTypes'
      BY <2>1, <2>2, <2>4 DEF Disturb, AgentTypes, UInv, TypeOK
    <3>2. PriorKnown'
      BY <2>2, <2>4, DisturbKeeps DEF PriorKnown
    <3> QED
      BY <2>3, <3>1, <3>2 DEF AgentInv
  <2>5. CASE UNCHANGED <<setting, disturbed>>
    BY <2>1, <2>2, <2>3, <2>5 DEF AgentTypes, AgentInv, UInv, TypeOK, PriorKnown
  <2> QED
    BY <1>11, <2>4, <2>5 DEF StrayArrives, Lands
<1>12. CASE UNCHANGED vars
  BY <1>12 DEF vars, agentVars, UInv, TypeOK, AgentTypes, AgentInv, AgentPhase,
     PriorKnown, PriorRead
<1> QED
  BY <1>2, <1>3, <1>4, <1>5, <1>6, <1>7, <1>8, <1>9, <1>10, <1>11, <1>12 DEF Next

\* Every step keeps the invariant.
LEMMA UStepInv == UInv /\ [Next]_vars => UInv'
<1> SUFFICES ASSUME UInv, [Next]_vars PROVE UInv'
  OBVIOUS
<1>1. AgentTypes' /\ AgentInv'
  BY UStepAgents
<1>2. AppliedLanded' /\ ReportedApplied'
  BY UStepApplied
<1>3. tokens' \in Seq(Token) /\ Len(tokens') <= MaxTokens /\ Len(tokens') \in Nat
  BY TableGrows
<1>4. undone' \in [TokenId -> 0..2]
  BY CountsGrow DEF UInv
<1>5. reported' \subseteq TokenId
  BY <1>2, <1>3, TokenAssumption DEF ReportedApplied, TokenId
<1> QED
  BY <1>1, <1>2, <1>3, <1>4, <1>5 DEF UInv, TypeOK, AgentTypes, AgentInv

\* The invariant of the undo machinery holds throughout.
THEOREM UInductive == Spec => []UInv
<1>1. Init => UInv
  BY UInitInv
<1>2. UInv /\ [Next]_vars => UInv'
  BY UStepInv
<1> QED
  BY <1>1, <1>2, PTL DEF Spec

\* A token says "applied" only if its inverse has landed.
THEOREM AppliedWasLanded == Spec => []AppliedLanded
<1>1. UInv => AppliedLanded
  BY DEF UInv
<1> QED
  BY <1>1, UInductive, PTL

\* No undo_apply that starts after a caller was told "applied" passes the
\* status check.
THEOREM NoReplay == Spec => NoReplayAfterReport
<1> DEFINE Fresh == \A a \in Agent : pc[a] = "idle" /\ pc'[a] = "prior" =>
                       applying'[a] \notin reported
<1>1. ASSUME UInv, [Next]_vars PROVE Fresh
  <2> SUFFICES ASSUME NEW a \in Agent, pc[a] = "idle", pc'[a] = "prior"
               PROVE  applying'[a] \notin reported
    OBVIOUS
  <2>1. wire[a] = "none"
    BY <1>1 DEF UInv, TypeOK, AgentPhase
  <2>2. \/ \E v \in Value : StartWrite(a, v)
        \/ \E k \in TokenId : LookUp(a, k)
    BY <1>1 DEF Next, StartWrite, LookUp, ReadPrior, Send, ServerApplies,
       ServerRejects, Confirmed, Refused, ResponseLost, RecordToken, Mark,
       MarkFails, Crash, StrayArrives, Leave, Goto, UInv, TypeOK, vars, agentVars
  <2>3. CASE \E v \in Value : StartWrite(a, v)
    <3>1. applying'[a] = 0 /\ 0 \notin reported
      BY <1>1, <2>3, TokenAssumption
         DEF StartWrite, UInv, TypeOK, AgentPhase, TokenId
    <3> QED
      BY <3>1
  <2>4. ASSUME NEW k \in TokenId, LookUp(a, k) PROVE applying'[a] \notin reported
    <3>1. applying'[a] = k /\ tokens[k].status # "applied"
      BY <1>1, <2>4 DEF LookUp, UInv, TypeOK
    <3> QED
      BY <1>1, <3>1 DEF UInv, ReportedApplied
  <2> QED
    BY <2>2, <2>3, <2>4
<1>2. UInv /\ [Next]_vars => [Fresh]_vars
  BY <1>1
<1> QED
  BY <1>2, UInductive, PTL DEF Spec, NoReplayAfterReport

\* A new token restores the value its write replaced, unless another change
\* came in between.
THEOREM NewTokensRestore == Spec => TokenRestores
<1> DEFINE Restores ==
        \A k \in 1..Len(tokens') : k > Len(tokens) =>
           \E a \in Agent :
              /\ pc[a] = "record"
              /\ disturbed[a] \/ tokens'[k].prior = replaced[a]
<1>1. ASSUME UInv, [Next]_vars PROVE Restores
  <2>1. tokens \in Seq(Token) /\ Len(tokens) \in Nat
    BY <1>1 DEF UInv, TypeOK
  <2>2. CASE SameTable
    BY <2>1, <2>2 DEF SameTable
  <2>3. ASSUME NEW a \in Agent, Grown(a) PROVE Restores
    <3> DEFINE t == [prior |-> prior[a], status |-> "recorded"]
    <3>1. t \in Token /\ t.prior = prior[a]
      BY <2>3 DEF Grown, Token
    <3>2. /\ Len(tokens') = Len(tokens) + 1
          /\ tokens'[Len(tokens) + 1] = t
      BY <2>1, <2>3, <3>1, AppendToken DEF Grown
    <3>3. disturbed[a] \/ prior[a] = replaced[a]
      BY <1>1, <2>3 DEF Grown, UInv, AgentPhase, PriorKnown
    <3>4. pc[a] = "record"
      BY <2>3 DEF Grown
    <3> HIDE DEF t
    <3>5. \A k \in 1..Len(tokens') : k > Len(tokens) => k = Len(tokens) + 1
      BY <2>1, <3>2
    <3> QED
      BY <3>1, <3>2, <3>3, <3>4, <3>5
  <2>4. ASSUME NEW a \in Agent, Marked(a) PROVE Restores
    <3>1. Len(tokens') = Len(tokens)
      BY <2>1, <2>4, MarkToken DEF Marked
    <3> QED
      BY <2>1, <3>1
  <2> QED
    BY <1>1, <2>2, <2>3, <2>4, TableKinds
<1>2. UInv /\ [Next]_vars => [Restores]_vars
  BY <1>1
<1> QED
  BY <1>2, UInductive, PTL DEF Spec, TokenRestores
=============================================================================
