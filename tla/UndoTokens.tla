----------------------------- MODULE UndoTokens -----------------------------
(***************************************************************************)
(* Undo tokens over one setting of one bucket (its policy, versioning,     *)
(* tags, ...).  A governed write reads the prior value, sends the change   *)
(* and records a token whose inverse is the same tool called with that     *)
(* prior value; undo_apply looks a token up, calls its inverse through the *)
(* same wrapper (which reads, sends and records in turn) and marks the     *)
(* token applied.  Agents of several processes share undo.db and the       *)
(* server; nothing serializes them.                                        *)
(***************************************************************************)
EXTENDS Naturals, Sequences, FiniteSets

CONSTANTS
  Agent,      \* the processes and threads that issue writes and undos
  Value,      \* the values of the setting
  NoValue,    \* an agent's local variable that holds nothing
  MaxTokens,  \* bound: tokens undo.db takes before record fails
  MaxStray,   \* bound: requests that outlive their sender at a time
  Faults      \* whether responses are lost, agents die and undo.db fails

ASSUME TokenAssumption == /\ MaxTokens \in Nat /\ MaxStray \in Nat
                          /\ Faults \in BOOLEAN
                          /\ NoValue \notin Value

VARIABLES
  setting,    \* the value the server holds
  tokens,     \* the rows of undo_log
  pc,         \* where each agent is in its write or undo
  want,       \* the value the agent's request sets
  prior,      \* the value the agent read before sending
  applying,   \* the token the agent is applying, 0 for a write of its own
  wire,       \* what became of the agent's request
  stray,      \* requests in flight whose sender gave up or died
  disturbed,  \* another change landed since the agent read the prior value
  replaced,   \* the value the agent's request replaced when it landed
  undone,     \* how often the inverse of each token has landed, up to 2
  reported    \* the tokens some caller was told are applied

agentVars == <<pc, want, prior, applying, wire, disturbed, replaced>>
vars == <<setting, tokens, agentVars, stray, undone, reported>>

Token   == [prior : Value, status : {"recorded", "applied"}]
TokenId == 1..MaxTokens
Request == [value : Value, token : {0} \cup TokenId]
Pc      == {"idle", "prior", "send", "sent", "record", "mark"}

TypeOK ==
  /\ setting \in Value
  /\ tokens \in Seq(Token) /\ Len(tokens) <= MaxTokens
  /\ pc \in [Agent -> Pc]
  /\ want \in [Agent -> Value \cup {NoValue}]
  /\ prior \in [Agent -> Value \cup {NoValue}]
  /\ applying \in [Agent -> {0} \cup TokenId]
  /\ wire \in [Agent -> {"none", "sent", "applied", "rejected"}]
  /\ stray \subseteq Request
  /\ disturbed \in [Agent -> BOOLEAN]
  /\ replaced \in [Agent -> Value \cup {NoValue}]
  /\ undone \in [TokenId -> 0..2]
  /\ reported \subseteq TokenId

Init ==
  /\ setting \in Value
  /\ want = [a \in Agent |-> NoValue]
  /\ prior = [a \in Agent |-> NoValue]
  /\ replaced = [a \in Agent |-> NoValue]
  /\ tokens = <<>>
  /\ pc = [a \in Agent |-> "idle"]
  /\ applying = [a \in Agent |-> 0]
  /\ wire = [a \in Agent |-> "none"]
  /\ stray = {}
  /\ disturbed = [a \in Agent |-> FALSE]
  /\ undone = [k \in TokenId |-> 0]
  /\ reported = {}

-----------------------------------------------------------------------------
(* Entering a write or an undo *)

Goto(a, from, to) == pc[a] = from /\ pc' = [pc EXCEPT ![a] = to]

StartWrite(a, v) ==
  /\ Goto(a, "idle", "prior")
  /\ want' = [want EXCEPT ![a] = v]
  /\ UNCHANGED <<setting, tokens, applying, prior, wire, stray, disturbed, replaced,
                 undone, reported>>

\* Faulty variant of LookUp: the status is not checked.
LookUpUnchecked(a, k) ==
  /\ Goto(a, "idle", "prior")
  /\ k \in 1..Len(tokens)
  /\ want' = [want EXCEPT ![a] = tokens[k].prior]
  /\ applying' = [applying EXCEPT ![a] = k]
  /\ UNCHANGED <<setting, tokens, prior, wire, stray, disturbed, replaced,
                 undone, reported>>

\* undo_apply: store.get and the status check.
LookUp(a, k) ==
  /\ Goto(a, "idle", "prior")
  /\ k \in 1..Len(tokens)
  /\ tokens[k].status = "recorded"
  /\ want' = [want EXCEPT ![a] = tokens[k].prior]
  /\ applying' = [applying EXCEPT ![a] = k]
  /\ UNCHANGED <<setting, tokens, prior, wire, stray, disturbed, replaced,
                 undone, reported>>

-----------------------------------------------------------------------------
(* The write tool, called by an agent or as the inverse of a token *)

\* Faulty variant of ReadPrior: the descriptor is built from the parameters.
ReadPriorFromParams(a) ==
  /\ Goto(a, "prior", "send")
  /\ prior' = [prior EXCEPT ![a] = want[a]]
  /\ UNCHANGED <<setting, tokens, want, applying, wire, stray, disturbed,
                 replaced, undone, reported>>

ReadPrior(a) ==
  /\ Goto(a, "prior", "send")
  /\ prior' = [prior EXCEPT ![a] = setting]
  /\ UNCHANGED <<setting, tokens, want, applying, wire, stray, disturbed,
                 replaced, undone, reported>>

Send(a) ==
  /\ Goto(a, "send", "sent")
  /\ wire' = [wire EXCEPT ![a] = "sent"]
  /\ UNCHANGED <<setting, tokens, want, prior, applying, stray, disturbed,
                 replaced, undone, reported>>

\* A change reaches the setting, on behalf of token k if k # 0; every agent
\* between its read and its own landing is now working from a stale value.
Lands(value, k) ==
  /\ setting' = value
  /\ undone' = [i \in TokenId |-> IF i = k /\ undone[i] < 2
                                  THEN undone[i] + 1 ELSE undone[i]]

Disturb(others) ==
  disturbed' = [b \in Agent |->
                  \/ disturbed[b]
                  \/ /\ b \in others
                     /\ pc[b] \in {"send", "sent"} /\ wire[b] # "applied" ]

ServerApplies(a) ==
  /\ wire[a] = "sent"
  /\ wire' = [wire EXCEPT ![a] = "applied"]
  /\ replaced' = [replaced EXCEPT ![a] = setting]
  /\ Lands(want[a], applying[a])
  /\ Disturb(Agent \ {a})
  /\ UNCHANGED <<tokens, pc, want, prior, applying, stray, reported>>

ServerRejects(a) ==
  /\ wire[a] = "sent"
  /\ wire' = [wire EXCEPT ![a] = "rejected"]
  /\ UNCHANGED <<setting, tokens, pc, want, prior, applying, stray, disturbed,
                 replaced, undone, reported>>

\* The request of an agent that is gone arrives after all, or never.
StrayArrives(r) ==
  /\ stray' = stray \ {r}
  /\ \/ /\ Lands(r.value, r.token)
        /\ Disturb(Agent)
     \/ UNCHANGED <<setting, undone, disturbed>>
  /\ UNCHANGED <<tokens, pc, want, prior, applying, wire, replaced, reported>>

\* Faulty variant of Confirmed: any answer will do.
ConfirmedUnchecked(a) ==
  /\ Goto(a, "sent", "record")
  /\ UNCHANGED <<setting, tokens, want, prior, applying, wire, stray,
                 disturbed, replaced, undone, reported>>

Confirmed(a) ==
  /\ wire[a] = "applied"
  /\ Goto(a, "sent", "record")
  /\ UNCHANGED <<setting, tokens, want, prior, applying, wire, stray,
                 disturbed, replaced, undone, reported>>

\* Leaving the call, whatever its request is doing: its locals are gone.
Leave(a) ==
  /\ pc' = [pc EXCEPT ![a] = "idle"]
  /\ want' = [want EXCEPT ![a] = NoValue]
  /\ prior' = [prior EXCEPT ![a] = NoValue]
  /\ applying' = [applying EXCEPT ![a] = 0]
  /\ wire' = [wire EXCEPT ![a] = "none"]
  /\ disturbed' = [disturbed EXCEPT ![a] = FALSE]
  /\ replaced' = [replaced EXCEPT ![a] = NoValue]
  /\ stray' = IF wire[a] = "sent" /\ Cardinality(stray) < MaxStray
              THEN stray \cup {[value |-> want[a], token |-> applying[a]]}
              ELSE stray

\* Faulty variant of Refused: undo_apply marks whatever the inverse returned.
RefusedMarks(a) ==
  /\ \/ pc[a] \in {"prior", "send"}
     \/ pc[a] = "sent" /\ wire[a] = "rejected"
  /\ tokens' = IF applying[a] = 0 THEN tokens
               ELSE [tokens EXCEPT ![applying[a]].status = "applied"]
  /\ Leave(a)
  /\ UNCHANGED <<setting, undone, reported>>

\* A guard refuses or the server answers with an error: an error payload, so
\* no token, and undo_apply leaves the token it was applying recorded.
Refused(a) ==
  /\ \/ pc[a] \in {"prior", "send"}
     \/ pc[a] = "sent" /\ wire[a] = "rejected"
  /\ Leave(a)
  /\ UNCHANGED <<setting, tokens, undone, reported>>

\* The same error payload, although the change may have landed or may yet.
ResponseLost(a) ==
  /\ Faults
  /\ pc[a] = "sent"
  /\ Leave(a)
  /\ UNCHANGED <<setting, tokens, undone, reported>>

\* _record_undo and UndoStore.record, best-effort.
RecordToken(a) ==
  /\ pc[a] = "record"
  /\ \/ /\ Len(tokens) < MaxTokens
        /\ tokens' = Append(tokens, [prior |-> prior[a],
                                     status |-> "recorded"])
     \/ /\ Faults \/ Len(tokens) = MaxTokens
        /\ UNCHANGED tokens
  /\ \/ applying[a] = 0 /\ Leave(a)
     \/ /\ applying[a] # 0
        /\ Goto(a, "record", "mark")
        /\ UNCHANGED <<want, prior, applying, wire, disturbed, replaced, stray>>
  /\ UNCHANGED <<setting, undone, reported>>

-----------------------------------------------------------------------------
(* The end of undo_apply, and crashes *)

Mark(a) ==
  /\ pc[a] = "mark"
  /\ tokens' = [tokens EXCEPT ![applying[a]].status = "applied"]
  /\ reported' = reported \cup {applying[a]}
  /\ Leave(a)
  /\ UNCHANGED <<setting, undone>>

\* store.mark raises, or the inverse raised because its audit row could not
\* be resolved: the caller gets an error payload.
MarkFails(a) ==
  /\ Faults
  /\ pc[a] = "mark"
  /\ Leave(a)
  /\ UNCHANGED <<setting, tokens, undone, reported>>

\* The agent's process dies anywhere; a new one takes its place.
Crash(a) ==
  /\ Faults
  /\ pc[a] # "idle"
  /\ Leave(a)
  /\ UNCHANGED <<setting, tokens, undone, reported>>

Next ==
  \/ \E a \in Agent :
        \/ \E v \in Value : StartWrite(a, v)
        \/ \E k \in TokenId : LookUp(a, k)
        \/ ReadPrior(a) \/ Send(a) \/ ServerApplies(a) \/ ServerRejects(a)
        \/ Confirmed(a) \/ Refused(a) \/ ResponseLost(a) \/ RecordToken(a)
        \/ Mark(a) \/ MarkFails(a) \/ Crash(a)
  \/ \E r \in stray : StrayArrives(r)

Spec == Init /\ [][Next]_vars

-----------------------------------------------------------------------------
(* Properties *)

\* A token says "applied" only if its inverse has landed, whatever responses
\* were lost and whoever died (tools/undo.py:183-187).
AppliedLanded ==
  \A k \in 1..Len(tokens) : tokens[k].status = "applied" => undone[k] > 0

\* Once a caller was told that a token is applied, no later undo_apply gets
\* past the status check (tools/undo.py:133-136, 184-187).
NoReplayAfterReport ==
  [][\A a \in Agent : pc[a] = "idle" /\ pc'[a] = "prior" =>
        applying'[a] \notin reported]_vars

\* A new token restores the very value its write replaced, unless another
\* change landed between the read of that value and the write.
TokenRestores ==
  [][\A k \in 1..Len(tokens') : k > Len(tokens) =>
        \E a \in Agent :
           /\ pc[a] = "record"
           /\ disturbed[a] \/ tokens'[k].prior = replaced[a] ]_vars

\* "A token can only be applied once" (tools/undo.py:122).
AppliedOnce == \A k \in TokenId : undone[k] <= 1

-----------------------------------------------------------------------------
(* The inductive strengthening of AppliedLanded, NoReplayAfterReport and     *)
(* TokenRestores                                                             *)

\* Where an agent's program counter is, against its request and its token.
AgentPhase ==
  \A a \in Agent :
    /\ applying[a] \in 0..Len(tokens)
    /\ pc[a] = "idle" => applying[a] = 0
    /\ wire[a] # "none" => pc[a] \in {"sent", "record", "mark"}
    /\ pc[a] \in {"record", "mark"} => wire[a] = "applied"
    /\ pc[a] = "mark" => applying[a] # 0
    /\ wire[a] = "applied" /\ applying[a] # 0 => undone[applying[a]] > 0

\* An undisturbed agent knows the value it is about to replace, or replaced.
PriorKnown ==
  \A a \in Agent : ~disturbed[a] =>
    /\ pc[a] \in {"send", "sent"} /\ wire[a] # "applied" => prior[a] = setting
    /\ wire[a] = "applied" => prior[a] = replaced[a]

\* An agent has read the value it would restore before it sends.
PriorRead ==
  \A a \in Agent : /\ pc[a] # "idle" => want[a] \in Value
                   /\ pc[a] \notin {"idle", "prior"} => prior[a] \in Value

\* What a caller was told is in the store.
ReportedApplied ==
  \A k \in reported : k \in 1..Len(tokens) /\ tokens[k].status = "applied"

UInv == /\ TypeOK /\ AgentPhase /\ PriorKnown /\ PriorRead
        /\ AppliedLanded /\ ReportedApplied
=============================================================================
