--------------------------- MODULE WriteAheadAudit ---------------------------
(***************************************************************************)
(* What the audit trail promises about writes, independently of how the    *)
(* governance package keeps it (SECURITY.md, "Audit availability"):        *)
(* a change reaches the server only after its intent is on file, the       *)
(* intent stays on file until it gets a verdict, a verdict is final, and   *)
(* neither "ok" nor "error" is ever a lie.  GovernedCalls implements this. *)
(***************************************************************************)
EXTENDS FiniteSets

CONSTANT Call      \* the write calls

VARIABLES record,  \* record[c]: the statuses the trail shows for call c
          live     \* live[c]: call c's change has landed on the server

vars == <<record, live>>

Verdict == {"ok", "error", "unknown", "budget_exceeded"}
Status  == Verdict \cup {"pending"}

TypeOK == /\ record \in [Call -> SUBSET Status]
          /\ live \in [Call -> BOOLEAN]

Init == /\ record = [c \in Call |-> {}]
        /\ live = [c \in Call |-> FALSE]

\* The intent of c becomes durable.
Intend(c) == /\ record[c] = {}
             /\ record' = [record EXCEPT ![c] = {"pending"}]
             /\ UNCHANGED live

\* c was stopped before anything was sent; the trail says so.
TurnAway(c) == /\ record[c] = {}
               /\ ~live[c]
               /\ \E s \in {"error", "budget_exceeded"} :
                     record' = [record EXCEPT ![c] = {s}]
               /\ UNCHANGED live

\* The server applies the change: only against an intent without a definite
\* verdict.
Land(c) == /\ record[c] \in {{"pending"}, {"unknown"}}
           /\ live' = [live EXCEPT ![c] = TRUE]
           /\ UNCHANGED record

\* The intent gets its verdict: "ok" vouches for the change, "error" against.
Close(c) == /\ record[c] = {"pending"}
            /\ \E s \in {"ok", "error", "unknown"} :
                  /\ s = "ok" => live[c]
                  /\ s = "error" => ~live[c]
                  /\ record' = [record EXCEPT ![c] = {s}]
            /\ UNCHANGED live

Next == \E c \in Call : Intend(c) \/ TurnAway(c) \/ Land(c) \/ Close(c)

Spec == Init /\ [][Next]_vars
=============================================================================
