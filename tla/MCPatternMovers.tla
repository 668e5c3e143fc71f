-------------------------- MODULE MCPatternMovers --------------------------
(* Two instances of Patterns in one run: a lone thread while the operator    *)
(* edits the files, and all threads over files that nobody edits, for longer. *)
EXTENDS MCPatterns

\* The threads whose calls may move.
VARIABLE movers

Lone == movers # Thread
LoneHorizon == 2

PatternsInit ==
  /\ movers \in {Thread} \cup {{t} : t \in Thread}
  /\ files \in IF Lone THEN {<<c>> : c \in Editions} ELSE {<<c>> : c \in OneFile}
  /\ Init

LoneNext ==
  /\ Lone
  /\ Next
  /\ \A t \in Thread \ movers : pc'[t] = pc[t]
  /\ files'[Len(files')] \in Editions
  /\ clock' <= LoneHorizon
  /\ movers' = movers

TogetherNext == ~Lone /\ Next /\ files' = files /\ movers' = movers

PatternsNext == LoneNext \/ TogetherNext

PatternsSpec == PatternsInit /\ [][PatternsNext]_<<vars, movers>>

AllContents == OneFile \cup Editions
=============================================================================
