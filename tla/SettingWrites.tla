--------------------------- MODULE SettingWrites ---------------------------
(* The reversible writes of one bucket's settings.  Each tool checks its    *)
(* arguments, reads the prior value, sends the new one and hands back the   *)
(* call that would restore the prior value; replaying that call is the same *)
(* kind of call again.  One setting per behaviour: settings share nothing.  *)
EXTENDS Naturals, FiniteSets

\* Policy documents, by the rights they really deny the tool's key and by
\* whether the guard of this tool takes them for a denial of the put ("caught").
\* Neither follows from the other: a Deny by NotAction, of s3:*Policy or of a
\* wildcard ARN denies uncaught, and one under a Condition may be caught and
\* deny nothing.
CONSTANT Documents

ASSUME DocumentsAssumption == Documents \subseteq SUBSET {"get", "put", "delete", "caught"}

VARIABLES settingKind,   \* which setting this behaviour is about
          locked,        \* whether the bucket was created with object lock
          setting,       \* its value at the server
          settingCall,   \* the call in progress, or the last one
          restores,      \* the undo descriptor of the last call that landed
          replaced,      \* history: what that call replaced
          goal,          \* history: what the call being undone had replaced
          touched,       \* history: others wrote since this call read
          stale          \* history: others wrote since the undone call read

settingVars == <<settingKind, locked, setting, settingCall, restores, replaced,
                 goal, touched, stale>>

SettingKinds == {"policy", "versioning", "lifecycle", "quota", "retention"}

\* No policy, versioning Off, no lifecycle, no quota, no default rule.
Unset == {"unset"}
\* An argument the tool's own validation refuses.
Invalid == {"invalid"}

SettingValues(k) ==
  {Unset} \cup
  (CASE k = "policy"     -> Documents
     [] k = "versioning" -> {{"Enabled"}, {"Suspended"}}
     [] k = "lifecycle"  -> {{"rule 1"}, {"rule 2"}}
     [] k = "quota"      -> {{"small"}, {"large"}}
     [] k = "retention"  -> {{"days"}, {"years"}})

\* Versioning and quota have one tool; the others have a second that removes.
Removable == {"policy", "lifecycle", "retention"}

SettingRequests(k) ==
  [tool : {"set"},
   arg : {Invalid} \cup (IF k = "quota" THEN SettingValues(k)
                                        ELSE SettingValues(k) \ {Unset})]
  \cup (IF k \in Removable THEN {[tool |-> "delete", arg |-> Unset]} ELSE {})

NoDescriptor == [tool |-> "none", arg |-> Unset]
NoCall == [phase |-> "idle", tool |-> "none", arg |-> Unset, prior |-> Unset,
           undoing |-> FALSE, why |-> "none"]

SettingInit ==
  /\ settingKind \in SettingKinds
  /\ locked \in (IF settingKind = "retention" THEN BOOLEAN ELSE {FALSE})
  /\ setting = Unset
  /\ settingCall = NoCall
  /\ restores = NoDescriptor
  /\ replaced = Unset
  /\ goal = Unset
  /\ touched = FALSE
  /\ stale = FALSE

------------------------------------------------------------------------------
\* Recognises only a document that denies everything.
LocksOutByStar(r) ==
  /\ settingKind = "policy" /\ r.tool = "set"
  /\ {"get", "put", "delete", "caught"} \subseteq r.arg

\* guard_set_bucket_policy: a statement with Effect Deny whose Action is *, s3:*,
\* s3:PutBucketPolicy or a prefix of it and a star, and whose Principal is * or
\* this key.  It goes by these patterns, not by what the document denies.
LocksOut(r) == settingKind = "policy" /\ r.tool = "set" /\ "caught" \in r.arg

\* _require_lock.
LockMissing == settingKind = "retention" /\ ~locked

\* What a call refuses before it reads the prior value ...
RefusedLocally(r) == LocksOut(r) \/ LockMissing \/ r.arg = Invalid

\* ... and what the wrapper refuses ahead of its dry_run return.
PreviewRefused(r) == LocksOut(r) \/ (LockMissing /\ r.tool = "set")

\* The wrapper and the checks of the operation.
CallSetting(r, undoing) ==
  settingCall' = [NoCall EXCEPT !.tool = r.tool, !.arg = r.arg,
                    !.undoing = undoing,
                    !.phase = IF RefusedLocally(r) THEN "refused" ELSE "reading",
                    !.why = IF RefusedLocally(r) THEN "guard" ELSE "none"]

AskSetting(r) ==
  /\ settingCall.phase = "idle"
  /\ CallSetting(r, FALSE)
  /\ UNCHANGED <<settingKind, locked, setting, restores, replaced, goal, touched, stale>>

PreviewSetting(r) ==
  /\ settingCall.phase = "idle"
  /\ settingCall' = [NoCall EXCEPT !.tool = r.tool, !.arg = r.arg,
                       !.phase = IF PreviewRefused(r) THEN "refused" ELSE "previewed"]
  /\ UNCHANGED <<settingKind, locked, setting, restores, replaced, goal, touched, stale>>

\* The caller replays the descriptor of the call that has just landed.
ReplaySetting ==
  /\ settingCall.phase = "answered"
  /\ restores # NoDescriptor
  /\ CallSetting(restores, TRUE)
  /\ goal' = replaced
  /\ stale' = touched
  /\ UNCHANGED <<settingKind, locked, setting, restores, replaced, touched>>

\* The caller turns to something else.
LeaveSetting ==
  /\ settingCall.phase \in {"refused", "previewed", "answered"}
  /\ settingCall' = NoCall
  /\ restores' = NoDescriptor
  /\ UNCHANGED <<settingKind, locked, setting, replaced, goal, touched, stale>>

RefuseSetting(why) ==
  /\ settingCall' = [settingCall EXCEPT !.phase = "refused", !.why = why]
  /\ UNCHANGED <<settingKind, locked, setting, restores, replaced, goal, touched, stale>>

\* The policy in force denies this key the right.
Denied(right) == settingKind = "policy" /\ right \in setting

ReadPrior ==
  /\ settingCall.phase = "reading"
  /\ ~Denied("get")
  /\ settingCall' = [settingCall EXCEPT !.phase = "sending", !.prior = setting]
  /\ touched' = FALSE
  /\ UNCHANGED <<settingKind, locked, setting, restores, replaced, goal, stale>>

\* Always the removing tool, whatever was there.
InverseCallRemoves(tool, prior) ==
  IF settingKind \in Removable THEN [tool |-> "delete", arg |-> Unset]
                               ELSE [tool |-> "set", arg |-> prior]

\* The undo builders: what restores prior after a call of the tool.
InverseCall(tool, prior) ==
  CASE settingKind = "versioning" ->
         [tool |-> "set", arg |-> IF prior = Unset THEN {"Suspended"} ELSE prior]
    [] settingKind = "quota" -> [tool |-> "set", arg |-> prior]
    [] settingKind \in Removable /\ prior # Unset -> [tool |-> "set", arg |-> prior]
    [] settingKind \in {"policy", "lifecycle"} /\ prior = Unset /\ tool = "delete" ->
         NoDescriptor
    [] OTHER -> [tool |-> "delete", arg |-> Unset]

NeedsRight == IF settingCall.tool = "set" THEN "put" ELSE "delete"

SendSetting ==
  /\ settingCall.phase = "sending"
  /\ ~Denied(NeedsRight)
  /\ setting' = settingCall.arg
  /\ replaced' = setting
  /\ restores' = InverseCall(settingCall.tool, settingCall.prior)
  /\ settingCall' = [settingCall EXCEPT !.phase = "answered"]
  /\ UNCHANGED <<settingKind, locked, goal, touched, stale>>

\* MinIO refuses what the policy denies, and may fail on its own account.
SettingFails ==
  \/ settingCall.phase = "reading" /\ Denied("get") /\ RefuseSetting("denied")
  \/ settingCall.phase = "sending" /\ Denied(NeedsRight) /\ RefuseSetting("denied")
  \/ settingCall.phase \in {"reading", "sending"} /\ RefuseSetting("failed")

\* Another client writes; versioning never returns to Off.
OthersSet(v) ==
  /\ settingKind = "retention" => locked
  /\ settingKind = "versioning" => v # Unset
  /\ v # setting
  /\ setting' = v
  /\ touched' = TRUE
  /\ stale' = TRUE
  /\ UNCHANGED <<settingKind, locked, settingCall, restores, replaced, goal>>

SettingNext ==
  \/ \E r \in SettingRequests(settingKind) : AskSetting(r) \/ PreviewSetting(r)
  \/ ReplaySetting
  \/ LeaveSetting
  \/ ReadPrior
  \/ SendSetting
  \/ SettingFails
  \/ \E v \in SettingValues(settingKind) : OthersSet(v)

SettingSpec == SettingInit /\ [][SettingNext]_settingVars

------------------------------------------------------------------------------
SettingPhases == {"idle", "reading", "sending", "answered", "refused", "previewed"}

\* Types: the call, its descriptor and what it replaced are those of one kind.
SettingTypeOK ==
  LET values == SettingValues(settingKind)
      args   == values \cup {Unset, Invalid} IN
  /\ settingKind \in SettingKinds
  /\ locked \in BOOLEAN /\ touched \in BOOLEAN /\ stale \in BOOLEAN
  /\ setting \in values /\ replaced \in values /\ goal \in values
  /\ restores \in SettingRequests(settingKind) \cup {NoDescriptor}
  /\ settingCall \in [phase : SettingPhases, tool : {"none", "set", "delete"}, arg : args,
                      prior : values, undoing : BOOLEAN,
                      why : {"none", "guard", "denied", "failed"}]
  /\ settingCall.phase \in {"reading", "sending", "answered"} =>
       /\ [tool |-> settingCall.tool, arg |-> settingCall.arg]
            \in SettingRequests(settingKind)
       /\ settingCall.arg # Invalid

\* S3 cannot return to Off: Suspended is the closest.
Closest(v) ==
  IF settingKind = "versioning" /\ v = Unset THEN {"Suspended"} ELSE v

\* An undo that landed, with nobody else writing since the undone call read,
\* has put back exactly what that call replaced (undo builders of
\* mcp_server/tools/bucket_writes.py and objectlock.py).
UndoRestoresSetting ==
  settingCall.phase = "answered" /\ settingCall.undoing /\ ~stale
    => setting = Closest(goal)

\* What guard_set_bucket_policy is worth.  Provided nobody else wrote, an undo is
\* not refused by this tool's own guards or for the access its own write took
\* away, except: the policy denies this key the read every undo begins with, or
\* the removal that restores "no policy"; it denies the put in a form the guard
\* does not recognise (which the docstring of bucket_writes.py:10-15 leaves
\* out); or the undo is to put back a policy of others that the guard refuses.
\* And there is one: a write that changed the setting comes back with an inverse.
UndoIsReplayable ==
  /\ /\ settingCall.phase = "refused" /\ settingCall.undoing /\ ~stale
     /\ settingCall.why # "failed"
     => \/ Denied("get")
        \/ Denied("delete") /\ settingCall.tool = "delete"
        \/ Denied("put") /\ "caught" \notin setting
        \/ settingKind = "policy" /\ "caught" \in goal
  /\ settingCall.phase = "answered" /\ ~touched /\ setting # replaced
     => restores # NoDescriptor
------------------------------------------------------------------------------
\* The inductive invariant.  A call that got past its guards ...
PastTheGuards ==
  settingCall.phase \in {"reading", "sending", "answered"} =>
    ~RefusedLocally([tool |-> settingCall.tool, arg |-> settingCall.arg])

\* ... and that nobody disturbed knows what it replaces, and leaves its argument
\* and the descriptor that goes with it.
PriorIsReplaced ==
  /\ settingCall.phase = "sending" /\ ~touched => settingCall.prior = setting
  /\ settingCall.phase = "answered" =>
       /\ restores = InverseCall(settingCall.tool, settingCall.prior)
       /\ ~touched => setting = settingCall.arg /\ replaced = settingCall.prior

\* An undo nobody disturbed carries what the undone call replaced, over a
\* setting which that call's guards had passed.
UndoAims ==
  settingCall.undoing /\ ~stale =>
    /\ settingCall.phase \in {"reading", "sending", "answered"} =>
         settingCall.arg = Closest(goal)
    /\ settingCall.phase \in {"reading", "sending"} /\ settingKind = "policy" =>
         "caught" \notin setting

SettingInv ==
  /\ SettingTypeOK
  /\ PastTheGuards
  /\ PriorIsReplaced
  /\ UndoAims
  /\ UndoRestoresSetting
  /\ UndoIsReplayable
=============================================================================
