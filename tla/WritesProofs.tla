---------------------------- MODULE WritesProofs ----------------------------
(***************************************************************************)
(* Theorems of SettingWrites and IamUsers, for every set of documents and  *)
(* of policies: an undo that nobody disturbed restores what its call       *)
(* replaced and is not refused for it, and the tool never turns against    *)
(* its own credential.  And of SecretFile, for any number of commands,     *)
(* targets and values: until two commands overlap, its file is the store   *)
(* that SecretStore promises, whichever command dies where.                *)
(***************************************************************************)
EXTENDS SettingWrites, IamUsers, SecretFile, TLAPS

------------------------------------------------------------------------------
(* SettingWrites *)

\* "No value" is a value of every kind, and what a tool refuses is one of none.
LEMMA ValuesOfKinds ==
  ASSUME NEW k \in SettingKinds
  PROVE  /\ Unset \in SettingValues(k)
         /\ Invalid \notin SettingValues(k)
         /\ k = "versioning" => {"Suspended"} \in SettingValues(k)
<1>1. Unset \in SettingValues(k)
  BY DEF SettingValues
<1>2. Invalid # Unset /\ "invalid" \in Invalid
  BY DEF Invalid, Unset
<1>3. Invalid \notin Documents
  BY <1>2, DocumentsAssumption
<1>4. /\ "invalid" \notin {"Enabled"} /\ "invalid" \notin {"Suspended"}
      /\ "invalid" \notin {"rule 1"}  /\ "invalid" \notin {"rule 2"}
      /\ "invalid" \notin {"small"}   /\ "invalid" \notin {"large"}
      /\ "invalid" \notin {"days"}    /\ "invalid" \notin {"years"}
  OBVIOUS
<1>5. Invalid \notin SettingValues(k)
  <2>1. CASE k = "policy"
    <3>1. SettingValues(k) = {Unset} \cup Documents
      BY <2>1 DEF SettingValues
    <3> QED
      BY <1>2, <1>3, <3>1
  <2>2. CASE k = "versioning"
    BY <1>2, <1>4, <2>2 DEF SettingValues
  <2>3. CASE k = "lifecycle"
    BY <1>2, <1>4, <2>3 DEF SettingValues
  <2>4. CASE k = "quota"
    BY <1>2, <1>4, <2>4 DEF SettingValues
  <2>5. CASE k = "retention"
    BY <1>2, <1>4, <2>5 DEF SettingValues
  <2> QED
    BY <2>1, <2>2, <2>3, <2>4, <2>5 DEF SettingKinds
<1>6. k = "versioning" => {"Suspended"} \in SettingValues(k)
  BY DEF SettingValues
<1> QED
  BY <1>1, <1>5, <1>6

\* Nothing denies a right once there is no policy.
LEMMA UnsetDeniesNothing ==
  \A mark \in {"get", "put", "delete", "caught"} : mark \notin Unset
BY DEF Unset

\* What a request is: a value to set, or the removal.
LEMMA RequestShape ==
  ASSUME NEW k \in SettingKinds, NEW r \in SettingRequests(k)
  PROVE  /\ r.tool \in {"set", "delete"}
         /\ r.arg \in SettingValues(k) \cup {Invalid}
         /\ r = [tool |-> r.tool, arg |-> r.arg]
         /\ r.tool = "delete" => r.arg = Unset /\ k \in Removable
<1>1. Unset \in SettingValues(k)
  BY ValuesOfKinds
<1>2. CASE r \in [tool : {"set"}, arg : {Invalid} \cup SettingValues(k)]
  BY <1>2
<1>3. CASE r = [tool |-> "delete", arg |-> Unset] /\ k \in Removable
  BY <1>1, <1>3
<1> QED
  BY <1>2, <1>3 DEF SettingRequests

\* An inverse call is a request of the same kind, or there is none ...
LEMMA InverseIsRequest ==
  ASSUME settingKind \in SettingKinds, NEW tool \in {"set", "delete"},
         NEW prior \in SettingValues(settingKind)
  PROVE  /\ InverseCall(tool, prior) \in SettingRequests(settingKind) \cup {NoDescriptor}
         /\ InverseCall(tool, prior) # NoDescriptor =>
              InverseCall(tool, prior).arg = Closest(prior)
         /\ InverseCall(tool, prior) = NoDescriptor => tool = "delete" /\ prior = Unset
<1>1. {"Suspended"} # Unset
  BY DEF Unset
<1>2. CASE settingKind = "versioning"
  BY <1>1, <1>2, ValuesOfKinds DEF InverseCall, SettingRequests, Closest, NoDescriptor
<1>3. CASE settingKind = "quota"
  BY <1>3 DEF InverseCall, SettingRequests, Closest, NoDescriptor
<1>4. CASE settingKind \in Removable /\ prior # Unset
  <2>1. settingKind \notin {"versioning", "quota"}
    BY <1>4 DEF Removable
  <2>2. InverseCall(tool, prior) = [tool |-> "set", arg |-> prior]
    BY <1>4, <2>1 DEF InverseCall
  <2> QED
    BY <1>4, <2>1, <2>2 DEF SettingRequests, Closest, NoDescriptor
<1>5. CASE settingKind \in Removable /\ prior = Unset
  BY <1>5 DEF InverseCall, SettingRequests, Closest, NoDescriptor, Removable
<1> QED
  BY <1>2, <1>3, <1>4, <1>5 DEF SettingKinds, Removable

\* A call starts in a state of its type, past its guards or refused by them.
LEMMA CallStarts ==
  ASSUME settingKind \in SettingKinds, settingKind' = settingKind, locked' = locked,
         NEW r \in SettingRequests(settingKind), NEW undoing \in BOOLEAN,
         CallSetting(r, undoing)
  PROVE  /\ settingCall'.tool = r.tool /\ settingCall'.arg = r.arg
         /\ settingCall'.undoing = undoing
         /\ settingCall'.phase = IF RefusedLocally(r) THEN "refused" ELSE "reading"
         /\ settingCall'.why = IF RefusedLocally(r) THEN "guard" ELSE "none"
         /\ settingCall' \in [phase : SettingPhases, tool : {"none", "set", "delete"},
                              arg : SettingValues(settingKind) \cup {Unset, Invalid},
                              prior : SettingValues(settingKind), undoing : BOOLEAN,
                              why : {"none", "guard", "denied", "failed"}]
         /\ [tool |-> settingCall'.tool, arg |-> settingCall'.arg] = r
         /\ settingCall'.phase = "reading" => r.arg # Invalid
<1>1. settingCall' = [phase |-> IF RefusedLocally(r) THEN "refused" ELSE "reading",
                      tool |-> r.tool, arg |-> r.arg, prior |-> Unset, undoing |-> undoing,
                      why |-> IF RefusedLocally(r) THEN "guard" ELSE "none"]
  BY DEF CallSetting, NoCall
<1> QED
  BY <1>1, RequestShape, ValuesOfKinds DEF SettingPhases, RefusedLocally

\* The types of the step of one call.
LEMMA SettingStepTypes ==
  ASSUME SettingTypeOK, [SettingNext]_settingVars
  PROVE  SettingTypeOK' /\ settingKind' = settingKind /\ locked' = locked
<1> DEFINE values == SettingValues(settingKind)
<1>0. settingKind \in SettingKinds /\ Unset \in values
  BY ValuesOfKinds DEF SettingTypeOK
<1>1. ASSUME NEW r \in SettingRequests(settingKind), AskSetting(r)
      PROVE  SettingTypeOK' /\ settingKind' = settingKind /\ locked' = locked
  BY <1>0, <1>1, CallStarts DEF AskSetting, SettingTypeOK
<1>2. ASSUME NEW r \in SettingRequests(settingKind), PreviewSetting(r)
      PROVE  SettingTypeOK' /\ settingKind' = settingKind /\ locked' = locked
  <2>1. settingCall' = [phase |-> IF PreviewRefused(r) THEN "refused" ELSE "previewed",
                        tool |-> r.tool, arg |-> r.arg, prior |-> Unset, undoing |-> FALSE,
                        why |-> "none"]
    BY <1>2 DEF PreviewSetting, NoCall
  <2>2. r.tool \in {"set", "delete"} /\ r.arg \in values \cup {Unset, Invalid}
    BY <1>0, RequestShape
  <2>3. /\ settingCall'.phase \in {"refused", "previewed"}
        /\ settingCall' \in [phase : SettingPhases, tool : {"none", "set", "delete"},
                            arg : values \cup {Unset, Invalid}, prior : values,
                            undoing : BOOLEAN, why : {"none", "guard", "denied", "failed"}]
    BY <1>0, <2>1, <2>2 DEF SettingPhases
  <2> QED
    BY <1>0, <1>2, <2>3 DEF PreviewSetting, SettingTypeOK
<1>3. CASE ReplaySetting
  <2>1. restores \in SettingRequests(settingKind)
    BY <1>3 DEF ReplaySetting, SettingTypeOK
  <2> QED
    BY <1>0, <1>3, <2>1, CallStarts DEF ReplaySetting, SettingTypeOK
<1>4. CASE LeaveSetting
  BY <1>0, <1>4 DEF LeaveSetting, SettingTypeOK, NoCall, SettingPhases
<1>5. CASE ReadPrior
  <2>1. settingCall' = [settingCall EXCEPT !.phase = "sending", !.prior = setting]
    BY <1>5 DEF ReadPrior
  <2> QED
    BY <1>0, <1>5, <2>1 DEF ReadPrior, SettingTypeOK, SettingPhases
<1>6. CASE SendSetting
  <2>1. /\ settingCall' = [settingCall EXCEPT !.phase = "answered"]
        /\ [tool |-> settingCall.tool, arg |-> settingCall.arg] \in SettingRequests(settingKind)
    BY <1>6 DEF SendSetting, SettingTypeOK
  <2>2. settingCall.tool \in {"set", "delete"} /\ settingCall.arg \in values
    BY <1>0, <1>6, <2>1, RequestShape DEF SendSetting, SettingTypeOK
  <2> QED
    BY <1>0, <1>6, <2>1, <2>2, InverseIsRequest DEF SendSetting, SettingTypeOK, SettingPhases
<1>7. CASE SettingFails
  BY <1>7 DEF SettingFails, RefuseSetting, SettingTypeOK, SettingPhases
<1>8. ASSUME NEW v \in SettingValues(settingKind), OthersSet(v)
      PROVE  SettingTypeOK' /\ settingKind' = settingKind /\ locked' = locked
  BY <1>8 DEF OthersSet, SettingTypeOK
<1>9. CASE UNCHANGED settingVars
  BY <1>9 DEF settingVars, SettingTypeOK
<1> QED
  BY <1>1, <1>2, <1>3, <1>4, <1>5, <1>6, <1>7, <1>8, <1>9 DEF SettingNext

\* SettingInv is inductive.
LEMMA SettingStepKeeps ==
  ASSUME SettingInv, [SettingNext]_settingVars
  PROVE  SettingInv'
<1> DEFINE Req(c) == [tool |-> c.tool, arg |-> c.arg]
<1>0. /\ SettingTypeOK /\ SettingTypeOK'
      /\ settingKind' = settingKind /\ locked' = locked
      /\ settingKind \in SettingKinds
  BY SettingStepTypes DEF SettingInv, SettingTypeOK
<1>1. ASSUME NEW r \in SettingRequests(settingKind), AskSetting(r) \/ PreviewSetting(r)
      PROVE  SettingInv'
  <2>1. /\ ~settingCall'.undoing
        /\ settingCall'.phase \in {"reading", "refused", "previewed"}
        /\ settingCall'.phase = "reading" =>
             Req(settingCall') = r /\ ~RefusedLocally(r)
    <3>1. CASE AskSetting(r)
      BY <1>0, <3>1, CallStarts DEF AskSetting
    <3>2. CASE PreviewSetting(r)
      BY <3>2 DEF PreviewSetting, NoCall
    <3> QED
      BY <1>1, <3>1, <3>2
  <2>2. PastTheGuards'
    BY <1>0, <2>1 DEF PastTheGuards, RefusedLocally, LocksOut, LockMissing
  <2> QED
    BY <1>0, <2>1, <2>2 DEF SettingInv, PriorIsReplaced, UndoAims, UndoRestoresSetting,
                            UndoIsReplayable
<1>2. CASE ReplaySetting
  <2>1. /\ settingCall.phase = "answered"
        /\ restores # NoDescriptor
        /\ restores \in SettingRequests(settingKind)
        /\ restores = InverseCall(settingCall.tool, settingCall.prior)
        /\ settingCall.prior \in SettingValues(settingKind)
        /\ settingCall.tool \in {"set", "delete"}
        /\ ~RefusedLocally(Req(settingCall))
    BY <1>0, <1>2, RequestShape DEF ReplaySetting, SettingInv, SettingTypeOK,
       PriorIsReplaced, PastTheGuards
  <2>2. /\ settingCall'.undoing
        /\ Req(settingCall') = restores
        /\ settingCall'.phase = IF RefusedLocally(restores) THEN "refused" ELSE "reading"
        /\ settingCall'.why = IF RefusedLocally(restores) THEN "guard" ELSE "none"
        /\ settingCall'.arg = restores.arg
    BY <1>0, <1>2, <2>1, CallStarts DEF ReplaySetting
  <2>3. PastTheGuards'
    BY <1>0, <2>2 DEF PastTheGuards, RefusedLocally, LocksOut, LockMissing
  <2>4. ASSUME ~stale'
        PROVE  /\ goal' = settingCall.prior
               /\ restores.arg = Closest(goal')
               /\ setting' = setting /\ setting = settingCall.arg
    <3>1. ~touched /\ goal' = replaced /\ setting' = setting
      BY <1>2, <2>4 DEF ReplaySetting
    <3>2. replaced = settingCall.prior /\ setting = settingCall.arg
      BY <2>1, <3>1 DEF SettingInv, PriorIsReplaced
    <3> QED
      BY <1>0, <2>1, <3>1, <3>2, InverseIsRequest
  <2>5. UndoAims'
    <3>1. ASSUME ~stale', settingCall'.phase = "reading"
          PROVE  settingKind = "policy" => "caught" \notin setting'
      <4>1. settingKind = "policy" => "caught" \notin settingCall.arg
        <5>1. CASE settingCall.tool = "set"
          BY <2>1, <5>1 DEF RefusedLocally, LocksOut
        <5>2. CASE settingCall.tool = "delete"
          <6>1. settingCall.arg = Unset
            BY <1>0, <2>1, <5>2, RequestShape DEF SettingInv, SettingTypeOK
          <6> QED
            BY <6>1, UnsetDeniesNothing
        <5> QED
          BY <2>1, <5>1, <5>2
      <4> QED
        BY <1>0, <2>4, <3>1, <4>1
    <3>2. ~stale' => settingCall'.arg = Closest(goal)'
      BY <1>0, <2>2, <2>4 DEF Closest
    <3> QED
      BY <1>0, <2>2, <3>1, <3>2 DEF UndoAims
  <2>6. UndoIsReplayable'
    <3>1. ASSUME ~stale', settingCall'.phase = "refused"
          PROVE  settingKind = "policy" /\ "caught" \in goal'
      <4>1. RefusedLocally(restores)
        BY <2>2, <3>1
      <4>2. ~LockMissing
        BY <2>1 DEF RefusedLocally
      <4>3. restores.arg # Invalid
        <5>1. restores.arg = Closest(settingCall.prior)
          BY <1>0, <2>1, InverseIsRequest
        <5>2. Closest(settingCall.prior) \in SettingValues(settingKind)
          BY <1>0, <2>1, ValuesOfKinds DEF Closest
        <5> QED
          BY <1>0, <5>1, <5>2, ValuesOfKinds
      <4>4. LocksOut(restores)
        BY <4>1, <4>2, <4>3 DEF RefusedLocally
      <4> QED
        BY <2>4, <3>1, <4>4 DEF LocksOut, Closest
    <3> QED
      BY <1>0, <2>2, <3>1 DEF UndoIsReplayable
  <2> QED
    BY <1>0, <2>2, <2>3, <2>5, <2>6 DEF SettingInv, PriorIsReplaced, UndoRestoresSetting
<1>3. CASE LeaveSetting
  <2>1. settingCall' = NoCall
    BY <1>3 DEF LeaveSetting
  <2> QED
    BY <1>0, <2>1 DEF NoCall, SettingInv, PastTheGuards, PriorIsReplaced, UndoAims,
                      UndoRestoresSetting, UndoIsReplayable
<1>4. CASE ReadPrior
  <2>1. /\ settingCall.phase = "reading" /\ ~touched'
        /\ settingCall'.phase = "sending" /\ settingCall'.prior = setting
        /\ settingCall'.tool = settingCall.tool /\ settingCall'.arg = settingCall.arg
        /\ settingCall'.undoing = settingCall.undoing
        /\ UNCHANGED <<setting, restores, replaced, goal, stale>>
    BY <1>0, <1>4 DEF ReadPrior, SettingTypeOK
  <2> QED
    BY <1>0, <2>1 DEF SettingInv, PastTheGuards, PriorIsReplaced, UndoAims,
       UndoRestoresSetting, UndoIsReplayable, RefusedLocally, LocksOut, LockMissing, Closest, Denied
<1>5. CASE SendSetting
  <2>1. /\ settingCall.phase = "sending"
        /\ settingCall'.phase = "answered" /\ settingCall'.prior = settingCall.prior
        /\ settingCall'.tool = settingCall.tool /\ settingCall'.arg = settingCall.arg
        /\ settingCall'.undoing = settingCall.undoing
        /\ setting' = settingCall.arg /\ replaced' = setting
        /\ restores' = InverseCall(settingCall.tool, settingCall.prior)
        /\ UNCHANGED <<goal, stale, touched>>
    BY <1>0, <1>5 DEF SendSetting, SettingTypeOK
  <2>2. PastTheGuards' /\ UndoAims' /\ UndoRestoresSetting'
    BY <1>0, <2>1 DEF SettingInv, PastTheGuards, UndoAims, UndoRestoresSetting,
       RefusedLocally, LocksOut, LockMissing, Closest
  <2>3. PriorIsReplaced'
    BY <1>0, <2>1 DEF SettingInv, PriorIsReplaced, InverseCall
  <2>4. UndoIsReplayable'
    <3>1. ASSUME restores' = NoDescriptor, ~touched
          PROVE  setting' = replaced'
      <4>1. /\ settingCall.tool \in {"set", "delete"}
            /\ settingCall.tool = "delete" => settingCall.arg = Unset
            /\ settingCall.prior \in SettingValues(settingKind)
        BY <1>0, <2>1, RequestShape DEF SettingTypeOK
      <4>2. settingCall.tool = "delete" /\ settingCall.prior = Unset
        BY <1>0, <2>1, <3>1, <4>1, InverseIsRequest
      <4>3. settingCall.prior = setting
        BY <2>1, <3>1 DEF SettingInv, PriorIsReplaced
      <4> QED
        BY <2>1, <4>1, <4>2, <4>3
    <3> QED
      BY <2>1, <3>1 DEF UndoIsReplayable
  <2> QED
    BY <1>0, <2>2, <2>3, <2>4 DEF SettingInv
<1>6. CASE SettingFails
  <2>1. /\ settingCall.phase \in {"reading", "sending"}
        /\ settingCall'.phase = "refused"
        /\ settingCall'.tool = settingCall.tool
        /\ settingCall'.undoing = settingCall.undoing
        /\ UNCHANGED <<setting, restores, replaced, goal, stale, touched>>
        /\ \/ settingCall'.why = "failed"
           \/ Denied("get")
           \/ settingCall.phase = "sending" /\ Denied(NeedsRight)
    BY <1>0, <1>6 DEF SettingFails, RefuseSetting, SettingTypeOK
  <2>2. UndoIsReplayable'
    <3>1. ASSUME settingCall.undoing, ~stale, settingCall'.why # "failed"
          PROVE  \/ Denied("get")
                 \/ Denied("delete") /\ settingCall.tool = "delete"
                 \/ Denied("put") /\ "caught" \notin setting
      <4>1. settingKind = "policy" => "caught" \notin setting
        BY <2>1, <3>1 DEF SettingInv, UndoAims
      <4>2. settingCall.tool \in {"set", "delete"}
        BY <1>0, <2>1, RequestShape DEF SettingTypeOK
      <4>3. NeedsRight = "put" \/ (NeedsRight = "delete" /\ settingCall.tool = "delete")
        BY <4>2 DEF NeedsRight
      <4>4. CASE Denied("get")
        BY <4>4
      <4>5. CASE Denied(NeedsRight)
        BY <4>1, <4>3, <4>5 DEF Denied
      <4> QED
        BY <2>1, <3>1, <4>4, <4>5
    <3> QED
      BY <1>0, <2>1, <3>1 DEF UndoIsReplayable, Denied
  <2> QED
    BY <1>0, <2>1, <2>2 DEF SettingInv, PastTheGuards, PriorIsReplaced, UndoAims,
       UndoRestoresSetting
<1>7. ASSUME NEW v \in SettingValues(settingKind), OthersSet(v)
      PROVE  SettingInv'
  BY <1>0, <1>7 DEF OthersSet, SettingInv, PastTheGuards, PriorIsReplaced, UndoAims,
     UndoRestoresSetting, UndoIsReplayable, RefusedLocally, LocksOut, LockMissing,
     InverseCall
<1>8. CASE UNCHANGED settingVars
  BY <1>0, <1>8 DEF settingVars, SettingInv, PastTheGuards, PriorIsReplaced, UndoAims,
     UndoRestoresSetting, UndoIsReplayable, RefusedLocally, LocksOut, LockMissing,
     InverseCall, Closest, Denied
<1> QED
  BY <1>1, <1>2, <1>3, <1>4, <1>5, <1>6, <1>7, <1>8 DEF SettingNext

\* The inductive invariant holds throughout.
THEOREM SettingInvariant == SettingSpec => []SettingInv
<1>1. SettingInit => SettingInv
  <2>1. ASSUME SettingInit PROVE SettingTypeOK
    <3>1. settingKind \in SettingKinds /\ Unset \in SettingValues(settingKind)
      BY <2>1, ValuesOfKinds DEF SettingInit
    <3>2. locked \in BOOLEAN
      BY <2>1 DEF SettingInit
    <3> QED
      BY <2>1, <3>1, <3>2 DEF SettingInit, SettingTypeOK, NoCall, SettingPhases
  <2>2. ASSUME SettingInit PROVE settingCall.phase = "idle" /\ ~settingCall.undoing
    BY <2>2 DEF SettingInit, NoCall
  <2> QED
    BY <2>1, <2>2 DEF SettingInv, PastTheGuards, PriorIsReplaced, UndoAims,
       UndoRestoresSetting, UndoIsReplayable
<1> QED
  BY <1>1, SettingStepKeeps, PTL DEF SettingSpec

\* An undo that landed over an undisturbed setting has put back what its call
\* replaced, or Suspended for a versioning that was Off.
THEOREM SettingsRestored == SettingSpec => []UndoRestoresSetting
<1>1. SettingInv => UndoRestoresSetting
  BY DEF SettingInv
<1> QED
  BY <1>1, SettingInvariant, PTL

\* An undo is refused by what its own call did in the named cases only.
THEOREM UndosReplayable == SettingSpec => []UndoIsReplayable
<1>1. SettingInv => UndoIsReplayable
  BY DEF SettingInv
<1> QED
  BY <1>1, SettingInvariant, PTL
------------------------------------------------------------------------------
(* IamUsers *)

\* What a request to the identity service is.
LEMMA IamRequestShape ==
  ASSUME NEW r \in IamRequests
  PROVE  /\ r.tool \in IamTools /\ r.names \in SUBSET PolicyNames
         /\ r = [tool |-> r.tool, names |-> r.names]
         /\ r # NoRequest
<1>1. CASE r \in [tool : {"create", "enable", "disable", "remove"}, names : {{}}]
  BY <1>1 DEF IamTools, NoRequest
<1>2. CASE r \in [tool : {"attach", "detach"}, names : SUBSET PolicyNames \ {{}}]
  BY <1>2 DEF IamTools, NoRequest
<1> QED
  BY <1>1, <1>2 DEF IamRequests

\* An account has its fields, there or not.
LEMMA AccountShape ==
  ASSUME NEW a \in Account \cup {NoAccount}
  PROVE  /\ a = [exists |-> a.exists, enabled |-> a.enabled, policies |-> a.policies,
                 secret |-> a.secret]
         /\ a.exists \in BOOLEAN /\ a.enabled \in BOOLEAN /\ a.policies \in SUBSET PolicyNames
         /\ a.secret \in {"none", "owner", "caller"}
         /\ ~a.exists => a = NoAccount
         /\ a.exists => a \in Account
<1>1. CASE a \in Account
  BY <1>1 DEF Account
<1>2. CASE a = NoAccount
  BY <1>2 DEF NoAccount
<1> QED
  BY <1>1, <1>2

\* What the server makes of a request it takes, field by field.
LEMMA AppliedShape ==
  ASSUME account \in Account \cup {NoAccount}, NEW r, r.tool \in IamTools,
         r.names \in SUBSET PolicyNames, Acceptable(r)
  PROVE  /\ Applied(r) \in Account \cup {NoAccount}
         /\ r.tool = "remove" => Applied(r) = NoAccount
         /\ r.tool = "create" /\ account.exists =>
              Applied(r) = [account EXCEPT !.secret = "caller"]
         /\ r.tool \in {"enable", "disable"} =>
              Applied(r) = [account EXCEPT !.enabled = (r.tool = "enable")]
         /\ r.tool = "attach" => Applied(r) = [account EXCEPT !.policies = @ \cup r.names]
         /\ r.tool = "detach" => Applied(r) = [account EXCEPT !.policies = @ \ r.names]
<1>1. r.tool # "create" => account \in Account
  BY AccountShape DEF Acceptable
<1>2. CASE r.tool = "create"
  BY <1>2, AccountShape DEF Applied, Account
<1>3. CASE r.tool = "enable"
  BY <1>1, <1>3 DEF Applied, Account
<1>4. CASE r.tool = "disable"
  BY <1>1, <1>4 DEF Applied, Account
<1>5. CASE r.tool = "remove"
  BY <1>5 DEF Applied
<1>6. CASE r.tool = "attach"
  BY <1>1, <1>6 DEF Applied, Account
<1>7. CASE r.tool = "detach"
  BY <1>1, <1>7 DEF Applied, Account
<1> QED
  BY <1>2, <1>3, <1>4, <1>5, <1>6, <1>7 DEF IamTools

\* A call that starts carries its request, and is at the guard's mercy.
LEMMA IamCallStarts ==
  ASSUME NEW r \in IamRequests, NEW undoing \in BOOLEAN, own \in BOOLEAN, CallIam(r, undoing)
  PROVE  /\ iamCall'.tool = r.tool /\ iamCall'.names = r.names
         /\ iamCall'.undoing = undoing
         /\ iamCall'.phase = IF SelfTarget(r.tool) THEN "refused" ELSE "probing"
         /\ iamCall'.existed = "unread" /\ iamCall'.wasEnabled = FALSE
         /\ iamCall' \in IamCalls
         /\ [tool |-> iamCall'.tool, names |-> iamCall'.names] = r
<1>1. iamCall' = [phase |-> IF SelfTarget(r.tool) THEN "refused" ELSE "probing",
                  tool |-> r.tool, names |-> r.names, existed |-> "unread",
                  wasEnabled |-> FALSE, undoing |-> undoing]
  BY DEF CallIam, NoIamCall
<1>2. r.tool \in IamTools /\ r.names \in SUBSET PolicyNames
  BY IamRequestShape
<1>3. r = [tool |-> r.tool, names |-> r.names]
  BY IamRequestShape
<1> QED
  BY <1>1, <1>2, <1>3 DEF IamCalls, IamPhases

\* An undo of a landed call is a request, or there is none; it never creates.
LEMMA UndoIsRequest ==
  ASSUME NEW c, [tool |-> c.tool, names |-> c.names] \in IamRequests
  PROVE  /\ UndoRequest(c) \in IamRequests \cup {NoRequest}
         /\ UndoRequest(c).tool # "create"
<1>1. c.tool \in IamTools
  BY IamRequestShape
<1>2. c.tool \in {"attach", "detach"} => c.names \in SUBSET PolicyNames \ {{}}
  BY DEF IamRequests
<1>3. CASE c.tool = "create"
  BY <1>3 DEF UndoRequest, IamRequests, NoRequest
<1>4. CASE c.tool \in {"enable", "disable"}
  BY <1>4 DEF UndoRequest, IamRequests, NoRequest
<1>5. CASE c.tool = "remove"
  BY <1>5 DEF UndoRequest, IamRequests, NoRequest
<1>6. CASE c.tool \in {"attach", "detach"}
  BY <1>2, <1>6 DEF UndoRequest, IamRequests, NoRequest
<1> QED
  BY <1>1, <1>3, <1>4, <1>5, <1>6 DEF IamTools

\* The types of one step.
LEMMA IamStepTypes ==
  ASSUME IamTypeOK, [IamNext]_iamVars
  PROVE  IamTypeOK' /\ own' = own
<1>0. own \in BOOLEAN
  BY DEF IamTypeOK
<1>1. ASSUME NEW r \in IamRequests, AskIam(r)
      PROVE  IamTypeOK' /\ own' = own
  BY <1>0, <1>1, IamCallStarts DEF AskIam, iamHistory, IamTypeOK
<1>2. ASSUME NEW r \in IamRequests, PreviewIam(r)
      PROVE  IamTypeOK' /\ own' = own
  <2>1. iamCall' = [phase |-> IF SelfTarget(r.tool) THEN "refused" ELSE "previewed",
                    tool |-> r.tool, names |-> r.names, existed |-> "unread",
                    wasEnabled |-> FALSE, undoing |-> FALSE]
    BY <1>2 DEF PreviewIam, NoIamCall
  <2>2. iamCall' \in IamCalls /\ iamCall'.phase \in {"refused", "previewed"}
    BY <2>1, IamRequestShape DEF IamCalls, IamPhases
  <2> QED
    BY <1>2, <2>2 DEF PreviewIam, iamHistory, IamTypeOK
<1>3. CASE ReplayIam
  <2>1. iamUndo \in IamRequests
    BY <1>3 DEF ReplayIam, IamTypeOK
  <2> QED
    BY <1>0, <1>3, <2>1, IamCallStarts DEF ReplayIam, IamTypeOK
<1>4. CASE LeaveIam
  BY <1>4 DEF LeaveIam, IamTypeOK, NoIamCall, IamCalls, IamPhases, IamTools
<1>5. ASSUME NEW outcome \in ProbeOutcomes, ProbeUser(outcome)
      PROVE  IamTypeOK' /\ own' = own
  <2>1. Existed(outcome) \in {"yes", "no", "unknown"}
    BY DEF Existed
  <2>2. account.enabled \in BOOLEAN
    BY AccountShape DEF IamTypeOK
  <2> QED
    BY <1>5, <2>1, <2>2 DEF ProbeUser, IamTypeOK, IamCalls, IamPhases
<1>6. CASE SendIam
  <2>1. /\ [tool |-> iamCall.tool, names |-> iamCall.names] \in IamRequests
        /\ iamCall.tool \in IamTools /\ iamCall.names \in SUBSET PolicyNames
    BY <1>6, IamRequestShape DEF SendIam, IamTypeOK, IamCalls, IamPhases
  <2>2. account' \in Account \cup {NoAccount}
    BY <1>6, <2>1, AppliedShape DEF SendIam, IamTypeOK, IamCalls, IamPhases
  <2>3. iamUndo' \in IamRequests \cup {NoRequest}
    BY <1>6, <2>1, UndoIsRequest DEF SendIam
  <2>4. replacedAccount' \in Account \cup {NoAccount}
    BY <1>6 DEF SendIam, IamTypeOK, IamCalls, IamPhases
  <2> QED
    BY <1>6, <2>1, <2>2, <2>3, <2>4 DEF SendIam, IamTypeOK, IamCalls, IamPhases
<1>7. CASE IamFails
  BY <1>7 DEF IamFails, iamHistory, IamTypeOK, IamCalls, IamPhases
<1>8. CASE OthersAdminister
  <2>1. iamCall.undoing \in BOOLEAN
    BY DEF IamTypeOK, IamCalls
  <2> QED
    BY <1>8, <2>1 DEF OthersAdminister, IamTypeOK
<1>9. CASE UNCHANGED iamVars
  BY <1>9 DEF iamVars, iamHistory, IamTypeOK
<1> QED
  BY <1>1, <1>2, <1>3, <1>4, <1>5, <1>6, <1>7, <1>8, <1>9 DEF IamNext
\* IamInv is inductive.
LEMMA IamStepKeeps ==
  ASSUME IamInv, [IamNext]_iamVars
  PROVE  IamInv'
<1>0. /\ IamTypeOK /\ IamTypeOK' /\ own' = own /\ own \in BOOLEAN
      /\ iamCall \in IamCalls /\ iamCall' \in IamCalls
  BY IamStepTypes DEF IamInv, IamTypeOK
<1>1. ASSUME NEW r \in IamRequests, AskIam(r) \/ PreviewIam(r)
      PROVE  IamInv'
  <2>1. /\ ~iamCall'.undoing
        /\ iamCall'.phase \in {"refused", "probing", "previewed"}
        /\ iamCall'.phase = "probing" => iamCall'.tool = r.tool /\ ~SelfTarget(r.tool)
        /\ UNCHANGED <<own, account, iamUndo, iamHistory>>
    <3>1. CASE AskIam(r)
      BY <1>0, <3>1, IamCallStarts DEF AskIam
    <3>2. CASE PreviewIam(r)
      BY <3>2 DEF PreviewIam, NoIamCall
    <3> QED
      BY <1>1, <3>1, <3>2
  <2> QED
    BY <1>0, <2>1 DEF iamHistory, IamInv, OnlyCreatesOwn, ProbeHolds, UndoFits,
       OwnCredentialKept, UndoRestoresAccount, UndoneQuietly, SelfTarget
<1>2. CASE ReplayIam
  <2>1. iamUndo \in IamRequests
    BY <1>0, <1>2 DEF ReplayIam, IamTypeOK
  <2>2. /\ iamCall.phase = "answered"
        /\ iamCall'.undoing /\ iamCall'.tool = iamUndo.tool /\ iamCall'.names = iamUndo.names
        /\ iamCall'.phase = IF SelfTarget(iamUndo.tool) THEN "refused" ELSE "probing"
        /\ wantedAccount' = replacedAccount /\ disturbed' = (meddled = "since")
        /\ UNCHANGED <<own, account, iamUndo, replacedAccount, meddled>>
    BY <1>0, <1>2, <2>1, IamCallStarts DEF ReplayIam
  <2>3. UndoFits'
    BY <2>2 DEF IamInv, UndoFits, Undoes
  <2> QED
    BY <1>0, <2>2, <2>3 DEF IamInv, OnlyCreatesOwn, ProbeHolds, OwnCredentialKept,
       UndoRestoresAccount, UndoneQuietly, SelfTarget
<1>3. CASE LeaveIam
  BY <1>0, <1>3 DEF LeaveIam, NoIamCall, NoRequest, IamInv, OnlyCreatesOwn, ProbeHolds,
     UndoFits, OwnCredentialKept, UndoRestoresAccount, UndoneQuietly
<1>4. ASSUME NEW outcome \in ProbeOutcomes, ProbeUser(outcome)
      PROVE  IamInv'
  <2>1. /\ iamCall.phase = "probing" /\ iamCall'.phase \in {"sending", "refused"}
        /\ iamCall'.phase = "sending" =>
             outcome = "found" \/ iamCall.tool \in {"create", "remove"}
        /\ iamCall'.tool = iamCall.tool /\ iamCall'.names = iamCall.names
        /\ iamCall'.undoing = iamCall.undoing
        /\ iamCall'.existed = Existed(outcome)
        /\ iamCall'.wasEnabled = (outcome = "found" /\ account.enabled)
        /\ UNCHANGED <<own, account, iamUndo, replacedAccount, wantedAccount, disturbed>>
    BY <1>0, <1>4 DEF ProbeUser, IamCalls
  <2>2. /\ meddled = "never" <=> meddled' = "never"
        /\ meddled # "since" => meddled' = meddled
        /\ meddled' # "since"
    BY <1>4 DEF ProbeUser
  <2>3. /\ Existed(outcome) # "unread"
        /\ Existed(outcome) = "no" => outcome = "404"
    BY DEF Existed
  <2>4. outcome = "404" => account = NoAccount
    <3>1. outcome = "404" => ~account.exists
      BY DEF ProbeOutcomes
    <3> QED
      BY <1>0, <3>1, AccountShape DEF IamTypeOK
  <2>5. account.enabled \in BOOLEAN
    BY <1>0, AccountShape DEF IamTypeOK
  <2>6. ProbeHolds'
    BY <2>1, <2>3, <2>4, <2>5 DEF ProbeHolds
  <2>7. UndoFits'
    BY <2>1, <2>2 DEF IamInv, UndoFits, Undoes
  <2> QED
    BY <1>0, <2>1, <2>2, <2>6, <2>7 DEF IamInv, OnlyCreatesOwn, OwnCredentialKept,
       UndoRestoresAccount, UndoneQuietly
<1>5. CASE SendIam
  <2>1. /\ iamCall.phase = "sending" /\ iamCall'.phase = "answered"
        /\ iamCall'.tool = iamCall.tool /\ iamCall'.names = iamCall.names
        /\ iamCall'.undoing = iamCall.undoing /\ iamCall'.existed = iamCall.existed
        /\ Acceptable(iamCall) /\ account' = Applied(iamCall)
        /\ iamUndo' = UndoRequest(iamCall)
        /\ replacedAccount' = account
        /\ UNCHANGED <<own, wantedAccount, meddled, disturbed>>
    BY <1>0, <1>5 DEF SendIam, IamCalls
  <2>2. /\ [tool |-> iamCall.tool, names |-> iamCall.names] \in IamRequests
        /\ iamCall.tool \in IamTools /\ iamCall.names \in SUBSET PolicyNames
        /\ account \in Account \cup {NoAccount} /\ wantedAccount \in Account \cup {NoAccount}
    BY <1>0, <2>1, IamRequestShape DEF IamTypeOK
  <2>3. iamCall.tool # "create" => account \in Account
    BY <2>1, <2>2, AccountShape DEF Acceptable
  <2>4. iamUndo'.tool # "create"
    BY <2>1, <2>2, UndoIsRequest
  <2>5. ASSUME meddled' # "since"
        PROVE  Undoes(iamUndo, replacedAccount)'
    <3>1. CASE iamCall.tool = "create"
      <4>1. iamCall.existed = "no" => account = NoAccount
        BY <2>1, <2>5 DEF IamInv, ProbeHolds
      <4> QED
        BY <2>1, <2>5, <3>1, <4>1 DEF UndoRequest, Undoes, NoRequest
    <3>2. CASE iamCall.tool \in {"enable", "disable"}
      <4>1. iamCall.wasEnabled = account.enabled
        BY <2>1, <2>5, <3>2 DEF IamInv, ProbeHolds
      <4>2. account' = [account EXCEPT !.enabled = (iamCall.tool = "enable")]
        BY <2>1, <2>2, <3>2, AppliedShape
      <4>3. /\ iamUndo'.tool = (IF iamCall.wasEnabled THEN "enable" ELSE "disable")
            /\ replacedAccount' = account
        BY <2>1, <2>5, <3>2 DEF UndoRequest
      <4>4. account \in Account
        BY <2>3, <3>2
      <4>5. account.enabled \in BOOLEAN
        BY <4>4 DEF Account
      <4>6. replacedAccount'.enabled = (iamUndo'.tool = "enable")
        BY <4>1, <4>3, <4>5
      <4>7. account' = [replacedAccount' EXCEPT !.enabled = account'.enabled]
        BY <4>2, <4>3, <4>4 DEF Account
      <4> QED
        BY <4>3, <4>6, <4>7 DEF Undoes
    <3>3. CASE iamCall.tool = "remove"
      BY <2>1, <3>3 DEF UndoRequest, Undoes, NoRequest
    <3>4. CASE iamCall.tool = "attach"
      BY <2>1, <2>2, <2>5, <3>4, AppliedShape DEF UndoRequest, Undoes
    <3>5. CASE iamCall.tool = "detach"
      BY <2>1, <2>2, <2>5, <3>5, AppliedShape DEF UndoRequest, Undoes
    <3> QED
      BY <2>2, <3>1, <3>2, <3>3, <3>4, <3>5 DEF IamTools
  <2>6. UndoFits'
    BY <2>1, <2>5 DEF IamInv, UndoFits
  <2>7. ASSUME iamCall.undoing, ~disturbed,
               \/ iamCall.tool \in {"remove", "enable", "disable"}
               \/ iamCall.tool = "detach" /\ iamCall.names \cap wantedAccount.policies = {}
               \/ iamCall.tool = "attach" /\ iamCall.names \subseteq wantedAccount.policies
        PROVE  account' = wantedAccount
    <3>1. Undoes(iamCall, wantedAccount)
      BY <2>1, <2>7 DEF IamInv, UndoFits
    <3>2. CASE iamCall.tool = "remove"
      BY <2>1, <2>2, <3>1, <3>2, AppliedShape DEF Undoes
    <3>3. CASE iamCall.tool \in {"enable", "disable"}
      <4>1. /\ account = [wantedAccount EXCEPT !.enabled = account.enabled]
            /\ wantedAccount.enabled = (iamCall.tool = "enable")
        BY <3>1, <3>3 DEF Undoes
      <4>2. account' = [account EXCEPT !.enabled = (iamCall.tool = "enable")]
        BY <2>1, <2>2, <3>3, AppliedShape
      <4> QED
        BY <2>2, <2>3, <3>3, <4>1, <4>2 DEF Account, NoAccount
    <3>4. CASE iamCall.tool = "detach"
      <4>1. account = [wantedAccount EXCEPT !.policies = @ \cup iamCall.names]
        BY <3>1, <3>4 DEF Undoes
      <4>2. account' = [account EXCEPT !.policies = @ \ iamCall.names]
        BY <2>1, <2>2, <3>4, AppliedShape
      <4>3. iamCall.names \cap wantedAccount.policies = {}
        BY <2>7, <3>4
      <4>4. (wantedAccount.policies \cup iamCall.names) \ iamCall.names
              = wantedAccount.policies
        BY <4>3
      <4> QED
        BY <2>2, <2>3, <3>4, <4>1, <4>2, <4>4 DEF Account, NoAccount
    <3>5. CASE iamCall.tool = "attach"
      <4>1. account = [wantedAccount EXCEPT !.policies = @ \ iamCall.names]
        BY <3>1, <3>5 DEF Undoes
      <4>2. account' = [account EXCEPT !.policies = @ \cup iamCall.names]
        BY <2>1, <2>2, <3>5, AppliedShape
      <4>3. iamCall.names \subseteq wantedAccount.policies
        BY <2>7, <3>5
      <4>4. (wantedAccount.policies \ iamCall.names) \cup iamCall.names
              = wantedAccount.policies
        BY <4>3
      <4> QED
        BY <2>2, <2>3, <3>5, <4>1, <4>2, <4>4 DEF Account, NoAccount
    <3> QED
      BY <2>7, <3>2, <3>3, <3>4, <3>5
  <2>8. UndoRestoresAccount'
    BY <2>1, <2>7 DEF UndoRestoresAccount, UndoneQuietly
  <2>9. OwnCredentialKept'
    <3>1. ASSUME own, meddled = "never"
          PROVE  account' = [OwnAccount EXCEPT !.secret = account'.secret]
      <4>1. /\ iamCall.tool = "create"
            /\ account = [OwnAccount EXCEPT !.secret = account.secret]
        BY <2>1, <3>1 DEF IamInv, OnlyCreatesOwn, OwnCredentialKept
      <4>2. account.exists
        BY <4>1 DEF OwnAccount
      <4>3. account' = [account EXCEPT !.secret = "caller"]
        BY <2>1, <2>2, <4>1, <4>2, AppliedShape
      <4> QED
        BY <4>1, <4>3 DEF OwnAccount
    <3> QED
      BY <2>1, <3>1 DEF OwnCredentialKept, OwnAccount
  <2> QED
    BY <1>0, <2>1, <2>4, <2>6, <2>8, <2>9 DEF IamInv, OnlyCreatesOwn, ProbeHolds
<1>6. CASE IamFails
  <2>1. /\ iamCall'.phase = "refused" /\ iamCall'.tool = iamCall.tool
        /\ iamCall'.undoing = iamCall.undoing
        /\ UNCHANGED <<own, account, iamUndo, iamHistory>>
    BY <1>0, <1>6 DEF IamFails, IamCalls
  <2> QED
    BY <1>0, <2>1 DEF iamHistory, IamInv, OnlyCreatesOwn, ProbeHolds, UndoFits,
       OwnCredentialKept, UndoRestoresAccount, UndoneQuietly
<1>7. CASE OthersAdminister
  BY <1>0, <1>7 DEF OthersAdminister, IamInv, OnlyCreatesOwn, ProbeHolds, UndoFits,
     OwnCredentialKept, UndoRestoresAccount, UndoneQuietly
<1>8. CASE UNCHANGED iamVars
  BY <1>0, <1>8 DEF iamVars, iamHistory, IamInv, OnlyCreatesOwn, ProbeHolds, UndoFits, Undoes,
     OwnCredentialKept, UndoRestoresAccount, UndoneQuietly
<1> QED
  BY <1>1, <1>2, <1>3, <1>4, <1>5, <1>6, <1>7, <1>8 DEF IamNext

\* The inductive invariant holds throughout.
THEOREM IamInvariant == IamSpec => []IamInv
<1>1. IamInit => IamInv
  <2>1. ASSUME IamInit PROVE IamTypeOK
    BY <2>1 DEF IamInit, IamTypeOK, NoIamCall, Account, OwnAccount, IamCalls,
       IamPhases, IamTools
  <2>2. ASSUME IamInit
        PROVE  /\ iamCall.phase = "idle" /\ ~iamCall.undoing /\ iamUndo.tool = "none"
               /\ own => account = [OwnAccount EXCEPT !.secret = account.secret]
    BY <2>2 DEF IamInit, NoIamCall, NoRequest, OwnAccount
  <2> QED
    BY <2>1, <2>2 DEF IamInv, OnlyCreatesOwn, ProbeHolds, UndoFits, OwnCredentialKept,
       UndoRestoresAccount, UndoneQuietly
<1> QED
  BY <1>1, IamStepKeeps, PTL DEF IamSpec

\* An undo that landed with nobody else writing has put back what its call found.
THEOREM AccountsRestored == IamSpec => []UndoRestoresAccount
<1>1. IamInv => UndoRestoresAccount
  BY DEF IamInv
<1> QED
  BY <1>1, IamInvariant, PTL

\* The tool's own credential keeps its status and its policies.
THEOREM OwnCredentialSafe == IamSpec => []OwnCredentialKept
<1>1. IamInv => OwnCredentialKept
  BY DEF IamInv
<1> QED
  BY <1>1, IamInvariant, PTL

------------------------------------------------------------------------------
(* SecretFile *)

\* What a command changes in a map is a map.
LEMMA ChangedIsMap ==
  ASSUME NEW cmd \in Commands, NEW data \in Maps, NEW n
  PROVE  Changed(cmd, data, n) \in Maps
<1>1. LegacyValue \in SecretValue
  BY SecretAssumption
<1>2. cmd.kind \notin {"rotate", "migrate"} => cmd.value \in SecretValue \cup {"none"}
  BY DEF Commands
<1> QED
  BY <1>1, <1>2 DEF Changed, Maps

\* A whole blob of a password and a map.
LEMMA BlobIsBlob ==
  ASSUME NEW pw \in Passwords, NEW data \in Maps
  PROVE  /\ Blob(pw, data) \in Blobs
         /\ Blob(pw, data).state = "whole"
         /\ Blob(pw, data).data = data
BY DEF Blob, Blobs

\* What is in the file: nothing, a torn part, or a map sealed with a password.
LEMMA BlobParts ==
  ASSUME NEW b \in Blobs
  PROVE  /\ b.state \in {"missing", "torn", "whole"}
         /\ b.data \in Maps
         /\ b.state = "whole" => b = Blob(b.pw, b.data) /\ b.pw \in Passwords
         /\ b.state # "whole" => b.data = NoSecrets
         /\ b.state = "missing" => b = Missing
         /\ b.state = "torn" => b = Torn
BY DEF Blobs, Blob, Missing, Torn, Maps, NoSecrets

\* Who is under way, and how.
LEMMA WriterKinds ==
  ASSUME SecretTypeOK, NEW w \in Writer
  PROVE  /\ Busy(w) <=> writer[w] \in UnderWay
         /\ Busy(w) \/ writer[w] \in {Idle, Done}
         /\ Busy(w) => writer[w].phase \in {"unlocked", "opened", "written"}
         /\ ~Busy(w) => writer[w].phase \in {"idle", "done"} /\ writer[w].fd = "none"
BY DEF SecretTypeOK, Busy, UnderWay, Idle, Done

\* The password a command writes with.
LEMMA PwAfterIsPassword ==
  ASSUME SecretTypeOK, NEW w \in Writer, Busy(w)
  PROVE  PwAfter(w) \in Passwords
BY WriterKinds DEF PwAfter, Passwords, UnderWay

\* The store starts well typed.
LEMMA InitTypes == SecretInit => SecretTypeOK
<1>1. NoSecrets \in Maps
  BY DEF NoSecrets, Maps
<1>2. Missing \in Blobs /\ Blob("old", NoSecrets) \in Blobs
  BY <1>1 DEF Blobs, Blob, Passwords
<1> QED
  BY <1>1, <1>2 DEF SecretInit, SecretTypeOK

\* A step that only moves one writer, to a state of its type, keeps the types.
LEMMA WriterMoves ==
  ASSUME SecretTypeOK, NEW w \in Writer, NEW s \in UnderWay \cup {Idle, Done},
         writer' = [writer EXCEPT ![w] = s]
  PROVE  writer' \in [Writer -> UnderWay \cup {Idle, Done}]
BY DEF SecretTypeOK

\* Every step of a command, of the server and of time is well typed.
LEMMA StepTypes ==
  ASSUME SecretTypeOK, [SecretNext]_secretVars
  PROVE  SecretTypeOK'
<1>1. ASSUME NEW w \in Writer, NEW cmd \in Commands, NEW pw \in Passwords,
             Begin(w, cmd, pw)
      PROVE  SecretTypeOK'
  <2> DEFINE began == [Idle EXCEPT !.phase = "unlocked", !.cmd = cmd, !.pw = pw,
                         !.data = file.data, !.todo = Names(cmd)]
  <2>1. Names(cmd) \in SUBSET (SecretName \cup {"password"})
    BY SecretAssumption DEF Commands, Names
  <2>2. file.data \in Maps
    BY BlobParts DEF SecretTypeOK
  <2>3. began \in UnderWay
    BY <2>1, <2>2 DEF UnderWay, Idle
  <2>4. writer' = [writer EXCEPT ![w] = began] \/ writer' = [writer EXCEPT ![w] = Done]
    BY <1>1 DEF Begin
  <2>5. writer' \in [Writer -> UnderWay \cup {Idle, Done}]
    BY <2>3, <2>4, WriterMoves
  <2> QED
    BY <1>1, <2>5 DEF Begin, SecretTypeOK
<1>2. ASSUME NEW w \in Writer, Open(w)
      PROVE  SecretTypeOK'
  <2> DEFINE opened == [writer[w] EXCEPT !.phase = "opened", !.fd = "tmp"]
  <2>1. writer[w] \in UnderWay
    BY <1>2, WriterKinds DEF Open, Busy
  <2>2. opened \in UnderWay
    BY <2>1 DEF UnderWay
  <2>3. writer' = [writer EXCEPT ![w] = opened]
    BY <1>2 DEF Open, SecretTypeOK
  <2>4. writer' \in [Writer -> UnderWay \cup {Idle, Done}]
    BY <2>2, <2>3, WriterMoves
  <2> QED
    BY <1>2, <2>4 DEF Open, SecretTypeOK, Blobs
<1>3. ASSUME NEW w \in Writer, Write(w)
      PROVE  SecretTypeOK'
  <2> DEFINE n == CHOOSE x \in writer[w].todo : TRUE
             data == Changed(writer[w].cmd, writer[w].data, n)
             blob == Blob(PwAfter(w), data)
             wrote == [writer[w] EXCEPT !.phase = "written", !.data = data]
  <2>1. writer[w] \in UnderWay /\ Busy(w)
    BY <1>3, WriterKinds DEF Write, Busy
  <2>2. data \in Maps
    BY <2>1, ChangedIsMap DEF UnderWay
  <2>3. blob \in Blobs /\ blob.data = data
    BY <2>1, <2>2, PwAfterIsPassword, BlobIsBlob
  <2>4. wrote \in UnderWay
    BY <2>1, <2>2 DEF UnderWay
  <2>5. writer' = [writer EXCEPT ![w] = wrote]
    BY <1>3, <2>3 DEF Write
  <2>6. writer' \in [Writer -> UnderWay \cup {Idle, Done}]
    BY <2>4, <2>5, WriterMoves
  <2>7. tmp' \in {blob, Torn, tmp} /\ file' \in {blob, Torn, file}
    BY <1>3 DEF Write
  <2> QED
    BY <1>3, <2>3, <2>6, <2>7 DEF Write, SecretTypeOK, Blobs
<1>4. ASSUME NEW w \in Writer, Rename(w)
      PROVE  SecretTypeOK'
  <2> DEFINE me == writer[w]
             n == CHOOSE x \in me.todo : TRUE
             data == Changed(me.cmd, ledger.data, n)
  <2>1. me \in UnderWay /\ Busy(w)
    BY <1>4, WriterKinds DEF Rename, Busy
  <2>2. data \in Maps
    BY <2>1, BlobParts, ChangedIsMap DEF UnderWay, SecretTypeOK
  <2>3. Blob(PwAfter(w), data) \in Blobs
    BY <2>1, <2>2, PwAfterIsPassword, BlobIsBlob
  <2>4. CASE tmp.state = "missing"
    BY <1>4, <2>4, WriterMoves DEF Rename, SecretTypeOK
  <2>5. CASE tmp.state # "missing"
    <3> DEFINE more == [me EXCEPT !.phase = "unlocked", !.todo = @ \ {n}, !.fd = "none"]
    <3>1. more \in UnderWay
      BY <2>1 DEF UnderWay
    <3>2. ASSUME NEW v \in Writer
          PROVE  writer'[v] \in UnderWay \cup {Idle, Done}
      <4>1. CASE v = w
        BY <1>4, <2>5, <3>1, <4>1 DEF Rename
      <4>2. CASE v # w
        <5>1. writer[v] \in UnderWay \/ writer[v].fd = "none"
          BY WriterKinds
        <5>2. writer'[v] \in {writer[v], [writer[v] EXCEPT !.fd = "file"],
                               [writer[v] EXCEPT !.fd = "unlinked"]}
          BY <1>4, <2>5, <4>2 DEF Rename
        <5>3. writer[v].fd = "none" => writer'[v] = writer[v]
          BY <1>4, <2>5, <4>2 DEF Rename
        <5>4. writer[v] \in UnderWay => writer'[v] \in UnderWay
          BY <5>2 DEF UnderWay
        <5> QED
          BY <5>1, <5>3, <5>4 DEF SecretTypeOK
      <4> QED
        BY <4>1, <4>2
    <3>3. writer' \in [Writer -> UnderWay \cup {Idle, Done}]
      BY <1>4, <2>5, <3>2 DEF Rename
    <3>4. file' = tmp /\ tmp' = Missing /\ ledger' = Blob(PwAfter(w), data)
      BY <1>4, <2>5 DEF Rename
    <3> QED
      BY <1>4, <2>3, <3>3, <3>4 DEF Rename, SecretTypeOK, Blobs
  <2> QED
    BY <2>4, <2>5
<1>5. ASSUME NEW w \in Writer, PutAside(w) \/ Die(w)
      PROVE  SecretTypeOK'
  BY <1>5, WriterMoves DEF PutAside, Die, SecretTypeOK
<1>6. ASSUME NEW k \in SecretName, NEW legacy \in BOOLEAN, Resolve(k, legacy)
      PROVE  SecretTypeOK'
  <2>1. file.data \in Maps
    BY BlobParts DEF SecretTypeOK
  <2> QED
    BY <1>6, <2>1 DEF Resolve, SecretTypeOK
<1>7. CASE UNCHANGED secretVars
  BY <1>7 DEF secretVars, SecretTypeOK
<1> QED
  BY <1>1, <1>2, <1>3, <1>4, <1>5, <1>6, <1>7 DEF SecretNext

\* Until commands overlap, whoever is under way is alone.
LEMMA OthersIdle ==
  ASSUME SecretInv, ~overlapped, NEW w \in Writer, Busy(w)
  PROVE  /\ InStep(w)
         /\ \A v \in Writer \ {w} : ~Busy(v) /\ writer[v] \in {Idle, Done} /\ writer[v].fd = "none"
BY WriterKinds DEF SecretInv, Alone

\* If only w moves, only w need be looked at.
LEMMA LoneStep ==
  ASSUME NEW w \in Writer,
         \A v \in Writer \ {w} : ~Busy(v) /\ writer'[v] = writer[v],
         Busy(w)' => InStep(w)'
  PROVE  Alone' /\ \A v \in Writer : Busy(v)' => InStep(v)'
<1>1. \A v \in Writer \ {w} : ~Busy(v)'
  BY DEF Busy
<1> QED
  BY <1>1 DEF Alone

\* A step of a command, while no other is under way.
LEMMA CommandStep ==
  ASSUME SecretInv, SecretTypeOK', ~overlapped', NEW w \in Writer,
         \/ \E cmd \in Commands, pw \in Passwords : Begin(w, cmd, pw)
         \/ Open(w) \/ Write(w) \/ Rename(w) \/ PutAside(w) \/ Die(w)
  PROVE  /\ Alone' /\ \A v \in Writer : Busy(v)' => InStep(v)'
         /\ StoreKeepsUpdates'
         /\ file'.state # "torn"
<1> DEFINE me == writer[w]
           n == CHOOSE x \in me.todo : TRUE
<1>1. /\ SecretTypeOK /\ ~overlapped
      /\ file = ledger /\ file.state # "torn"
  <2>1. ~overlapped
    BY DEF Begin, Open, Write, Rename, PutAside, Die
  <2> QED
    BY <2>1 DEF SecretInv, StoreKeepsUpdates
<1>2. ASSUME NEW cmd \in Commands, NEW pw \in Passwords, Begin(w, cmd, pw)
      PROVE  /\ Alone' /\ \A v \in Writer : Busy(v)' => InStep(v)'
             /\ StoreKeepsUpdates' /\ file'.state # "torn"
  <2> DEFINE began == [Idle EXCEPT !.phase = "unlocked", !.cmd = cmd, !.pw = pw,
                         !.data = file.data, !.todo = Names(cmd)]
  <2>1. /\ \A v \in Writer : ~Busy(v)
        /\ UNCHANGED <<file, ledger>>
        /\ \A v \in Writer \ {w} : writer'[v] = writer[v]
    BY <1>1, <1>2 DEF Begin, SecretTypeOK
  <2>2. writer'[w] \in {began, Done} /\ (writer'[w] = began => Unlocks(pw))
    BY <1>1, <1>2 DEF Begin, SecretTypeOK, Done, Idle
  <2>3. /\ began.phase = "unlocked" /\ began.data = file.data /\ began.pw = pw
        /\ began.cmd = cmd /\ began.todo = Names(cmd)
        /\ cmd.kind = "migrate" => Names(cmd) = Legacy
    BY DEF Idle, Names
  <2>4. Busy(w)' => InStep(w)'
    <3>1. CASE writer'[w] = began
      BY <2>1, <2>2, <2>3, <3>1 DEF InStep, Unlocks, Missing
    <3>2. CASE writer'[w] = Done
      BY <3>2 DEF Busy, Done
    <3> QED
      BY <2>2, <3>1, <3>2
  <2> QED
    BY <1>1, <2>1, <2>4, LoneStep DEF StoreKeepsUpdates
<1>3. ASSUME Open(w) \/ Write(w) \/ Rename(w) \/ PutAside(w) \/ Die(w)
      PROVE  Busy(w) /\ me \in UnderWay /\ InStep(w)
             /\ \A v \in Writer \ {w} : ~Busy(v) /\ writer[v] \in {Idle, Done} /\ writer[v].fd = "none"
  <2>1. Busy(w)
    BY <1>3 DEF Open, Write, Rename, PutAside, Die, Busy
  <2> QED
    BY <1>1, <2>1, OthersIdle, WriterKinds
<1>4. CASE Open(w)
  <2>1. /\ \A v \in Writer \ {w} : writer'[v] = writer[v]
        /\ UNCHANGED <<file, ledger>> /\ tmp' = Torn
        /\ writer'[w] = [me EXCEPT !.phase = "opened", !.fd = "tmp"]
        /\ me.phase = "unlocked" /\ me.todo # {}
    BY <1>1, <1>4 DEF Open, SecretTypeOK
  <2>2. InStep(w)'
    BY <1>3, <1>4, <2>1 DEF InStep, UnderWay
  <2> QED
    BY <1>1, <1>3, <1>4, <2>1, <2>2, LoneStep DEF StoreKeepsUpdates
<1>5. CASE Write(w)
  <2> DEFINE data == Changed(me.cmd, me.data, n)
             blob == Blob(PwAfter(w), data)
             wrote == [me EXCEPT !.phase = "written", !.data = data]
  <2>1. /\ me.phase = "opened" /\ me.fd = "tmp" /\ tmp = Torn /\ me.data = file.data
        /\ me.todo # {}
    BY <1>3, <1>5 DEF Write, InStep
  <2>2. blob.data = data
    BY DEF Blob
  <2>3. /\ tmp' = blob /\ file' = file /\ ledger' = ledger
        /\ writer'[w] = wrote
        /\ \A v \in Writer \ {w} : writer'[v] = writer[v]
    BY <1>1, <1>5, <2>1, <2>2 DEF Write, Torn, SecretTypeOK
  <2>4. /\ wrote.phase = "written" /\ wrote.data = data /\ wrote.fd = "tmp"
        /\ wrote.todo = me.todo /\ wrote.cmd = me.cmd /\ wrote.pw = me.pw
    BY <1>3, <1>5, <2>1 DEF UnderWay
  <2>5. PwAfter(w)' = PwAfter(w)
    BY <2>3, <2>4 DEF PwAfter
  <2>6. InStep(w)'
    BY <1>3, <1>5, <2>1, <2>2, <2>3, <2>4, <2>5 DEF InStep
  <2> QED
    BY <1>1, <1>3, <1>5, <2>3, <2>6, LoneStep DEF StoreKeepsUpdates
<1>6. CASE Rename(w)
  <2> DEFINE data == Changed(me.cmd, file.data, n)
             more == [me EXCEPT !.phase = "unlocked", !.todo = @ \ {n}, !.fd = "none"]
  <2>1. /\ me.phase = "written" /\ tmp = Blob(PwAfter(w), data) /\ me.data = tmp.data
        /\ me.todo # {}
    BY <1>3, <1>6 DEF Rename, InStep
  <2>2. tmp.state = "whole" /\ tmp.data = data
    BY <2>1 DEF Blob
  <2>3. /\ file' = tmp /\ ledger' = tmp
        /\ writer'[w] = IF me.cmd.kind = "migrate" THEN more ELSE Done
        /\ \A v \in Writer \ {w} : writer'[v] = writer[v]
    BY <1>1, <1>3, <1>6, <2>1, <2>2 DEF Rename
  <2>4. ASSUME me.cmd.kind = "migrate"
        PROVE  InStep(w)'
    <3>1. /\ more.phase = "unlocked" /\ more.data = me.data /\ more.cmd = me.cmd
          /\ more.todo = me.todo \ {n} /\ more.pw = me.pw
      BY <1>3, <1>6 DEF UnderWay
    <3>2. n \in me.todo
      BY <2>1
    <3>3. file.data \in Maps
      BY <1>1, BlobParts DEF SecretTypeOK
    <3>4. \A m \in Legacy \ (me.todo \ {n}) : data[m] = LegacyValue
      BY <1>3, <1>6, <2>4, <3>3, SecretAssumption DEF Changed, Maps, InStep
    <3>5. writer'[w] = more
      BY <2>3, <2>4
    <3>6. file'.pw = me.pw /\ me.todo \subseteq Names(me.cmd)
      BY <1>3, <1>6, <2>1, <2>3, <2>4 DEF Blob, PwAfter, InStep
    <3> QED
      BY <2>1, <2>2, <2>3, <3>1, <3>4, <3>5, <3>6 DEF InStep
  <2>5. Busy(w)' => InStep(w)'
    BY <2>3, <2>4 DEF Busy, Done
  <2> QED
    BY <1>3, <1>6, <2>2, <2>3, <2>5, LoneStep DEF StoreKeepsUpdates
<1>7. CASE PutAside(w) \/ Die(w)
  <2>1. /\ writer'[w] = Done /\ UNCHANGED <<file, ledger>>
        /\ \A v \in Writer \ {w} : writer'[v] = writer[v]
    BY <1>1, <1>7 DEF PutAside, Die, SecretTypeOK
  <2>2. ~Busy(w)'
    BY <2>1 DEF Busy, Done
  <2> QED
    BY <1>1, <1>3, <1>7, <2>1, <2>2, LoneStep DEF StoreKeepsUpdates
<1> QED
  BY <1>2, <1>4, <1>5, <1>6, <1>7

\* The server's answer and its map, when it resolves a secret.
LEMMA ResolveStep ==
  ASSUME SecretInv, ~overlapped, NEW k \in SecretName, NEW legacy \in BOOLEAN,
         Resolve(k, legacy)
  PROVE  CacheFromStore' /\ AnswersFromStore' /\ (Held' => file'.state # "missing")
<1> DEFINE answer == Answers(k, legacy)
<1>1. /\ SecretTypeOK /\ file = ledger /\ file.state # "torn"
      /\ Held => cached = seen.data
      /\ Held => file.state # "missing"
  BY DEF SecretInv, StoreKeepsUpdates, CacheFromStore
<1>2. /\ file.state \in {"missing", "whole"}
      /\ file.state = "missing" => file.data[k] = "none"
  BY <1>1, BlobParts DEF SecretTypeOK, NoSecrets
<1>3. /\ served'.source = answer.source /\ served'.value = answer.value
      /\ served'.had = IF Held THEN seen.data[k] ELSE file.data[k]
  BY <1>1 DEF Resolve
<1>4. (IF Held THEN seen.data[k] ELSE file.data[k]) = MapNow[k]
  BY <1>1 DEF MapNow
<1>5. /\ answer.source = "store" => answer.value = MapNow[k]
      /\ answer.source = "environment" => MapNow[k] = "none"
  <2>1. Held => Readable
    BY DEF Readable
  <2>2. file.state = "missing" => MapNow[k] = "none"
    BY <1>1, <1>2 DEF MapNow
  <2> QED
    BY <1>2, <2>2 DEF Answers
<1>6. AnswersFromStore'
  BY <1>3, <1>4, <1>5 DEF AnswersFromStore
<1>7. CacheFromStore' /\ (Held' => file'.state # "missing")
  BY <1>1 DEF Resolve, CacheFromStore, Held
<1> QED
  BY <1>6, <1>7

\* SecretInv is inductive.
LEMMA SecretStepKeeps ==
  ASSUME SecretInv, [SecretNext]_secretVars
  PROVE  SecretInv'
<1>1. SecretTypeOK'
  BY StepTypes DEF SecretInv
<1>2. overlapped => overlapped'
  BY DEF SecretNext, secretVars, Begin, Open, Write, Rename, PutAside, Die, Resolve, SecretInv,
         SecretTypeOK
<1>3. CASE UNCHANGED secretVars
  BY <1>3 DEF secretVars, SecretInv, SecretTypeOK, Held, Alone, Busy, InStep, PwAfter,
              StoreKeepsUpdates, CacheFromStore, AnswersFromStore
<1>4. ASSUME NEW w \in Writer,
             \/ \E cmd \in Commands, pw \in Passwords : Begin(w, cmd, pw)
             \/ Open(w) \/ Write(w) \/ Rename(w) \/ PutAside(w) \/ Die(w)
      PROVE  SecretInv'
  <2>1. UNCHANGED <<cached, served, seen>>
    BY <1>4 DEF Begin, Open, Write, Rename, PutAside, Die
  <2>2. Held' => file'.state # "missing"
    <3>1. \/ file' = file
          \/ file' = tmp /\ tmp.state # "missing"
          \/ file'.state \in {"whole", "torn"}
      <4>1. ASSUME Write(w)
            PROVE  file' = file \/ file'.state \in {"whole", "torn"}
        BY <4>1 DEF Write, Blob, Torn
      <4> QED
        BY <1>4, <4>1 DEF Begin, Open, Rename, PutAside, Die
    <3> QED
      BY <2>1, <3>1 DEF Held, SecretInv
  <2>3. CacheFromStore /\ AnswersFromStore => CacheFromStore' /\ (~overlapped => AnswersFromStore')
    BY <2>1 DEF CacheFromStore, AnswersFromStore, Held
  <2> QED
    BY <1>1, <1>2, <1>4, <2>2, <2>3, CommandStep DEF SecretInv
<1>5. ASSUME NEW k \in SecretName, NEW legacy \in BOOLEAN, Resolve(k, legacy)
      PROVE  SecretInv'
  <2>1. UNCHANGED <<file, tmp, writer, ledger, overlapped>>
    BY <1>5 DEF Resolve
  <2>2. Held' => file'.state # "missing"
    BY <1>5, <2>1 DEF Resolve, Held, SecretInv
  <2>3. ~overlapped => CacheFromStore' /\ AnswersFromStore'
    BY <1>5, ResolveStep
  <2>4. ~overlapped => /\ Alone' /\ StoreKeepsUpdates' /\ file'.state # "torn"
                       /\ \A w \in Writer : Busy(w)' => InStep(w)'
    BY <2>1 DEF SecretInv, Alone, Busy, InStep, PwAfter, StoreKeepsUpdates
  <2> QED
    BY <1>1, <2>1, <2>2, <2>3, <2>4 DEF SecretInv
<1> QED
  BY <1>3, <1>4, <1>5 DEF SecretNext

\* The inductive invariant holds throughout.
THEOREM SecretInvariant == SecretSpec => []SecretInv
<1>1. SecretInit => SecretInv
  BY InitTypes DEF SecretInit, SecretInv, Held, Missing, Blob, Alone, Busy, Idle,
     StoreKeepsUpdates, CacheFromStore, AnswersFromStore
<1> QED
  BY <1>1, SecretStepKeeps, PTL DEF SecretSpec

\* Until two commands overlap, the store is what the completed renames made
\* of it, wherever a command died.
THEOREM UpdatesKept == SecretSpec => []StoreKeepsUpdates
<1>1. SecretInv => StoreKeepsUpdates
  BY DEF SecretInv, StoreKeepsUpdates
<1> QED
  BY <1>1, SecretInvariant, PTL

\* A password that does not fit never looks like a missing secret.
THEOREM AnswersKept == SecretSpec => []AnswersFromStore
<1>1. SecretInv => AnswersFromStore
  BY DEF SecretInv, AnswersFromStore
<1> QED
  BY <1>1, SecretInvariant, PTL

\* The plaintext goes last.
THEOREM MigrationComplete == SecretSpec => MigratedBeforePutAside
<1>1. ASSUME SecretInv, [SecretNext]_secretVars, env' # env, ~overlapped,
             NEW k \in Legacy
      PROVE  file.data[k] = LegacyValue
  <2>1. PICK w \in Writer : PutAside(w)
    BY <1>1 DEF SecretNext, secretVars, Begin, Open, Write, Rename, Die, Resolve
  <2>2. Busy(w) /\ writer[w].cmd.kind = "migrate" /\ writer[w].todo = {}
    BY <2>1 DEF PutAside, Busy
  <2>3. InStep(w)
    BY <1>1, <2>2 DEF SecretInv
  <2> QED
    BY <2>2, <2>3 DEF InStep
<1>2. SecretInv /\ [SecretNext]_secretVars => [PutAsideComplete]_secretVars
  BY <1>1 DEF PutAsideComplete
<1> QED
  BY <1>2, SecretInvariant, PTL DEF SecretSpec, MigratedBeforePutAside

\* A file that is renamed into place is a change of one secret, or of the
\* password.
LEMMA RenameIsChange ==
  ASSUME SecretInv, ~overlapped, NEW w \in Writer, Rename(w)
  PROVE  Atomic!Next
<1> DEFINE me == writer[w]
           n  == CHOOSE x \in me.todo : TRUE
<1>1. Busy(w) /\ me \in UnderWay /\ me.phase = "written"
  BY WriterKinds DEF Rename, Busy, SecretInv
<1>2. InStep(w) /\ file \in Blobs /\ file.state \in {"missing", "whole"}
  BY <1>1, BlobParts DEF SecretInv, SecretTypeOK
<1>3. /\ tmp = Blob(PwAfter(w), Changed(me.cmd, file.data, n))
      /\ n \in Names(me.cmd)
      /\ file.state = "whole" => me.pw = file.pw
  BY <1>1, <1>2 DEF InStep
<1>4. /\ file' = Blob(PwAfter(w), Changed(me.cmd, file.data, n))
      /\ UNCHANGED <<env, seen, served, overlapped>>
  BY <1>3 DEF Rename, Blob
<1>5. me.cmd \in Commands /\ me.pw \in {"old", "new"}
  BY <1>1 DEF UnderWay, Passwords
<1>6. CASE me.cmd.kind = "rotate"
  <2>1. Atomic!Rotate
    BY <1>4, <1>6 DEF Atomic!Rotate, Atomic!Sealed, Blob, PwAfter, Changed
  <2> QED
    BY <2>1 DEF Atomic!Next
<1>7. CASE me.cmd.kind # "rotate"
  <2> DEFINE v == IF me.cmd.kind = "migrate" THEN LegacyValue ELSE me.cmd.value
  <2>1. n \in SecretName /\ v \in SecretValue \cup {"none"}
    BY <1>3, <1>5, <1>7, SecretAssumption DEF Commands, Names
  <2>2. Changed(me.cmd, file.data, n) = [file.data EXCEPT ![n] = v]
    BY <1>7 DEF Changed
  <2>3. Atomic!Put(n, v)
    <3>1. PwAfter(w) = me.pw
      BY <1>7 DEF PwAfter
    <3> QED
      BY <1>3, <1>4, <1>5, <2>2, <3>1 DEF Atomic!Put, Atomic!Sealed, Blob
  <2> QED
    BY <2>1, <2>3 DEF Atomic!Next
<1> QED
  BY <1>6, <1>7

\* The server answers as promised.
LEMMA ResolveIsAnswer ==
  ASSUME SecretInv, ~overlapped, NEW k \in SecretName, NEW legacy \in BOOLEAN,
         Resolve(k, legacy)
  PROVE  Atomic!Answer(k)
<1> DEFINE current == IF seen.state = "missing" THEN file ELSE seen
           refused == seen.state = "missing" /\ file.pw = "new"
           given   == [source |-> served.source, value |-> served.value]
<1>1. /\ file = ledger /\ file \in Blobs /\ file.state # "torn"
      /\ seen \in Blobs
      /\ Held => cached = seen.data /\ file.state # "missing"
  BY DEF SecretInv, SecretTypeOK, StoreKeepsUpdates, CacheFromStore
<1>2. /\ file.state = "missing" => file = Missing
      /\ file.state # "missing" => file.state = "whole" /\ file.pw \in {"old", "new"}
      /\ seen.state = "missing" => seen = Missing
  BY <1>1, BlobParts DEF Passwords
<1>3. seen = Missing <=> seen.state = "missing"
  BY <1>2 DEF Missing
<1>4. Missing.pw = "none" /\ Missing.data[k] = "none"
  BY DEF Missing, NoSecrets
<1>5. /\ served'.source = Answers(k, legacy).source
      /\ served'.value = Answers(k, legacy).value
      /\ seen' = IF file.state # "missing" /\ ~Held /\ Readable THEN file ELSE seen
      /\ UNCHANGED <<file, env, overlapped>>
  BY <1>1 DEF Resolve
<1>6. Readable <=> (seen.state # "missing" \/ file.state = "missing" \/ file.pw = "old")
  BY <1>1, <1>2 DEF Readable, Held, Unlocks
<1>7. seen' = IF refused THEN seen ELSE current
  BY <1>2, <1>4, <1>5, <1>6 DEF Held
<1>8. ~refused /\ file.state # "missing" => MapNow[k] = current.data[k]
  BY <1>1 DEF MapNow, Held
<1>9. file.state = "missing" => ~refused /\ current.data[k] = "none"
  BY <1>1, <1>2, <1>4 DEF Held
<1>10. given' \in
         IF refused THEN {[source |-> "refused", value |-> "none"]}
         ELSE IF current.data[k] # "none"
         THEN {[source |-> "store", value |-> current.data[k]]}
         ELSE {[source |-> "nothing", value |-> "none"],
               [source |-> "environment", value |-> "legacy"]}
  <2>1. CASE refused
    <3>1. ~Readable /\ file.state = "whole"
      BY <1>2, <1>4, <1>6, <2>1
    <3> QED
      BY <1>5, <2>1, <3>1 DEF Answers
  <2>2. CASE ~refused
    <3>1. Readable
      BY <1>2, <1>6, <2>2
    <3>2. /\ Answers(k, legacy).source = "store" /\ Answers(k, legacy).value = current.data[k]
             /\ current.data[k] # "none"
          \/ /\ current.data[k] = "none"
             /\ \/ Answers(k, legacy) = [source |-> "environment", value |-> "legacy"]
                \/ Answers(k, legacy) = [source |-> "nothing", value |-> "none"]
      BY <1>8, <1>9, <2>2, <3>1 DEF Answers
    <3> QED
      BY <1>5, <2>2, <3>2
  <2> QED
    BY <2>1, <2>2
<1> QED
  BY <1>3, <1>5, <1>7, <1>10 DEF Atomic!Answer, Atomic!None, Missing, NoSecrets

\* Every step of the store looks like one that was promised, or like none.
LEMMA SecretStepSimulates ==
  ASSUME SecretInv, [SecretNext]_secretVars
  PROVE  Atomic!Next \/ UNCHANGED Atomic!vars
<1>1. CASE overlapped'
  BY <1>1 DEF Atomic!Next, Atomic!Overlap
<1>2. CASE ~overlapped'
  <2>1. ~overlapped
    BY <1>2 DEF SecretNext, secretVars, Begin, Open, Write, Rename, PutAside, Die, Resolve
  <2>2. ASSUME NEW w \in Writer, NEW cmd \in Commands, NEW pw \in Passwords,
               Begin(w, cmd, pw)
        PROVE  UNCHANGED <<file, env, seen, served, overlapped>>
    BY <1>2, <2>1, <2>2 DEF Begin, SecretInv, SecretTypeOK
  <2>3. ASSUME NEW w \in Writer, Open(w) \/ Die(w)
        PROVE  UNCHANGED <<file, env, seen, served, overlapped>>
    BY <2>3 DEF Open, Die
  <2>4. ASSUME NEW w \in Writer, Write(w)
        PROVE  UNCHANGED <<file, env, seen, served, overlapped>>
    <3>1. InStep(w)
      BY <2>1, <2>4 DEF SecretInv, Write, Busy
    <3>2. writer[w].fd = "tmp"
      BY <2>4, <3>1 DEF Write, InStep
    <3> QED
      BY <2>4, <3>2 DEF Write
  <2>5. ASSUME NEW w \in Writer, PutAside(w)
        PROVE  Atomic!Next
    <3>1. InStep(w) /\ writer[w].todo = {} /\ writer[w].cmd.kind = "migrate"
      BY <2>1, <2>5 DEF SecretInv, PutAside, Busy
    <3>2. Atomic!PutAside
      BY <2>5, <3>1 DEF PutAside, InStep, Atomic!PutAside
    <3> QED
      BY <3>2 DEF Atomic!Next
  <2>6. ASSUME NEW k \in SecretName, NEW legacy \in BOOLEAN, Resolve(k, legacy)
        PROVE  Atomic!Next
    BY <2>1, <2>6, ResolveIsAnswer DEF Atomic!Next
  <2>7. CASE UNCHANGED secretVars
    BY <2>7 DEF secretVars, Atomic!vars
  <2> QED
    BY <2>1, <2>2, <2>3, <2>4, <2>5, <2>6, <2>7, RenameIsChange DEF SecretNext, Atomic!vars
<1> QED
  BY <1>1, <1>2

\* The file with its temporary file, its commands and its server implements the
\* promised store, for any commands, names and values.
THEOREM StoreImplements == SecretSpec => StoreIsAtomic
<1>1. SecretInit => Atomic!Init
  BY DEF SecretInit, Atomic!Init, Atomic!None, Atomic!Sealed, Missing, Blob, NoSecrets
<1>2. SecretInv /\ [SecretNext]_secretVars => [Atomic!Next]_(Atomic!vars)
  BY SecretStepSimulates
<1> QED
  BY <1>1, <1>2, SecretInvariant, PTL DEF SecretSpec, StoreIsAtomic, Atomic!Spec
=============================================================================
