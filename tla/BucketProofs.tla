---------------------------- MODULE BucketProofs ----------------------------
(***************************************************************************)
(* Theorems of BucketLife and ObjectLocks, for every set of uploads and     *)
(* every grain, day and number of versions: what a create reports and what  *)
(* its undo deletes, what a preview foretells, what a purge spares, and     *)
(* what the guards of object lock promise of the server.                    *)
(***************************************************************************)
EXTENDS BucketLife, ObjectLocks, FiniteSetTheorems, SequenceTheorems, TLAPS

------------------------------------------------------------------------------
(* BucketLife: the bucket *)

\* The fields a step of a call leaves alone or sets.
LEMMA LifeCallStarts ==
  ASSUME NEW tool \in {"create", "delete"}, NEW lock \in BOOLEAN, NEW undoing \in BOOLEAN,
         StartLife(tool, lock, undoing)
  PROVE  /\ lifeCall' \in LifeCalls
         /\ lifeCall'.phase = (IF tool = "create" THEN "making" ELSE "checking")
         /\ lifeCall'.tool = tool /\ lifeCall'.seen = {} /\ lifeCall'.undoing = undoing
<1>1. lifeCall' = [phase |-> IF tool = "create" THEN "making" ELSE "checking", tool |-> tool,
                   lock |-> lock, seen |-> {}, undoing |-> undoing, error |-> FALSE]
  BY DEF StartLife, NoLifeCall
<1> QED
  BY <1>1 DEF LifeCalls, MakingPhases, DeletingPhases

\* BucketInv is inductive.
LEMMA BucketStepKeeps ==
  ASSUME BucketInv, BucketNext \/ UNCHANGED bucketVars
  PROVE  BucketInv'
<1> USE DEF BucketInv
<1>0. bucket \in Buckets /\ lifeCall \in LifeCalls
  BY DEF BucketTypeOK
<1>1. ASSUME NEW tool \in {"create", "delete"}, NEW lock \in BOOLEAN, AskLife(tool, lock)
      PROVE  BucketInv'
  BY <1>1, LifeCallStarts DEF AskLife, BucketTypeOK, CallInPlace, MadeAsAsked, StrangersMark,
     ForecastHolds, VerifiedEmpty, ReportedLockTrue, UndoDeletesOwn, PreviewForetells,
     MakingPhases, DeletingPhases
<1>2. CASE ReplayLife
  BY <1>2, LifeCallStarts DEF ReplayLife, BucketTypeOK, CallInPlace, MadeAsAsked,
     StrangersMark, ForecastHolds, VerifiedEmpty, ReportedLockTrue, UndoDeletesOwn,
     PreviewForetells, MakingPhases, DeletingPhases
<1>3. CASE LeaveLife
  <2>1. /\ lifeCall' \in LifeCalls /\ lifeCall'.phase = "idle" /\ lifeCall'.tool = "none"
        /\ removed' = "nobody" /\ lifeUndo' = FALSE
        /\ UNCHANGED <<bucket, forecast, estranged>>
    BY <1>3 DEF LeaveLife, NoLifeCall, LifeCalls
  <2> QED
    BY <2>1 DEF BucketTypeOK, CallInPlace, MadeAsAsked, StrangersMark, ForecastHolds,
       VerifiedEmpty, ReportedLockTrue, UndoDeletesOwn, PreviewForetells, MakingPhases,
       DeletingPhases
<1>4. CASE Make
  <2>1. /\ lifeCall.phase = "making" /\ lifeCall' \in LifeCalls
        /\ lifeCall'.phase = "reading lock" /\ lifeCall'.tool = lifeCall.tool
        /\ lifeCall'.lock = lifeCall.lock /\ lifeCall'.seen = lifeCall.seen
        /\ bucket' \in Buckets /\ bucket'.exists /\ bucket'.lock = lifeCall.lock
        /\ bucket'.maker = "us"
        /\ ~estranged' /\ estranged' \in BOOLEAN /\ forecast' = "none"
        /\ UNCHANGED <<lifeUndo, removed>>
    BY <1>0, <1>4 DEF Make, LifeCalls, Buckets, MakingPhases
  <2> QED
    BY <2>1 DEF BucketTypeOK, CallInPlace, MadeAsAsked, StrangersMark, ForecastHolds,
       ReportedLockTrue, UndoDeletesOwn, PreviewForetells, MakingPhases, DeletingPhases
<1>5. ASSUME NEW read \in BOOLEAN, ReadBackLock(read)
      PROVE  BucketInv'
  <2>1. /\ lifeCall.phase = "reading lock" /\ lifeCall.tool = "create"
        /\ lifeCall'.phase \in {"reading versioning", "answered"}
        /\ lifeCall'.phase = "reading versioning" => bucket.exists
        /\ lifeCall'.tool = lifeCall.tool /\ lifeCall'.lock = lifeCall.lock
        /\ lifeCall'.seen = Seen(read)
        /\ UNCHANGED <<bucket, forecast, estranged, removed>>
    BY <1>0, <1>5 DEF ReadBackLock, LifeCalls, CallInPlace, MakingPhases
  <2>2. Seen(read) \in SUBSET BOOLEAN /\ Seen(read) \subseteq {bucket.lock}
    BY <1>0 DEF Seen, Buckets
  <2>3. lifeCall' \in LifeCalls
    BY <1>0, <1>5, <2>2 DEF ReadBackLock, LifeCalls, MakingPhases
  <2>4. lifeUndo' = (lifeCall'.phase = "answered")
    BY <1>5, <2>1 DEF ReadBackLock, BucketTypeOK
  <2> QED
    BY <2>1, <2>2, <2>3, <2>4 DEF BucketTypeOK, CallInPlace, MadeAsAsked, StrangersMark,
       ForecastHolds, VerifiedEmpty, ReportedLockTrue, UndoDeletesOwn, PreviewForetells,
       MakingPhases, DeletingPhases
<1>6. ASSUME NEW read \in BOOLEAN, ReadBackVersioning(read)
      PROVE  BucketInv'
  <2>1. /\ lifeCall.phase = "reading versioning" /\ lifeCall.tool = "create"
        /\ lifeCall' \in LifeCalls /\ lifeCall'.phase = "answered"
        /\ lifeCall'.tool = lifeCall.tool /\ lifeCall'.lock = lifeCall.lock
        /\ lifeCall'.seen = lifeCall.seen
        /\ lifeUndo' = TRUE
        /\ UNCHANGED <<bucket, forecast, estranged, removed>>
    BY <1>0, <1>6 DEF ReadBackVersioning, LifeCalls, CallInPlace, MakingPhases, Buckets
  <2> QED
    BY <2>1 DEF BucketTypeOK, CallInPlace, MadeAsAsked, StrangersMark, ForecastHolds,
       VerifiedEmpty, ReportedLockTrue, UndoDeletesOwn, PreviewForetells, MakingPhases,
       DeletingPhases
<1>7. CASE PreviewDelete
  BY <1>7 DEF PreviewDelete, PreviewOk, BucketTypeOK, CallInPlace, MadeAsAsked,
     StrangersMark, ForecastHolds, VerifiedEmpty, ReportedLockTrue, UndoDeletesOwn,
     PreviewForetells
<1>8. CASE CheckEmpty
  <2>1. /\ lifeCall.phase = "checking" /\ lifeCall' \in LifeCalls
        /\ lifeCall'.phase = (IF VerifiedEmpty THEN "capturing" ELSE "refused")
        /\ lifeCall'.tool = lifeCall.tool
        /\ UNCHANGED <<bucket, lifeUndo, forecast, estranged, removed>>
    BY <1>0, <1>8 DEF CheckEmpty, LifeCalls, DeletingPhases
  <2> QED
    BY <2>1 DEF BucketTypeOK, CallInPlace, MadeAsAsked, StrangersMark, ForecastHolds,
       VerifiedEmpty, ReportedLockTrue, UndoDeletesOwn, PreviewForetells, MakingPhases,
       DeletingPhases
<1>9. CASE Capture
  <2>1. /\ lifeCall.phase = "capturing" /\ lifeCall' \in LifeCalls
        /\ lifeCall'.phase = "removing" /\ lifeCall'.tool = lifeCall.tool
        /\ UNCHANGED <<bucket, lifeUndo, forecast, estranged, removed>>
    BY <1>0, <1>9 DEF Capture, LifeCalls, DeletingPhases
  <2> QED
    BY <2>1 DEF BucketTypeOK, CallInPlace, MadeAsAsked, StrangersMark, ForecastHolds,
       VerifiedEmpty, ReportedLockTrue, UndoDeletesOwn, PreviewForetells, MakingPhases,
       DeletingPhases
<1>10. CASE RemoveBucket
  <2>1. /\ lifeCall.phase = "removing" /\ lifeCall.tool = "delete"
        /\ lifeCall' \in LifeCalls
        /\ lifeCall'.phase = "answered" /\ lifeCall'.tool = lifeCall.tool
        /\ bucket' = NoBucket /\ forecast' = "none"
        /\ removed' \in {"nobody", bucket.maker}
        /\ UNCHANGED <<lifeUndo, estranged>>
    BY <1>0, <1>10 DEF RemoveBucket, LifeCalls, CallInPlace, DeletingPhases
  <2>2. bucket' \in Buckets /\ bucket'.maker = "nobody"
    BY <2>1 DEF NoBucket, Buckets
  <2>3. removed' \in {"nobody", "us", "others"}
    BY <1>0, <2>1 DEF Buckets
  <2> QED
    BY <2>1, <2>2, <2>3 DEF BucketTypeOK, CallInPlace, MadeAsAsked, StrangersMark,
       ForecastHolds, ReportedLockTrue, UndoDeletesOwn, PreviewForetells, MakingPhases,
       DeletingPhases
<1>11. CASE LifeFails
  <2>1. /\ lifeCall.phase \in {"making", "checking", "removing"}
        /\ lifeCall' \in LifeCalls /\ lifeCall'.phase = "refused" /\ lifeCall'.error
        /\ lifeCall'.tool = lifeCall.tool
        /\ UNCHANGED <<bucket, lifeUndo, forecast, estranged, removed>>
    BY <1>0, <1>11 DEF LifeFails, LifeCalls
  <2> QED
    BY <2>1 DEF BucketTypeOK, CallInPlace, MadeAsAsked, StrangersMark, ForecastHolds,
       VerifiedEmpty, ReportedLockTrue, UndoDeletesOwn, PreviewForetells, MakingPhases,
       DeletingPhases
<1>12. CASE OthersUseBucket
  <2>1. /\ forecast' = "none"
        /\ UNCHANGED <<lifeCall, lifeUndo, removed>>
    BY <1>12 DEF OthersUseBucket
  <2>2. /\ bucket' \in Buckets /\ (bucket'.exists \/ bucket' = NoBucket)
        /\ estranged' \in BOOLEAN
        /\ bucket'.maker = "others" => estranged'
        /\ estranged => estranged'
        /\ ~estranged' => bucket'.exists = bucket.exists /\ bucket'.lock = bucket.lock
    <3>1. CASE bucket.exists /\ bucket' = [bucket EXCEPT !.holds = ~@] /\ estranged' = estranged
      BY <1>0, <3>1 DEF Buckets, BucketTypeOK, StrangersMark
    <3>2. CASE bucket' = NoBucket /\ estranged' = TRUE
      BY <3>2 DEF Buckets, NoBucket
    <3>3. ASSUME NEW lock \in BOOLEAN, estranged' = TRUE,
                 bucket' = [exists |-> TRUE, lock |-> lock, holds |-> FALSE, maker |-> "others"]
          PROVE  /\ bucket' \in Buckets /\ bucket'.exists
                 /\ estranged' \in BOOLEAN /\ estranged'
      BY <3>3 DEF Buckets
    <3> QED
      BY <1>12, <3>1, <3>2, <3>3 DEF OthersUseBucket
  <2> QED
    BY <2>1, <2>2 DEF BucketTypeOK, CallInPlace, MadeAsAsked, StrangersMark, ForecastHolds,
       ReportedLockTrue, UndoDeletesOwn, PreviewForetells
<1>13. CASE UNCHANGED bucketVars
  BY <1>13 DEF bucketVars, BucketTypeOK, CallInPlace, MadeAsAsked, StrangersMark,
     ForecastHolds, VerifiedEmpty, ReportedLockTrue, UndoDeletesOwn, PreviewForetells
<1> QED
  BY <1>1, <1>2, <1>3, <1>4, <1>5, <1>6, <1>7, <1>8, <1>9, <1>10, <1>11, <1>12, <1>13
  DEF BucketNext
------------------------------------------------------------------------------
(* BucketLife: the uploads *)

\* A set of uploads is finite, and so is what is counted of it.
LEMMA UploadsFinite ==
  ASSUME NEW S \in SUBSET Upload
  PROVE  /\ IsFiniteSet(S) /\ Cardinality(S) \in Nat
         /\ Cardinality(S) <= Cardinality(Upload)
<1>1. IsFiniteSet(S) /\ Cardinality(S) <= Cardinality(Upload)
  BY FS_Subset, LifeAssumption
<1>2. Cardinality(S) \in Nat
  BY <1>1, FS_CardinalityType
<1> QED
  BY <1>1, <1>2

\* An upload that is taken out of a set counts one less, one put in one more.
LEMMA UploadsCounted ==
  ASSUME NEW S \in SUBSET Upload, NEW u \in Upload
  PROVE  /\ u \in S => Cardinality(S \ {u}) = Cardinality(S) - 1
         /\ u \notin S => Cardinality(S \cup {u}) = Cardinality(S) + 1
BY UploadsFinite, FS_RemoveElement, FS_AddElement

\* The counts and sets of a purge that has one match less, and one more done.
LEMMA MatchDone ==
  ASSUME UploadInv, NEW u \in purge.left, NEW gone \in {0, 1}, NEW counted \in {0, 1},
         NEW failed \in {0, 1}, counted <= gone, counted + failed = 1,
         inflight' = IF gone = 1 THEN inflight \ {u} ELSE inflight,
         purged' = IF gone = 1 THEN purged \cup {u} ELSE purged,
         purge' = [phase |-> "purging", days |-> purge.days, left |-> purge.left \ {u},
                   matched |-> purge.matched, aborted |-> purge.aborted + counted,
                   failures |-> purge.failures + failed],
         UNCHANGED <<age, dated>>
  PROVE  UploadInv'
<1>0. /\ purge \in Purges /\ purge.left \in SUBSET Upload /\ u \in Upload
      /\ purge.aborted \in Nat /\ purge.failures \in Nat /\ purge.matched \in Nat
      /\ purged \in SUBSET Upload /\ purge.left \cap purged = {}
  BY DEF UploadInv, UploadTypeOK, Purges, PurgeAdds
<1>1. /\ purge' \in Purges /\ purge'.phase = "purging" /\ purge'.days = purge.days
      /\ purge'.left = purge.left \ {u} /\ purge'.matched = purge.matched
      /\ purge'.aborted = purge.aborted + counted
      /\ purge'.failures = purge.failures + failed
  <2>1. /\ purge.left \ {u} \in SUBSET Upload
        /\ purge.aborted + counted \in Nat /\ purge.failures + failed \in Nat
        /\ purge.days \in 0..Oldest
    BY <1>0 DEF Purges
  <2> QED
    BY <1>0, <2>1 DEF Purges
<1>2. /\ Cardinality(purge.left) \in Nat /\ Cardinality(purge'.left) = Cardinality(purge.left) - 1
      /\ Cardinality(purged) \in Nat
      /\ Cardinality(purged') = Cardinality(purged) + gone
  <2>1. u \notin purged
    BY <1>0
  <2> QED
    BY <1>0, <1>1, <2>1, UploadsFinite, UploadsCounted
<1>3. Cardinality(Upload) \in Nat
  BY UploadsFinite
<1>4. PurgeAdds'
  <2>1. \A v \in purge'.left : age'[v] >= purge'.days
    BY <1>1 DEF UploadInv, PurgeAdds
  <2>2. purge'.left \cap purged' = {}
    BY <1>0, <1>1
  <2>3. /\ purge'.aborted + purge'.failures + Cardinality(purge'.left) = purge'.matched
        /\ purge'.matched <= Cardinality(Upload)
        /\ purge'.aborted <= Cardinality(purged')
        /\ Cardinality(purged') + Cardinality(purge'.left) <= purge'.matched
    BY <1>0, <1>1, <1>2, <1>3 DEF UploadInv, PurgeAdds
  <2> QED
    BY <1>1, <2>1, <2>2, <2>3 DEF PurgeAdds
<1>5. UploadTypeOK'
  <2>1. /\ inflight' \subseteq Upload /\ purged' \subseteq Upload \ inflight'
        /\ age' \in [Upload -> 0..Oldest] /\ dated' \in [Upload -> BOOLEAN]
    BY <1>0 DEF UploadInv, UploadTypeOK
  <2> QED
    BY <1>1, <1>4, <2>1 DEF UploadTypeOK, PurgeAdds
<1>6. PurgeSparesYoung'
  BY <1>0, <1>1 DEF UploadInv, PurgeAdds, PurgeSparesYoung
<1> QED
  BY <1>4, <1>5, <1>6 DEF UploadInv

\* UploadInv is inductive.
LEMMA UploadStepKeeps ==
  ASSUME UploadInv, UploadsNext \/ UNCHANGED uploadVars
  PROVE  UploadInv'
<1>0. /\ purge \in Purges /\ purge.left \in SUBSET Upload /\ Oldest \in Nat
      /\ purge.aborted \in Nat /\ purge.failures \in Nat /\ purge.matched \in Nat
      /\ purge.days \in 0..Oldest
      /\ inflight \in SUBSET Upload /\ purged \in SUBSET Upload
      /\ age \in [Upload -> 0..Oldest] /\ dated \in [Upload -> BOOLEAN]
      /\ Cardinality(Upload) \in Nat /\ Cardinality(purged) \in Nat
      /\ Cardinality(purge.left) \in Nat
  BY UploadsFinite, LifeAssumption DEF UploadInv, UploadTypeOK, Purges
<1>1. ASSUME NEW days \in 0..Oldest, StartPurge(days)
      PROVE  UploadInv'
  <2> DEFINE victims == {u \in inflight : ListedAge(u) >= days}
  <2>1. victims \in SUBSET Upload
    BY <1>0
  <2>2. Cardinality(victims) \in Nat /\ Cardinality(victims) <= Cardinality(Upload)
    BY <2>1, UploadsFinite
  <2>3. purge' = [phase |-> "purging", days |-> days, left |-> victims,
                  matched |-> Cardinality(victims), aborted |-> 0, failures |-> 0]
    BY <1>1 DEF StartPurge, NoPurge
  <2>4. \A u \in victims : age[u] >= days
    BY <1>0 DEF ListedAge
  <2>5. purged' = {} /\ Cardinality({}) = 0 /\ UNCHANGED <<inflight, age, dated>>
    BY <1>1, FS_EmptySet DEF StartPurge
  <2>6. PurgeAdds'
    <3> HIDE DEF victims
    <3> QED
      BY <1>0, <2>2, <2>3, <2>4, <2>5 DEF PurgeAdds
  <2>7. UploadTypeOK'
    <3> HIDE DEF victims
    <3> QED
      BY <1>0, <2>1, <2>2, <2>3, <2>5 DEF UploadTypeOK, Purges
  <2> QED
    BY <2>3, <2>5, <2>6, <2>7 DEF UploadInv, PurgeSparesYoung
<1>2. ASSUME NEW u \in Upload, NEW answered \in BOOLEAN, AbortOne(u, answered)
      PROVE  UploadInv'
  <2> DEFINE gone == IF u \in inflight THEN 1 ELSE 0
             counted == IF answered /\ u \in inflight THEN 1 ELSE 0
             failed == IF answered /\ u \in inflight THEN 0 ELSE 1
  <2>1. gone \in {0, 1} /\ counted \in {0, 1} /\ failed \in {0, 1}
        /\ counted <= gone /\ counted + failed = 1
    OBVIOUS
  <2>2. /\ inflight' = IF gone = 1 THEN inflight \ {u} ELSE inflight
        /\ purged' = IF gone = 1 THEN purged \cup {u} ELSE purged
        /\ purge.phase = "purging" /\ u \in purge.left /\ UNCHANGED <<age, dated>>
    BY <1>2 DEF AbortOne
  <2>3. purge' = [phase |-> "purging", days |-> purge.days, left |-> purge.left \ {u},
                  matched |-> purge.matched, aborted |-> purge.aborted + counted,
                  failures |-> purge.failures + failed]
    <3>1. CASE answered /\ u \in inflight
      <4>1. /\ counted = 1 /\ failed = 0 /\ purge.failures + 0 = purge.failures
            /\ purge' = [purge EXCEPT !.left = @ \ {u}, !.aborted = @ + 1]
        BY <1>0, <1>2, <3>1 DEF AbortOne
      <4> HIDE DEF counted, failed
      <4> QED
        BY <1>0, <2>2, <4>1 DEF Purges
    <3>2. CASE ~(answered /\ u \in inflight)
      <4>1. /\ counted = 0 /\ failed = 1 /\ purge.aborted + 0 = purge.aborted
            /\ purge' = [purge EXCEPT !.left = @ \ {u}, !.failures = @ + 1]
        BY <1>0, <1>2, <3>2 DEF AbortOne
      <4> HIDE DEF counted, failed
      <4> QED
        BY <1>0, <2>2, <4>1 DEF Purges
    <3> QED
      BY <3>1, <3>2
  <2> HIDE DEF gone, counted, failed
  <2> QED
    BY <2>1, <2>2, <2>3, MatchDone
<1>3. ASSUME NEW u \in Upload, AbortFails(u)
      PROVE  UploadInv'
  <2> DEFINE gone == 0
             failed == 1
  <2>1. /\ UNCHANGED <<age, dated>> /\ purge.phase = "purging" /\ u \in purge.left
        /\ inflight' = IF gone = 1 THEN inflight \ {u} ELSE inflight
        /\ purged' = IF gone = 1 THEN purged \cup {u} ELSE purged
    BY <1>3 DEF AbortFails
  <2>2. purge' = [phase |-> "purging", days |-> purge.days, left |-> purge.left \ {u},
                  matched |-> purge.matched, aborted |-> purge.aborted + gone,
                  failures |-> purge.failures + failed]
    <3>1. purge.aborted + gone = purge.aborted
      BY <1>0
    <3> QED
      BY <1>0, <1>3, <2>1, <3>1 DEF AbortFails, Purges
  <2>3. gone \in {0, 1} /\ failed \in {0, 1} /\ gone <= gone /\ gone + failed = 1
    OBVIOUS
  <2> HIDE DEF gone, failed
  <2> QED
    BY <2>1, <2>2, <2>3, MatchDone
<1>4. ASSUME NEW u \in Upload, OthersUpload(u)
      PROVE  UploadInv'
  <2>1. /\ u \notin purged /\ UNCHANGED <<dated, purge, purged>>
        /\ inflight' \in SUBSET Upload /\ purged' \subseteq Upload \ inflight'
        /\ age' \in [Upload -> 0..Oldest]
        /\ \A v \in purge.left \cup purged : age'[v] = age[v]
    BY <1>0, <1>4 DEF OthersUpload, UploadInv, UploadTypeOK
  <2> QED
    BY <1>0, <2>1 DEF UploadInv, UploadTypeOK, PurgeAdds, PurgeSparesYoung
<1>5. CASE EndPurge
  <2>1. /\ purge' \in Purges /\ purge'.phase = "answered" /\ purge.left = {}
        /\ purge'.left = {} /\ purge'.days = purge.days /\ purge'.matched = purge.matched
        /\ purge'.aborted = purge.aborted /\ purge'.failures = purge.failures
        /\ UNCHANGED <<inflight, age, dated, purged>>
    BY <1>0, <1>5 DEF EndPurge, Purges
  <2>2. Cardinality(purge.left) = 0
    BY <2>1, FS_EmptySet
  <2>3. PurgeAdds' /\ UploadTypeOK'
    BY <1>0, <2>1, <2>2 DEF UploadInv, UploadTypeOK, PurgeAdds
  <2> QED
    BY <1>0, <2>1, <2>2, <2>3 DEF UploadInv, PurgeAdds, PurgeSparesYoung
<1>6. CASE LeavePurge
  <2>1. /\ purge' = [phase |-> "idle", days |-> 0, left |-> {}, matched |-> 0,
                     aborted |-> 0, failures |-> 0]
        /\ purged' = {} /\ Cardinality({}) = 0 /\ UNCHANGED <<inflight, age, dated>>
    BY <1>6, FS_EmptySet DEF LeavePurge, NoPurge
  <2> QED
    BY <1>0, <2>1 DEF UploadInv, UploadTypeOK, Purges, PurgeAdds, PurgeSparesYoung
<1>7. CASE UploadsAge
  <2>1. /\ UNCHANGED <<inflight, dated, purge, purged>>
        /\ age' \in [Upload -> 0..Oldest]
        /\ \A u \in Upload : age'[u] >= age[u]
    BY <1>0, <1>7 DEF UploadsAge
  <2> QED
    BY <1>0, <2>1 DEF UploadInv, UploadTypeOK, PurgeAdds, PurgeSparesYoung
<1>8. CASE UNCHANGED uploadVars
  BY <1>8 DEF uploadVars, UploadInv, UploadTypeOK, PurgeAdds, PurgeSparesYoung
<1> QED
  BY <1>1, <1>2, <1>3, <1>4, <1>5, <1>6, <1>7, <1>8 DEF UploadsNext

------------------------------------------------------------------------------
\* The inductive invariant holds throughout, of the bucket and of its uploads.
THEOREM LifeInvariant == LifeSpec => []LifeInv
<1>1. LifeInit => LifeInv
  <2> SUFFICES ASSUME LifeInit PROVE LifeInv
    OBVIOUS
  <2>1. /\ bucket \in Buckets /\ bucket = NoBucket /\ bucket.maker = "nobody"
        /\ lifeCall \in LifeCalls /\ lifeCall.phase = "idle" /\ lifeCall.tool = "none"
        /\ lifeUndo = FALSE /\ forecast = "none" /\ estranged = FALSE /\ removed = "nobody"
    BY DEF LifeInit, NoBucket, Buckets, NoLifeCall, LifeCalls
  <2>2. BucketInv
    BY <2>1 DEF BucketInv, BucketTypeOK, CallInPlace, MadeAsAsked, StrangersMark,
       ForecastHolds, ReportedLockTrue, UndoDeletesOwn, PreviewForetells, MakingPhases,
       DeletingPhases
  <2>3. /\ inflight \in SUBSET Upload /\ dated \in [Upload -> BOOLEAN]
        /\ age \in [Upload -> 0..Oldest]
        /\ purge = [phase |-> "idle", days |-> 0, left |-> {}, matched |-> 0, aborted |-> 0,
                    failures |-> 0]
        /\ purged = {} /\ Cardinality({}) = 0 /\ Cardinality(Upload) \in Nat
        /\ Oldest \in Nat
    <3>1. inflight \in SUBSET Upload /\ dated \in [Upload -> BOOLEAN]
      BY DEF LifeInit
    <3>2. Oldest \in Nat /\ Cardinality(Upload) \in Nat /\ Cardinality({}) = 0
      BY LifeAssumption, FS_EmptySet, UploadsFinite
    <3> QED
      BY <3>1, <3>2 DEF LifeInit, NoPurge
  <2>4. UploadInv
    BY <2>3 DEF UploadInv, UploadTypeOK, Purges, PurgeAdds, PurgeSparesYoung
  <2> QED
    BY <2>2, <2>4 DEF LifeInv
<1>2. ASSUME LifeInv, [LifeNext]_lifeVars PROVE LifeInv'
  <2>1. \/ BucketNext \/ UNCHANGED bucketVars
    BY <1>2 DEF LifeNext, lifeVars
  <2>2. \/ UploadsNext \/ UNCHANGED uploadVars
    BY <1>2 DEF LifeNext, lifeVars
  <2> QED
    BY <1>2, <2>1, <2>2, BucketStepKeeps, UploadStepKeeps DEF LifeInv
<1> QED
  BY <1>1, <1>2, PTL DEF LifeSpec

\* An unread lock is never reported as none.
THEOREM LocksReportedTrue == LifeSpec => []ReportedLockTrue
<1>1. LifeInv => ReportedLockTrue
  BY DEF LifeInv, BucketInv
<1> QED
  BY <1>1, LifeInvariant, PTL

\* The undo of a create removes the tool's own bucket, unless others remade it.
THEOREM UndosDeleteOwn == LifeSpec => []UndoDeletesOwn
<1>1. LifeInv => UndoDeletesOwn
  BY DEF LifeInv, BucketInv
<1> QED
  BY <1>1, LifeInvariant, PTL

\* A preview and the check of the call agree while nobody else writes.
THEOREM PreviewsForetell == LifeSpec => []PreviewForetells
<1>1. LifeInv => PreviewForetells
  BY DEF LifeInv, BucketInv
<1> QED
  BY <1>1, LifeInvariant, PTL

\* A purge takes no young upload, and its report adds up.
THEOREM PurgesSpareYoung == LifeSpec => []PurgeSparesYoung
<1>1. LifeInv => PurgeSparesYoung
  BY DEF LifeInv, UploadInv
<1> QED
  BY <1>1, LifeInvariant, PTL
------------------------------------------------------------------------------
(* ObjectLocks: days *)

\* What a quotient says of what was divided.
LEMMA Divided ==
  ASSUME NEW a \in Int, NEW b \in Nat \ {0}
  PROVE  /\ a \div b \in Int
         /\ b * (a \div b) <= a /\ a < b * (a \div b) + b
OBVIOUS

\* A larger quotient is a larger multiple, by a whole divisor.
LEMMA Multiples ==
  ASSUME NEW p \in Int, NEW q \in Int, NEW b \in Nat \ {0}, p < q
  PROVE  b * p + b <= b * q
<1> DEFINE d == q - p - 1
<1>1. d \in Nat /\ q = p + 1 + d
  OBVIOUS
<1> HIDE DEF d
<1>2. b * q = b * p + b + b * d
  BY <1>1
<1>3. b * d \in Nat /\ b * p \in Int
  BY <1>1
<1> QED
  BY <1>2, <1>3

\* Days to one instant and to another tell their order, but for the grain.
LEMMA DaysCompare ==
  ASSUME NEW now \in Int, NEW t \in Int, NEW then \in Int, NEW s \in Int
  PROVE  /\ DaysFrom(now, t) \in Int
         /\ DaysFrom(now, t) <= 0 => 2 * (t - now) < Grain
         /\ DaysFrom(now, t) < DaysFrom(then, s) => t - now < s - then
         /\ DaysFrom(now, t) >= DaysFrom(then, s) => t - now > s - then - Grain
<1> DEFINE b == 2 * Grain
           x == 2 * (t - now) + Grain
           y == 2 * (s - then) + Grain
           p == x \div b
           q == y \div b
<1>1. Grain \in Nat /\ Grain # 0
  BY LockAssumption
<1>2. b \in Nat \ {0} /\ x \in Int /\ y \in Int
  BY <1>1
<1>3. DaysFrom(now, t) = p /\ DaysFrom(then, s) = q
  BY DEF DaysFrom
<1> HIDE DEF p, q
<1>4. /\ p \in Int /\ b * p <= x /\ x < b * p + b
      /\ q \in Int /\ b * q <= y /\ y < b * q + b
  <2> HIDE DEF b, x, y
  <2> QED
    BY <1>2, Divided DEF p, q
<1>5. /\ p < q => b * p + b <= b * q
      /\ q < p => b * q + b <= b * p
      /\ p < 1 => b * p + b <= b * 1
  <2> HIDE DEF b
  <2> QED
    BY <1>2, <1>4, Multiples
<1>6. b * p \in Int /\ b * q \in Int /\ b * 1 = b
  <2> HIDE DEF b
  <2> QED
    BY <1>2, <1>4
<1>7. p <= 0 => x < b
  <2> HIDE DEF b, x
  <2> QED
    BY <1>2, <1>4, <1>5, <1>6
<1>8. p < q => x < y
  <2> HIDE DEF b, x, y
  <2> QED
    BY <1>2, <1>4, <1>5, <1>6
<1>9. p >= q => x > y - b
  <2>1. p = q => b * p = b * q
    OBVIOUS
  <2> HIDE DEF b, x, y
  <2> QED
    BY <1>2, <1>4, <1>5, <1>6, <2>1
<1> QED
  BY <1>1, <1>3, <1>4, <1>7, <1>8, <1>9
------------------------------------------------------------------------------
(* ObjectLocks: retention and status *)

\* The days asked for from an instant of the behaviour end in one, after it.
LEMMA AskedInstant ==
  ASSUME NEW now \in 0..LastClock, NEW days \in {1, 2}
  PROVE  /\ now + days * Day \in Instants
         /\ now + days * Day > now + Grain
<1>1. Grain \in Nat /\ Day \in Nat /\ Day > Grain /\ LastClock \in Nat
  BY LockAssumption
<1>2. days * Day \in {Day, Day + Day} /\ 2 * Day = Day + Day
  BY <1>1
<1> QED
  BY <1>1, <1>2 DEF Instants

\* A retention has a mode, or none, and an instant.
LEMMA RetentionShape ==
  ASSUME NEW k \in Retentions
  PROVE  /\ k.mode \in {"none"} \cup RetentionModes /\ k.until \in Instants /\ k.until \in Int
<1>1. 0 \in Instants /\ Instants \subseteq Int
  BY LockAssumption DEF Instants
<1>2. CASE k = Unkept
  BY <1>1, <1>2 DEF Unkept
<1>3. CASE k \in [mode : RetentionModes, until : 0..(LastClock + 2 * Day)]
  BY <1>1, <1>3 DEF Instants
<1> QED
  BY <1>2, <1>3 DEF Retentions

\* What a step of the retention call and of the status call keeps of the rest.
HoldSide == <<holds, holdCall, holdUndo, former, wanted, strayed>>
HoldTypes ==
  /\ holds \in Seq(BOOLEAN) /\ Len(holds) \in 1..LastVersion
  /\ holdCall \in HoldCalls /\ holdCall.version <= Len(holds)
  /\ holdUndo \in [version : -1..LastVersion, on : BOOLEAN]
  /\ holdUndo # NoHoldUndo => holdCall.phase # "idle"
  /\ former \in Seq(BOOLEAN) /\ (holdCall.phase # "idle" => former # <<>>)
  /\ wanted \in Seq(BOOLEAN) /\ (holdCall.undoing => wanted # <<>>)
  /\ strayed \in BOOLEAN /\ interfered \in BOOLEAN
RetentionTypes ==
  /\ lockAim \in {"retention", "status", "hold"}
  /\ lockClock \in 0..LastClock
  /\ retained \in Retentions
  /\ lockCall \in LockCalls
  /\ lockAim = "hold" => lockCall = NoLockCall
  /\ lockAim # "hold" => holdCall = NoHoldCall
  /\ interfered \in BOOLEAN

\* The guard of a step of the retention call, or of the status call.
LEMMA RetentionStep ==
  ASSUME LockInv, lockAim' = lockAim, lockClock' = lockClock, UNCHANGED HoldSide,
         lockAim # "hold", RetentionTypes',
         (WhatWasReadHolds /\ FirstPassTold /\ GuardPassed
           /\ RetentionGuardTight /\ DestroyableTrue)'
  PROVE  LockInv'
<1>1. holdCall = NoHoldCall
  BY DEF LockInv, LockTypeOK
<1>2. LockTypeOK'
  BY DEF LockInv, LockTypeOK, RetentionTypes, HoldSide, holdVars
<1>3. HoldsFormer' /\ UndoCarries' /\ HoldRestoredOnCurrent'
  BY <1>1 DEF HoldSide, holdVars, HoldsFormer, UndoCarries, HoldRestoredOnCurrent, HoldUndone, NoHoldCall
<1> QED
  BY <1>2, <1>3 DEF LockInv

\* Starting a retention call keeps the invariant of the locks.
LEMMA AskRetentionKeeps ==
  ASSUME LockInv, lockAim' = lockAim, lockClock' = lockClock, lockAim = "retention",
         NEW mode \in RetentionModes, NEW days \in {1, 2}, NEW ack \in BOOLEAN,
         AskRetention(mode, days, ack)
  PROVE  LockInv'
<1>1. /\ lockClock \in 0..LastClock /\ lockClock \in Int /\ retained \in Retentions /\ holdCall = NoHoldCall
      /\ 0 \in 0..LastClock /\ 0 <= lockClock /\ Unkept \in Retentions
  BY LockAssumption DEF LockInv, LockTypeOK, Retentions
<1>2. lockClock + days * Day \in Instants
  BY <1>1, AskedInstant
<1>6. lockClock + days * Day <= lockClock + days * Day
  BY <1>1, <1>2 DEF Instants
<1>3. lockCall' = [phase |-> "reading", mode |-> mode, days |-> days, ack |-> ack, pass |-> 1,
                   until |-> lockClock + days * Day, current |-> Unkept, remaining |-> 0,
                   readAt |-> 0, hold |-> FALSE, why |-> "none"]
  BY DEF AskRetention, NoLockCall
<1>4. UNCHANGED HoldSide /\ retained' = retained /\ interfered' = FALSE
  BY DEF AskRetention, HoldSide, holdVars
<1>5. RetentionTypes'
  <2> DEFINE asked == lockClock + days * Day
  <2>1. asked \in Instants /\ lockCall'.until = asked
    BY <1>2, <1>3
  <2>2. lockCall' \in LockCalls
    <3> HIDE DEF asked
    <3> QED
      BY <1>1, <1>3, <2>1 DEF LockCalls, LockPhases
  <2> QED
    BY <1>1, <1>4, <2>2 DEF RetentionTypes, HoldSide, holdVars
<1> QED
  BY <1>1, <1>3, <1>4, <1>5, <1>6, RetentionStep DEF WhatWasReadHolds, FirstPassTold,
     GuardPassed, RetentionGuardTight, DestroyableTrue

\* Reading the retention in force keeps the invariant.
LEMMA ReadRetentionKeeps ==
  ASSUME LockInv, lockAim' = lockAim, lockClock' = lockClock, lockAim = "retention",
         ReadRetention
  PROVE  LockInv'
<1>1. /\ lockClock \in 0..LastClock /\ lockClock \in Int /\ lockClock <= lockClock
      /\ retained \in Retentions /\ holdCall = NoHoldCall
      /\ lockCall \in LockCalls
  BY LockAssumption DEF LockInv, LockTypeOK
<1>2. DaysUntil(retained.until) = DaysFrom(lockClock, retained.until)
      /\ DaysUntil(retained.until) \in Int
  BY <1>1, RetentionShape, DaysCompare DEF DaysUntil
<1>3. /\ lockCall.phase = "reading"
      /\ lockCall' = [lockCall EXCEPT !.phase = "judging", !.current = retained,
                        !.readAt = lockClock, !.remaining = DaysUntil(retained.until)]
      /\ UNCHANGED HoldSide /\ retained' = retained /\ interfered' = interfered
  BY DEF ReadRetention, HoldSide, holdVars
<1>4. /\ lockCall' \in LockCalls /\ lockCall'.phase = "judging" /\ lockCall'.current = retained
      /\ lockCall'.readAt = lockClock /\ lockCall'.remaining = DaysFrom(lockClock, retained.until)
      /\ lockCall'.days = lockCall.days /\ lockCall'.mode = lockCall.mode
      /\ lockCall'.why = lockCall.why /\ lockCall'.pass = lockCall.pass
      /\ lockCall'.until = lockCall.until
  BY <1>1, <1>2, <1>3 DEF LockCalls, LockPhases
<1>5. RetentionTypes'
  BY <1>1, <1>3, <1>4 DEF RetentionTypes, HoldSide, holdVars, LockInv, LockTypeOK
<1> QED
  BY <1>1, <1>3, <1>4, <1>5, RetentionStep DEF LockInv, WhatWasReadHolds, FirstPassTold,
     GuardPassed, RetentionGuardTight, DestroyableTrue

\* The guard of a retention call, in either pass, keeps the invariant.
LEMMA JudgeRetentionKeeps ==
  ASSUME LockInv, lockAim' = lockAim, lockClock' = lockClock, lockAim = "retention",
         JudgeRetention
  PROVE  LockInv'
<1>1. /\ lockClock \in 0..LastClock /\ lockClock \in Int /\ lockCall \in LockCalls
      /\ lockCall.readAt \in Int /\ lockCall.until \in Int /\ lockCall.current \in Retentions
      /\ lockCall.current.until \in Int /\ retained \in Retentions /\ holdCall = NoHoldCall
      /\ lockCall.pass \in {1, 2} /\ Grain \in Nat
  BY RetentionShape, LockAssumption DEF LockInv, LockTypeOK, LockCalls, Instants
<1>2. /\ lockCall.phase = "judging" /\ lockCall.days \in {1, 2}
      /\ lockCall.remaining = DaysFrom(lockCall.readAt, lockCall.current.until)
      /\ lockCall.readAt <= lockClock
      /\ ~interfered => lockCall.current = retained
      /\ UNCHANGED HoldSide /\ retained' = retained /\ interfered' = interfered
  BY DEF JudgeRetention, HoldSide, holdVars, LockInv, WhatWasReadHolds
<1>3. CASE Refusal # "none"
  <2>1. Refusal \in {"downgrade", "shorter", "unacknowledged"}
    BY <1>3 DEF Refusal
  <2>2. lockCall' = [lockCall EXCEPT !.phase = "refused", !.why = Refusal]
    BY <1>3 DEF JudgeRetention
  <2>3. /\ lockCall' \in LockCalls /\ lockCall'.phase = "refused" /\ lockCall'.why = Refusal
        /\ lockCall'.current = lockCall.current /\ lockCall'.until = lockCall.until
        /\ lockCall'.readAt = lockCall.readAt
    BY <1>1, <2>1, <2>2 DEF LockCalls, LockPhases
  <2>4. RetentionTypes'
    BY <1>1, <1>2, <2>3 DEF RetentionTypes, HoldSide, holdVars, LockInv, LockTypeOK
  <2>5. ASSUME Refusal = "shorter"
        PROVE  lockCall.current.until - lockCall.until > lockCall.readAt - lockClock
    <3>1. DaysFrom(lockClock, lockCall.until)
            < DaysFrom(lockCall.readAt, lockCall.current.until)
      BY <1>2, <2>5 DEF Refusal, DaysUntil
    <3>2. lockCall.until - lockClock < lockCall.current.until - lockCall.readAt
      BY <1>1, <3>1, DaysCompare
    <3> QED
      BY <1>1, <3>2
  <2>6. RetentionGuardTight'
    BY <2>1, <2>3, <2>5 DEF RetentionGuardTight
  <2> QED
    BY <1>2, <2>3, <2>4, <2>6, RetentionStep DEF WhatWasReadHolds, FirstPassTold,
       GuardPassed, DestroyableTrue
<1>4. CASE Refusal = "none" /\ lockCall.pass = 1
  <2>1. lockCall' = [lockCall EXCEPT !.phase = "reading", !.pass = 2,
                       !.until = lockClock + lockCall.days * Day]
    BY <1>4 DEF JudgeRetention
  <2>2. /\ lockClock + lockCall.days * Day \in Instants
        /\ lockClock + lockCall.days * Day > lockClock + Grain
        /\ lockClock + lockCall.days * Day \in Int
        /\ lockClock + lockCall.days * Day <= lockClock + lockCall.days * Day
    BY <1>1, <1>2, AskedInstant DEF Instants
  <2>3. /\ lockCall' \in LockCalls /\ lockCall'.phase = "reading"
        /\ lockCall'.until = lockClock + lockCall.days * Day
        /\ lockCall'.readAt = lockCall.readAt
        /\ lockCall'.days = lockCall.days /\ lockCall'.mode = lockCall.mode
        /\ lockCall'.why = lockCall.why
    BY <1>1, <2>1, <2>2 DEF LockCalls, LockPhases
  <2>4. RetentionTypes'
    BY <1>1, <1>2, <2>3 DEF RetentionTypes, HoldSide, holdVars, LockInv, LockTypeOK
  <2>5. FirstPassTold'
    <3> DEFINE asked == lockClock + lockCall.days * Day
    <3> SUFFICES ASSUME ~interfered, retained.mode # "none"
                 PROVE  retained.until - asked < Grain
      BY <1>2, <2>3 DEF FirstPassTold
    <3>1. lockCall.current = retained
      BY <1>2
    <3>2. asked > lockClock + Grain /\ asked \in Int
      BY <2>2
    <3>3. CASE lockCall.remaining <= 0
      <4>1. 2 * (retained.until - lockCall.readAt) < Grain
        BY <1>1, <1>2, <3>1, <3>3, DaysCompare
      <4> HIDE DEF asked
      <4> QED
        BY <1>1, <1>2, <3>1, <3>2, <4>1
    <3>4. CASE lockCall.remaining > 0
      <4>1. ~(DaysFrom(lockClock, lockCall.until) < lockCall.remaining)
        BY <1>4, <3>1, <3>4 DEF Refusal, DaysUntil
      <4>2. DaysFrom(lockClock, lockCall.until) >= DaysFrom(lockCall.readAt, retained.until)
        <5>1. /\ DaysFrom(lockClock, lockCall.until) \in Int
              /\ DaysFrom(lockCall.readAt, retained.until) \in Int
          BY <1>1, <3>1, DaysCompare
        <5> QED
          BY <1>2, <3>1, <4>1, <5>1
      <4>3. lockCall.until - lockClock > retained.until - lockCall.readAt - Grain
        BY <1>1, <3>1, <4>2, DaysCompare
      <4>4. lockCall.until <= asked
        BY <1>2 DEF LockInv, WhatWasReadHolds
      <4> HIDE DEF asked
      <4> QED
        BY <1>1, <1>2, <3>1, <3>2, <4>3, <4>4
    <3> QED
      BY <1>1, <1>2, <3>3, <3>4, DaysCompare
  <2> QED
    BY <1>1, <1>2, <2>2, <2>3, <2>4, <2>5, RetentionStep DEF LockInv, WhatWasReadHolds,
       GuardPassed, RetentionGuardTight, DestroyableTrue
<1>5. CASE Refusal = "none" /\ lockCall.pass # 1
  <2>1. lockCall' = [lockCall EXCEPT !.phase = "sending"]
    BY <1>5 DEF JudgeRetention
  <2>2. /\ lockCall' \in LockCalls /\ lockCall'.phase = "sending" /\ lockCall'.pass = 2
        /\ lockCall.pass = 2
        /\ lockCall'.current = lockCall.current /\ lockCall'.until = lockCall.until
        /\ lockCall'.readAt = lockCall.readAt /\ lockCall'.mode = lockCall.mode
        /\ lockCall'.days = lockCall.days /\ lockCall'.why = lockCall.why
    BY <1>1, <1>5, <2>1 DEF LockCalls, LockPhases
  <2>3. RetentionTypes'
    BY <1>1, <1>2, <2>2 DEF RetentionTypes, HoldSide, holdVars, LockInv, LockTypeOK
  <2>4. GuardPassed'
    BY <1>5, <2>2 DEF Refusal, GuardPassed
  <2> QED
    BY <1>1, <1>2, <2>2, <2>3, <2>4, RetentionStep DEF LockInv, WhatWasReadHolds,
       FirstPassTold, RetentionGuardTight, DestroyableTrue
<1> QED
  BY <1>3, <1>4, <1>5

\* Writing the retention keeps the invariant.
LEMMA SendRetentionKeeps ==
  ASSUME LockInv, lockAim' = lockAim, lockClock' = lockClock, lockAim = "retention",
         SendRetention
  PROVE  LockInv'
<1>1. /\ lockCall \in LockCalls /\ retained \in Retentions /\ holdCall = NoHoldCall
      /\ lockCall.mode \in RetentionModes /\ lockCall.until \in Instants
      /\ lockCall.phase = "sending" /\ lockCall.why = "none" /\ lockCall.pass = 2
      /\ lockCall.readAt <= lockClock
      /\ UNCHANGED HoldSide /\ interfered' = interfered
  BY DEF SendRetention, HoldSide, holdVars, LockInv, LockTypeOK, LockCalls, WhatWasReadHolds,
     GuardPassed
<1>2. CASE ~ServerRejects /\ retained' = [mode |-> lockCall.mode, until |-> lockCall.until]
           /\ lockCall' = [lockCall EXCEPT !.phase = "answered"]
  <2>1. /\ lockCall' \in LockCalls /\ lockCall'.phase = "answered"
        /\ lockCall'.readAt = lockCall.readAt
    BY <1>1, <1>2 DEF LockCalls, LockPhases
  <2>2. retained' \in Retentions
    BY <1>1, <1>2 DEF Retentions, Instants
  <2>3. RetentionTypes'
    BY <1>1, <2>1, <2>2 DEF RetentionTypes, HoldSide, holdVars, LockInv, LockTypeOK
  <2> QED
    BY <1>1, <2>1, <2>3, RetentionStep DEF WhatWasReadHolds, FirstPassTold, GuardPassed,
       RetentionGuardTight, DestroyableTrue
<1>3. CASE ServerRejects /\ lockCall' = [lockCall EXCEPT !.phase = "refused", !.why = "server"]
           /\ retained' = retained
  <2>1. /\ lockCall' \in LockCalls /\ lockCall'.phase = "refused" /\ lockCall'.why = "server"
        /\ lockCall'.current = lockCall.current /\ lockCall'.until = lockCall.until
        /\ lockCall'.readAt = lockCall.readAt
    BY <1>1, <1>3 DEF LockCalls, LockPhases
  <2>2. RetentionTypes'
    BY <1>1, <1>3, <2>1 DEF RetentionTypes, HoldSide, holdVars, LockInv, LockTypeOK
  <2>3. ASSUME ~interfered PROVE lockCall.current.until - lockCall.until < Grain
    <3>1. lockCall.current = retained
      BY <1>1, <2>3 DEF LockInv, WhatWasReadHolds
    <3>2. retained.mode # "none"
      BY <1>3 DEF ServerRejects, InForce
    <3> QED
      BY <1>1, <2>3, <3>1, <3>2 DEF LockInv, FirstPassTold
  <2> QED
    BY <1>1, <2>1, <2>2, <2>3, RetentionStep DEF WhatWasReadHolds, FirstPassTold,
       GuardPassed, RetentionGuardTight, DestroyableTrue
<1> QED
  BY <1>2, <1>3 DEF SendRetention

\* The end of a call about retention keeps the invariant of the locks.
LEMMA LeaveLockKeeps ==
  ASSUME LockInv, lockAim' = lockAim, lockClock' = lockClock, lockAim # "hold", LeaveLock
  PROVE  LockInv'
<1>1. /\ lockClock \in 0..LastClock /\ 0 \in 0..LastClock /\ 0 \in Int /\ 0 <= lockClock
      /\ 0 \in Instants /\ Unkept \in Retentions
  BY LockAssumption DEF LockInv, LockTypeOK, Retentions, Instants
<1>2. /\ lockCall' \in LockCalls /\ lockCall'.phase = "idle" /\ lockCall'.readAt = 0
      /\ UNCHANGED HoldSide /\ retained' = retained /\ interfered' = FALSE
  BY <1>1 DEF LeaveLock, NoLockCall, LockCalls, LockPhases, HoldSide, holdVars
<1>3. RetentionTypes'
  BY <1>2 DEF RetentionTypes, HoldSide, holdVars, LockInv, LockTypeOK
<1> QED
  BY <1>1, <1>2, <1>3, RetentionStep DEF WhatWasReadHolds, FirstPassTold, GuardPassed,
     RetentionGuardTight, DestroyableTrue

\* The steps of a lock status keep the invariant of the locks.
LEMMA StatusKeeps ==
  ASSUME LockInv, lockAim' = lockAim, lockClock' = lockClock, lockAim = "status",
         AskStatus \/ StatusHold \/ StatusAnswer
  PROVE  LockInv'
<1>1. /\ lockClock \in 0..LastClock /\ lockClock \in Int /\ retained \in Retentions
      /\ lockCall \in LockCalls /\ lockCall.current \in Retentions /\ holdCall = NoHoldCall
      /\ 0 \in 0..LastClock /\ 0 \in Int /\ 0 \in Instants /\ 0 <= lockClock
      /\ lockClock <= lockClock /\ holds[1] \in BOOLEAN
  <2>1. holds[1] \in BOOLEAN
    BY ElementOfSeq DEF LockInv, LockTypeOK
  <2> QED
    BY <2>1, LockAssumption DEF LockInv, LockTypeOK, LockCalls, Instants
<1>2. CASE AskStatus
  <2>1. /\ lockCall' \in LockCalls /\ lockCall'.phase = "status retention"
        /\ lockCall'.current = retained /\ lockCall'.readAt = 0
        /\ UNCHANGED HoldSide /\ retained' = retained /\ interfered' = FALSE
    BY <1>1, <1>2 DEF AskStatus, NoLockCall, LockCalls, LockPhases, HoldSide, holdVars
  <2>2. RetentionTypes'
    BY <1>1, <2>1 DEF RetentionTypes, HoldSide, holdVars, LockInv, LockTypeOK
  <2> QED
    BY <1>1, <2>1, <2>2, RetentionStep DEF WhatWasReadHolds, FirstPassTold, GuardPassed,
       RetentionGuardTight, DestroyableTrue
<1>3. CASE StatusHold
  <2>1. /\ lockCall.phase = "status retention"
        /\ lockCall' \in LockCalls /\ lockCall'.phase = "status hold"
        /\ lockCall'.current = lockCall.current /\ lockCall'.hold = holds[1]
        /\ lockCall'.readAt = lockCall.readAt
        /\ UNCHANGED HoldSide /\ retained' = retained /\ interfered' = interfered
    BY <1>1, <1>3 DEF StatusHold, LockCalls, LockPhases, HoldSide, holdVars
  <2>2. RetentionTypes'
    BY <1>1, <2>1 DEF RetentionTypes, HoldSide, holdVars, LockInv, LockTypeOK
  <2> QED
    BY <1>1, <2>1, <2>2, RetentionStep DEF LockInv, WhatWasReadHolds, FirstPassTold,
       GuardPassed, RetentionGuardTight, DestroyableTrue, HoldSide, holdVars
<1>4. CASE StatusAnswer
  <2>1. /\ DaysUntil(lockCall.current.until) = DaysFrom(lockClock, lockCall.current.until)
        /\ DaysUntil(lockCall.current.until) \in Int
        /\ DaysUntil(lockCall.current.until) <= 0 =>
             2 * (lockCall.current.until - lockClock) < Grain
    BY <1>1, RetentionShape, DaysCompare DEF DaysUntil
  <2>2. /\ lockCall.phase = "status hold"
        /\ lockCall' \in LockCalls /\ lockCall'.phase = "reported"
        /\ lockCall'.current = lockCall.current /\ lockCall'.hold = lockCall.hold
        /\ lockCall'.readAt = lockClock
        /\ lockCall'.remaining = DaysUntil(lockCall.current.until)
        /\ UNCHANGED HoldSide /\ retained' = retained /\ interfered' = interfered
    BY <1>1, <1>4, <2>1 DEF StatusAnswer, LockCalls, LockPhases, HoldSide, holdVars
  <2>3. RetentionTypes'
    BY <1>1, <2>2 DEF RetentionTypes, HoldSide, holdVars, LockInv, LockTypeOK
  <2>4. WhatWasReadHolds'
    BY <1>1, <2>1, <2>2 DEF LockInv, WhatWasReadHolds, HoldSide, holdVars
  <2>5. ASSUME ~interfered, Destroyable(lockCall')
        PROVE  ~holds[1] /\ ~(retained.mode # "none" /\ 2 * (retained.until - lockClock) > Grain)
    <3>1. lockCall.current = retained /\ lockCall.hold = holds[1]
      BY <2>2, <2>5 DEF LockInv, WhatWasReadHolds
    <3>2. ~holds[1] /\ (retained.mode = "none" \/ ~(DaysUntil(retained.until) > 0))
      BY <2>2, <2>5, <3>1 DEF Destroyable
    <3>3. retained.until \in Int /\ Grain \in Nat
      BY <1>1, RetentionShape, LockAssumption
    <3> QED
      BY <1>1, <2>1, <3>1, <3>2, <3>3
  <2>6. DestroyableTrue'
    BY <2>2, <2>5 DEF DestroyableTrue, HoldSide, holdVars, Destroyable
  <2> QED
    BY <2>2, <2>3, <2>4, <2>6, RetentionStep DEF FirstPassTold, GuardPassed,
       RetentionGuardTight
<1> QED
  BY <1>2, <1>3, <1>4
------------------------------------------------------------------------------
(* ObjectLocks: legal holds *)

\* A key has a current version, and a call names one that is there.
LEMMA HoldShape ==
  ASSUME LockInv
  PROVE  /\ holds \in Seq(BOOLEAN) /\ Len(holds) \in Nat /\ Len(holds) \in 1..Len(holds)
         /\ 1 \in 1..Len(holds) /\ DOMAIN holds = 1..Len(holds)
         /\ holds[Len(holds)] \in BOOLEAN
         /\ holdCall \in HoldCalls /\ holdCall.version \in 0..Len(holds)
         /\ Version(holdCall.version) \in 1..Len(holds)
         /\ Len(holds) \in 0..LastVersion
<1>1. /\ holds \in Seq(BOOLEAN) /\ Len(holds) \in 1..LastVersion /\ holdCall \in HoldCalls
      /\ holdCall.version <= Len(holds) /\ holdCall.version \in 0..LastVersion
      /\ LastVersion \in Nat
  BY LockAssumption DEF LockInv, LockTypeOK, HoldCalls
<1>2. Len(holds) \in 1..Len(holds) /\ Len(holds) \in Nat /\ DOMAIN holds = 1..Len(holds)
      /\ 1 \in 1..Len(holds)
  BY <1>1, LenProperties
<1>3. holds[Len(holds)] \in BOOLEAN
  BY <1>1, <1>2, ElementOfSeq
<1> QED
  BY <1>1, <1>2, <1>3 DEF Version

\* What a step of the legal-hold call keeps of the rest.
LEMMA HoldStep ==
  ASSUME LockInv, UNCHANGED <<lockAim, lockClock, retained, lockCall>>, lockAim = "hold",
         HoldTypes', HoldsFormer', UndoCarries', HoldRestoredOnCurrent'
  PROVE  LockInv'
<1>1. lockCall = NoLockCall
  BY DEF LockInv, LockTypeOK
<1>2. LockTypeOK'
  BY DEF LockInv, LockTypeOK, HoldTypes
<1>3. (WhatWasReadHolds /\ FirstPassTold /\ GuardPassed /\ RetentionGuardTight
         /\ DestroyableTrue)'
  <2>1. lockCall.readAt <= lockClock
    BY DEF LockInv, WhatWasReadHolds
  <2> QED
    BY <1>1, <2>1 DEF NoLockCall, WhatWasReadHolds, FirstPassTold, GuardPassed,
       RetentionGuardTight, DestroyableTrue
<1> QED
  BY <1>2, <1>3 DEF LockInv

\* Starting a hold call keeps the invariant of the locks.
LEMMA AskHoldKeeps ==
  ASSUME LockInv, UNCHANGED <<lockAim, lockClock>>, lockAim = "hold",
         NEW version \in 0..Len(holds), NEW on \in BOOLEAN, AskHold(version, on)
  PROVE  LockInv'
<1>1. /\ holdCall' = [phase |-> "reading", version |-> version, on |-> on, prior |-> FALSE,
                      undoing |-> FALSE]
      /\ holdCall.phase = "idle"
      /\ former' = holds /\ interfered' = FALSE
      /\ UNCHANGED <<retained, holds, lockCall, holdUndo, wanted, strayed>>
  BY DEF AskHold, StartHold
<1>2. holds \in Seq(BOOLEAN) /\ Len(holds) \in 1..LastVersion /\ holds # <<>>
      /\ version \in 0..LastVersion /\ version <= Len(holds)
  <2>1. holds \in Seq(BOOLEAN) /\ Len(holds) \in 1..LastVersion /\ LastVersion \in Nat
    BY LockAssumption DEF LockInv, LockTypeOK
  <2>2. holds # <<>>
    BY <2>1, EmptySeq
  <2> QED
    BY <2>1, <2>2
<1>3. HoldTypes'
  BY <1>1, <1>2 DEF HoldTypes, HoldCalls, LockInv, LockTypeOK
<1>4. HoldsFormer' /\ UndoCarries' /\ HoldRestoredOnCurrent'
  BY <1>1 DEF HoldsFormer, SameBut, UndoCarries, HoldRestoredOnCurrent, HoldUndone
<1> QED
  BY <1>1, <1>3, <1>4, HoldStep

\* Reading the hold of the current version keeps the invariant.
LEMMA ReadHoldKeeps ==
  ASSUME LockInv, UNCHANGED <<lockAim, lockClock>>, lockAim = "hold", ReadHold
  PROVE  LockInv'
<1>1. /\ holdCall.phase = "reading" /\ holdCall' \in HoldCalls /\ holdCall'.phase = "sending"
      /\ holdCall'.version = holdCall.version /\ holdCall'.on = holdCall.on
      /\ holdCall'.prior = holds[Len(holds)] /\ holdCall'.undoing = holdCall.undoing
      /\ UNCHANGED <<retained, holds, lockCall, holdUndo, former, wanted, strayed, interfered>>
  BY HoldShape DEF ReadHold, HoldCalls
<1>2. HoldTypes'
  BY <1>1 DEF HoldTypes, LockInv, LockTypeOK
<1>3. HoldsFormer' /\ UndoCarries'
  BY <1>1 DEF LockInv, HoldsFormer, UndoCarries, SameBut, Version
<1>4. HoldRestoredOnCurrent'
  BY <1>1 DEF HoldRestoredOnCurrent, HoldUndone
<1> QED
  BY <1>1, <1>2, <1>3, <1>4, HoldStep

\* Writing the hold of the given version keeps the invariant.
LEMMA SendHoldKeeps ==
  ASSUME LockInv, UNCHANGED <<lockAim, lockClock>>, lockAim = "hold", SendHold
  PROVE  LockInv'
<1> DEFINE w == Version(holdCall.version)
<1>1. /\ holdCall.phase = "sending" /\ holdCall' \in HoldCalls
      /\ holdCall'.phase = "answered"
      /\ holdCall'.version = holdCall.version /\ holdCall'.on = holdCall.on
      /\ holdCall'.prior = holdCall.prior /\ holdCall'.undoing = holdCall.undoing
      /\ holds' = [holds EXCEPT ![w] = holdCall.on]
      /\ holdUndo' = [version |-> holdCall.version, on |-> holdCall.prior]
      /\ UNCHANGED <<retained, lockCall, former, wanted, strayed, interfered>>
  BY HoldShape DEF SendHold, HoldUndo, HoldCalls
<1>2. holdCall.on \in BOOLEAN /\ holdCall.prior \in BOOLEAN /\ w \in 1..Len(holds)
      /\ holds \in Seq(BOOLEAN)
  BY HoldShape DEF HoldCalls
<1>3. /\ holds' \in Seq(BOOLEAN) /\ Len(holds') = Len(holds)
      /\ \A v \in 1..Len(holds) : holds'[v] = IF v = w THEN holdCall.on ELSE holds[v]
  <2> HIDE DEF w
  <2> QED
    BY <1>1, <1>2, ExceptSeq
<1>4. DOMAIN holds' = 1..Len(holds) /\ DOMAIN holds = 1..Len(holds)
      /\ Version(holdCall.version)' = w
  BY <1>1, <1>3, HoldShape, LenProperties DEF Version
<1>5. HoldTypes'
  <2>1. holdUndo' \in [version : -1..LastVersion, on : BOOLEAN]
    <3>1. holdCall.version \in -1..LastVersion
      BY HoldShape, LockAssumption DEF HoldCalls
    <3> QED
      BY <1>1, <1>2, <3>1
  <2> QED
    BY <1>1, <1>3, <2>1 DEF HoldTypes, LockInv, LockTypeOK
<1>6. /\ ~interfered => SameBut(former)'
      /\ holdCall.undoing /\ ~strayed => SameBut(wanted)'
  <2> SUFFICES ASSUME NEW before, SameBut(before), before' = before PROVE SameBut(before)'
    BY <1>1 DEF LockInv, HoldsFormer, UndoCarries
  <2> HIDE DEF w
  <2>1. Len(holds) = Len(before) /\ \A v \in 1..Len(holds) : v # w => holds[v] = before[v]
    BY <1>4 DEF SameBut, w
  <2> QED
    BY <1>3, <1>4, <2>1 DEF SameBut
<1>7. HoldsFormer' /\ UndoCarries'
  BY <1>1, <1>6 DEF LockInv, HoldsFormer, UndoCarries
<1>8. HoldRestoredOnCurrent'
  <2> SUFFICES ASSUME holdCall.undoing, ~strayed
               PROVE  /\ Len(holds') = Len(wanted)
                      /\ \A v \in 1..Len(holds) :
                           v # w \/ v = Len(holds) => holds'[v] = wanted[v]
    BY <1>1, <1>3, <1>4 DEF HoldRestoredOnCurrent, HoldUndone
  <2>1. holdCall.on = wanted[Len(wanted)] /\ SameBut(wanted)
    BY <1>1 DEF LockInv, UndoCarries
  <2>2. Len(wanted) = Len(holds) /\ \A v \in 1..Len(holds) : v # w => holds[v] = wanted[v]
    BY <1>4, <2>1 DEF SameBut
  <2> HIDE DEF w
  <2> QED
    BY <1>3, <2>1, <2>2
<1> QED
  BY <1>1, <1>5, <1>7, <1>8, HoldStep

\* A hold call whose read or write fails keeps the invariant of the locks.
LEMMA HoldFailsKeeps ==
  ASSUME LockInv, UNCHANGED <<lockAim, lockClock>>, lockAim = "hold", HoldFails
  PROVE  LockInv'
<1>1. /\ holdCall.phase \in {"reading", "sending"} /\ holdCall' \in HoldCalls
      /\ holdCall'.phase = "refused"
      /\ holdCall'.version = holdCall.version /\ holdCall'.undoing = holdCall.undoing
      /\ UNCHANGED <<retained, holds, lockCall, holdUndo, former, wanted, strayed, interfered>>
  BY HoldShape DEF HoldFails, HoldCalls
<1>2. HoldTypes'
  BY <1>1 DEF HoldTypes, LockInv, LockTypeOK
<1>3. HoldsFormer' /\ UndoCarries'
  BY <1>1 DEF LockInv, HoldsFormer, UndoCarries, SameBut, Version
<1>4. HoldRestoredOnCurrent'
  BY <1>1 DEF HoldRestoredOnCurrent, HoldUndone
<1> QED
  BY <1>1, <1>2, <1>3, <1>4, HoldStep

\* The undo of a hold, replayed, keeps the invariant.
LEMMA ReplayHoldKeeps ==
  ASSUME LockInv, UNCHANGED <<lockAim, lockClock>>, lockAim = "hold", ReplayHold
  PROVE  LockInv'
<1>1. /\ holdCall.phase = "answered"
      /\ holdCall' = [phase |-> "reading", version |-> holdUndo.version, on |-> holdUndo.on,
                      prior |-> FALSE, undoing |-> TRUE]
      /\ holdUndo.version = holdCall.version
      /\ former' = holds /\ wanted' = former /\ strayed' = interfered /\ interfered' = FALSE
      /\ UNCHANGED <<retained, holds, lockCall, holdUndo>>
  BY DEF ReplayHold, StartHold, LockInv, HoldsFormer
<1>2. /\ holdUndo.on \in BOOLEAN /\ holdCall.version \in 0..LastVersion
      /\ former # <<>> /\ holds # <<>>
  BY <1>1, HoldShape, EmptySeq DEF LockInv, LockTypeOK, HoldCalls
<1>3. HoldTypes'
  BY <1>1, <1>2 DEF HoldTypes, HoldCalls, LockInv, LockTypeOK
<1>4. HoldsFormer'
  BY <1>1 DEF HoldsFormer, SameBut
<1>5. UndoCarries'
  BY <1>1 DEF LockInv, HoldsFormer, UndoCarries, SameBut, Version
<1>6. HoldRestoredOnCurrent'
  BY <1>1 DEF HoldRestoredOnCurrent, HoldUndone
<1> QED
  BY <1>1, <1>3, <1>4, <1>5, <1>6, HoldStep

\* The end of a hold call keeps the invariant of the locks.
LEMMA LeaveHoldKeeps ==
  ASSUME LockInv, UNCHANGED <<lockAim, lockClock>>, lockAim = "hold", LeaveHold
  PROVE  LockInv'
<1>1. /\ holdCall' = NoHoldCall /\ holdUndo' = NoHoldUndo /\ former' = <<>> /\ wanted' = <<>>
      /\ strayed' = FALSE /\ interfered' = FALSE /\ UNCHANGED <<retained, holds, lockCall>>
  BY DEF LeaveHold
<1>2. HoldTypes'
  <2>1. /\ holdCall' \in HoldCalls /\ holdCall'.version = 0 /\ holdCall'.phase = "idle"
        /\ ~holdCall'.undoing
        /\ holdUndo' \in [version : -1..LastVersion, on : BOOLEAN]
    BY <1>1, LockAssumption DEF NoHoldCall, NoHoldUndo, HoldCalls
  <2>2. <<>> \in Seq(BOOLEAN)
    BY EmptySeq
  <2>3. /\ holds' \in Seq(BOOLEAN) /\ Len(holds') \in 1..LastVersion
        /\ holdCall'.version <= Len(holds')
    BY <1>1, <2>1, HoldShape DEF LockInv, LockTypeOK
  <2>4. holdUndo' = NoHoldUndo
    BY <1>1
  <2> QED
    BY <1>1, <2>1, <2>2, <2>3, <2>4 DEF HoldTypes
<1>3. HoldsFormer' /\ UndoCarries' /\ HoldRestoredOnCurrent'
  BY <1>1 DEF NoHoldCall, HoldsFormer, UndoCarries, HoldRestoredOnCurrent, HoldUndone
<1> QED
  BY <1>1, <1>2, <1>3, HoldStep

------------------------------------------------------------------------------
(* ObjectLocks: the others, the clock, and the theorems *)

\* Once others wrote, nothing is claimed of what a call does.
LEMMA OthersLockKeeps ==
  ASSUME LockInv, UNCHANGED <<lockAim, lockClock>>, OthersLock
  PROVE  LockInv'
<1>1. /\ interfered' = TRUE /\ strayed' = holdCall.undoing
      /\ holdCall.undoing \in BOOLEAN
      /\ UNCHANGED <<lockCall, holdCall, holdUndo, former, wanted>>
  BY HoldShape DEF OthersLock, HoldCalls
<1>2. /\ retained \in Retentions /\ lockClock \in 0..LastClock /\ LastVersion \in Nat
      /\ holds \in Seq(BOOLEAN) /\ Len(holds) \in 1..LastVersion /\ Len(holds) \in Nat
      /\ lockClock + Day \in Instants
  <2>1. lockClock \in 0..LastClock
    BY DEF LockInv, LockTypeOK
  <2>2. lockClock + Day \in Instants
    BY <2>1, LockAssumption DEF Instants
  <2> QED
    BY <2>1, <2>2, HoldShape, LockAssumption DEF LockInv, LockTypeOK
<1>3. CASE lockAim # "hold"
           /\ retained' \in {Unkept} \cup [mode : RetentionModes, until : {lockClock + Day}]
           /\ holds' = holds
  <2>1. retained' \in Retentions
    BY <1>2, <1>3 DEF Retentions, Instants
  <2>2. LockTypeOK'
    BY <1>1, <1>3, <2>1 DEF LockInv, LockTypeOK
  <2> QED
    BY <1>1, <1>3, <2>2 DEF LockInv, WhatWasReadHolds, FirstPassTold, GuardPassed,
       HoldsFormer, RetentionGuardTight, DestroyableTrue, UndoCarries, HoldRestoredOnCurrent, HoldUndone
<1>4. ASSUME NEW v \in DOMAIN holds, retained' = retained,
             holds' = [holds EXCEPT ![v] = ~@]
      PROVE  LockInv'
  <2>1. v \in 1..Len(holds) /\ (~holds[v]) \in BOOLEAN
    BY <1>2, <1>4, LenProperties
  <2>2. holds' = [holds EXCEPT ![v] = ~holds[v]]
    BY <1>4
  <2>3. holds' \in Seq(BOOLEAN) /\ Len(holds') = Len(holds)
    BY <1>2, <2>1, <2>2, ExceptSeq
  <2>4. LockTypeOK'
    BY <1>1, <1>4, <2>3 DEF LockInv, LockTypeOK
  <2> QED
    BY <1>1, <1>4, <2>4 DEF LockInv, WhatWasReadHolds, FirstPassTold, GuardPassed,
       HoldsFormer, RetentionGuardTight, DestroyableTrue, UndoCarries, HoldRestoredOnCurrent, HoldUndone
<1>5. CASE retained' = retained /\ Len(holds) < LastVersion /\ holds' = Append(holds, FALSE)
  <2>1. holds' \in Seq(BOOLEAN) /\ Len(holds') = Len(holds) + 1
    BY <1>2, <1>5, AppendProperties
  <2>2. holdCall.version \in Nat /\ holdCall.version <= Len(holds)
    BY HoldShape
  <2>3. LockTypeOK'
    BY <1>1, <1>2, <1>5, <2>1, <2>2 DEF LockInv, LockTypeOK
  <2> QED
    BY <1>1, <1>5, <2>3 DEF LockInv, WhatWasReadHolds, FirstPassTold, GuardPassed,
       HoldsFormer, RetentionGuardTight, DestroyableTrue, UndoCarries, HoldRestoredOnCurrent, HoldUndone
<1> QED
  BY <1>3, <1>4, <1>5 DEF OthersLock

\* The clock only makes room.
LEMMA TimePassesKeeps ==
  ASSUME LockInv, lockAim' = lockAim, TimePasses
  PROVE  LockInv'
<1>1. /\ lockClock' = lockClock + 1 /\ lockClock' \in 0..LastClock /\ lockClock \in Int
      /\ UNCHANGED HoldSide /\ UNCHANGED <<retained, lockCall, interfered>>
      /\ lockAim # "hold"
  BY LockAssumption DEF TimePasses, HoldSide, holdVars, LockInv, LockTypeOK
<1>2. /\ lockCall \in LockCalls /\ lockCall.readAt \in Int /\ lockCall.until \in Int
      /\ lockCall.days \in {0, 1, 2} /\ Day \in Nat /\ lockCall.current.until \in Int
  BY RetentionShape, LockAssumption DEF LockInv, LockTypeOK, LockCalls, Instants
<1>3. RetentionTypes'
  BY <1>1 DEF RetentionTypes, HoldSide, holdVars, LockInv, LockTypeOK
<1>4. WhatWasReadHolds'
  <2> DEFINE span == lockCall.days * Day
  <2>1. span \in Nat
    BY <1>2
  <2>2. /\ lockCall.readAt <= lockClock
        /\ lockCall.phase \in {"reading", "judging", "sending"} =>
             lockCall.until <= lockClock + span
    BY DEF LockInv, WhatWasReadHolds
  <2>3. /\ lockCall.readAt <= lockClock'
        /\ lockCall.phase \in {"reading", "judging", "sending"} =>
             lockCall.until <= lockClock' + span
    <3> HIDE DEF span
    <3> QED
      BY <1>1, <1>2, <2>1, <2>2
  <2> QED
    BY <1>1, <2>2, <2>3 DEF LockInv, WhatWasReadHolds, HoldSide, holdVars
<1>5. RetentionGuardTight'
  BY <1>1, <1>2 DEF LockInv, RetentionGuardTight
<1>6. (FirstPassTold /\ GuardPassed /\ DestroyableTrue)'
  BY <1>1 DEF LockInv, FirstPassTold, GuardPassed, DestroyableTrue, Destroyable, HoldSide, holdVars
<1>7. holdCall = NoHoldCall
  BY <1>1 DEF LockInv, LockTypeOK
<1>8. LockTypeOK' /\ HoldsFormer' /\ UndoCarries' /\ HoldRestoredOnCurrent'
  BY <1>1, <1>3, <1>7 DEF LockInv, LockTypeOK, RetentionTypes, HoldSide, holdVars, HoldsFormer,
     NoHoldCall, UndoCarries, HoldRestoredOnCurrent, HoldUndone
<1> QED
  BY <1>4, <1>5, <1>6, <1>8 DEF LockInv

\* LockInv is inductive.
LEMMA LockStepKeeps ==
  ASSUME LockInv, [LockNext]_lockVars
  PROVE  LockInv'
<1>1. CASE UNCHANGED lockVars
  <2>1. LockTypeOK' /\ WhatWasReadHolds' /\ FirstPassTold' /\ GuardPassed'
    BY <1>1 DEF lockVars, holdVars, LockInv, LockTypeOK, WhatWasReadHolds, FirstPassTold, GuardPassed
  <2>2. HoldsFormer' /\ UndoCarries' /\ HoldRestoredOnCurrent'
    BY <1>1 DEF lockVars, holdVars, LockInv, HoldsFormer, SameBut, Version, UndoCarries,
       HoldRestoredOnCurrent, HoldUndone
  <2>3. RetentionGuardTight' /\ DestroyableTrue'
    BY <1>1 DEF lockVars, holdVars, LockInv, RetentionGuardTight, DestroyableTrue, Destroyable
  <2> QED
    BY <2>1, <2>2, <2>3 DEF LockInv
<1>2. CASE TimePasses /\ lockAim' = lockAim
  BY <1>2, TimePassesKeeps
<1>3. CASE ToolsNext /\ lockClock' = lockClock /\ lockAim' = lockAim
  <2>1. ASSUME NEW mode \in RetentionModes, NEW days \in {1, 2}, NEW ack \in BOOLEAN,
               lockAim = "retention", AskRetention(mode, days, ack)
        PROVE  LockInv'
    BY <1>3, <2>1, AskRetentionKeeps
  <2>2. CASE lockAim = "retention"
             /\ (ReadRetention \/ JudgeRetention \/ SendRetention \/ LeaveLock)
    BY <1>3, <2>2, ReadRetentionKeeps, JudgeRetentionKeeps, SendRetentionKeeps, LeaveLockKeeps
  <2>3. CASE lockAim = "status" /\ (AskStatus \/ StatusHold \/ StatusAnswer \/ LeaveLock)
    BY <1>3, <2>3, StatusKeeps, LeaveLockKeeps
  <2>4. ASSUME NEW version \in 0..Len(holds), NEW on \in BOOLEAN, lockAim = "hold",
               AskHold(version, on)
        PROVE  LockInv'
    BY <1>3, <2>4, AskHoldKeeps
  <2>5. CASE lockAim = "hold"
             /\ (ReadHold \/ SendHold \/ HoldFails \/ ReplayHold \/ LeaveHold)
    BY <1>3, <2>5, ReadHoldKeeps, SendHoldKeeps, HoldFailsKeeps, ReplayHoldKeeps,
       LeaveHoldKeeps
  <2>6. CASE OthersLock
    BY <1>3, <2>6, OthersLockKeeps
  <2> QED
    BY <1>3, <2>1, <2>2, <2>3, <2>4, <2>5, <2>6 DEF ToolsNext
<1> QED
  BY <1>1, <1>2, <1>3 DEF LockNext

\* The inductive invariant holds throughout.
THEOREM LockInvariant == LockSpec => []LockInv
<1>1. LockInit => LockInv
  <2> SUFFICES ASSUME LockInit PROVE LockInv
    OBVIOUS
  <2>1. /\ lockCall = NoLockCall /\ lockCall \in LockCalls /\ lockCall.phase = "idle"
        /\ lockCall.readAt = 0 /\ lockClock = 0 /\ 0 \in 0..LastClock /\ 0 <= 0
    BY LockAssumption DEF LockInit, NoLockCall, LockCalls, LockPhases, Instants, Retentions
  <2>2. /\ holdCall = NoHoldCall /\ holdCall \in HoldCalls /\ holdCall.phase = "idle"
        /\ holdCall.version = 0 /\ ~holdCall.undoing
        /\ holdUndo = NoHoldUndo /\ holdUndo \in [version : -1..LastVersion, on : BOOLEAN]
    BY LockAssumption DEF LockInit, NoHoldCall, HoldCalls, NoHoldUndo
  <2>3. retained \in Retentions
    BY DEF LockInit, Retentions
  <2>4. holds \in Seq(BOOLEAN) /\ Len(holds) \in 1..LastVersion
    <3>1. holds \in {<<FALSE>>, <<TRUE>>}
      BY DEF LockInit
    <3>2. LastVersion \in Nat \ {0} /\ 1 \in 1..LastVersion
      BY LockAssumption
    <3>3. CASE holds = <<FALSE>>
      BY <3>2, <3>3
    <3>4. CASE holds = <<TRUE>>
      BY <3>2, <3>4
    <3> QED
      BY <3>1, <3>3, <3>4
  <2>5. /\ former \in Seq(BOOLEAN) /\ wanted \in Seq(BOOLEAN)
        /\ interfered = FALSE /\ strayed = FALSE
    BY EmptySeq DEF LockInit
  <2>6. LockTypeOK
    <3>1. lockAim \in {"retention", "status", "hold"}
      BY DEF LockInit
    <3>2. holdCall.version <= Len(holds)
      BY <2>2, <2>4
    <3> QED
      BY <2>1, <2>2, <2>3, <2>4, <2>5, <3>1, <3>2 DEF LockTypeOK
  <2> QED
    BY <2>1, <2>2, <2>6 DEF LockInv, WhatWasReadHolds, FirstPassTold, GuardPassed,
       HoldsFormer, RetentionGuardTight, DestroyableTrue, UndoCarries, HoldRestoredOnCurrent, HoldUndone
<1> QED
  BY <1>1, LockStepKeeps, PTL DEF LockSpec

\* The guard on retention is the server's rule, within its grain.
THEOREM GuardsTight == LockSpec => []RetentionGuardTight
<1>1. LockInv => RetentionGuardTight
  BY DEF LockInv
<1> QED
  BY <1>1, LockInvariant, PTL

\* What is reported destroyable has neither hold nor retention left.
THEOREM DestroyablesTrue == LockSpec => []DestroyableTrue
<1>1. LockInv => DestroyableTrue
  BY DEF LockInv
<1> QED
  BY <1>1, LockInvariant, PTL

\* The undo of a hold keeps to the version the call wrote.
THEOREM HoldsRestored == LockSpec => []HoldRestoredOnCurrent
<1>1. LockInv => HoldRestoredOnCurrent
  BY DEF LockInv
<1> QED
  BY <1>1, LockInvariant, PTL
=============================================================================
