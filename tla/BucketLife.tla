----------------------------- MODULE BucketLife -----------------------------
(* The writes on a bucket as a whole.  Creating one, with a read-back that   *)
(* may fail; deleting one behind an emptiness check; the undo that deletes   *)
(* what a create made; and the purge of abandoned multipart uploads, aborted *)
(* one by one from a listing while their owners go on.                       *)
EXTENDS Naturals, FiniteSets

CONSTANTS Upload,      \* the uploads that may be in flight in the bucket
          Oldest       \* ages are counted in days up to this one

ASSUME LifeAssumption ==
  /\ Oldest \in Nat
  /\ IsFiniteSet(Upload)   \* a listing ends

VARIABLES lifeAim,     \* the part this behaviour is about
          bucket,      \* the bucket of this name at the server
          lifeCall,    \* the create or delete in progress, or the last one
          lifeUndo,    \* whether that call left the undo that deletes
          forecast,    \* the last preview of a delete, until others write
          estranged,   \* history: others remade the bucket since the last create
          removed,     \* history: who had made the bucket an undo removed
          inflight,    \* the uploads at the server
          age,         \* the days since each was started
          dated,       \* whether the listing gives its start
          purge,       \* the purge in progress, or the last one
          purged       \* history: uploads the purge really removed

bucketVars == <<bucket, lifeCall, lifeUndo, forecast, estranged, removed>>
uploadVars == <<inflight, age, dated, purge, purged>>
lifeVars == <<lifeAim, bucketVars, uploadVars>>

NoBucket == [exists |-> FALSE, lock |-> FALSE, holds |-> FALSE, maker |-> "nobody"]
NoLifeCall == [phase |-> "idle", tool |-> "none", lock |-> FALSE, seen |-> {},
               undoing |-> FALSE, error |-> FALSE]
NoPurge == [phase |-> "idle", days |-> 0, left |-> {}, matched |-> 0, aborted |-> 0,
            failures |-> 0]

LifeInit ==
  /\ lifeAim \in {"bucket", "uploads"}
  /\ bucket = NoBucket
  /\ lifeCall = NoLifeCall
  /\ lifeUndo = FALSE
  /\ forecast = "none"
  /\ estranged = FALSE
  /\ removed = "nobody"
  /\ inflight \in IF lifeAim = "uploads" THEN SUBSET Upload ELSE {{}}
  /\ dated \in IF lifeAim = "uploads" THEN [Upload -> BOOLEAN] ELSE {[u \in Upload |-> TRUE]}
  /\ age = [u \in Upload |-> 0]
  /\ purge = NoPurge
  /\ purged = {}

------------------------------------------------------------------------------
\* create_bucket, delete_bucket and the undo of the first.

StartLife(tool, lock, undoing) ==
  lifeCall' = [NoLifeCall EXCEPT !.phase = IF tool = "create" THEN "making" ELSE "checking",
                 !.tool = tool, !.lock = lock, !.undoing = undoing]

AskLife(tool, lock) ==
  /\ lifeCall.phase = "idle"
  /\ tool = "delete" => ~lock
  /\ StartLife(tool, lock, FALSE)
  /\ UNCHANGED <<bucket, lifeUndo, forecast, estranged, removed>>

ReplayLife ==
  /\ lifeCall.phase = "answered"
  /\ lifeUndo
  /\ StartLife("delete", FALSE, TRUE)
  /\ lifeUndo' = FALSE
  /\ UNCHANGED <<bucket, forecast, estranged, removed>>

LeaveLife ==
  /\ lifeCall.phase \in {"answered", "refused"}
  /\ lifeCall' = NoLifeCall
  /\ lifeUndo' = FALSE
  /\ removed' = "nobody"
  /\ UNCHANGED <<bucket, forecast, estranged>>

\* A name that is taken counts as created.
MakeOrAdopt ==
  /\ lifeCall.phase = "making"
  /\ bucket' = IF bucket.exists THEN bucket
               ELSE [exists |-> TRUE, lock |-> lifeCall.lock, holds |-> FALSE, maker |-> "us"]
  /\ estranged' = FALSE
  /\ forecast' = "none"
  /\ lifeCall' = [lifeCall EXCEPT !.phase = "reading lock"]
  /\ UNCHANGED <<lifeUndo, removed>>

\* make_bucket: MinIO refuses a name that is taken.
Make ==
  /\ lifeCall.phase = "making"
  /\ ~bucket.exists
  /\ bucket' = [exists |-> TRUE, lock |-> lifeCall.lock, holds |-> FALSE, maker |-> "us"]
  /\ estranged' = FALSE
  /\ forecast' = "none"
  /\ lifeCall' = [lifeCall EXCEPT !.phase = "reading lock"]
  /\ UNCHANGED <<lifeUndo, removed>>

\* A failed read-back taken for "no lock".
SeenOrOff(read) == IF read /\ bucket.exists THEN {bucket.lock} ELSE {FALSE}

\* The lock the read-back saw, if it was answered.
Seen(read) == IF read /\ bucket.exists THEN {bucket.lock} ELSE {}

\* The two reads of the read-back share one handler: the second is not tried
\* after the first failed, and its failure keeps what the first one saw.
ReadBackLock(read) ==
  /\ lifeCall.phase = "reading lock"
  /\ lifeCall' = [lifeCall EXCEPT !.seen = Seen(read), !.error = ~(read /\ bucket.exists),
                    !.phase = IF read /\ bucket.exists THEN "reading versioning" ELSE "answered"]
  /\ lifeUndo' = (lifeUndo \/ lifeCall'.phase = "answered")
  /\ UNCHANGED <<bucket, forecast, estranged, removed>>

ReadBackVersioning(read) ==
  /\ lifeCall.phase = "reading versioning"
  /\ lifeCall' = [lifeCall EXCEPT !.phase = "answered", !.error = ~(read /\ bucket.exists)]
  /\ lifeUndo' = TRUE
  /\ UNCHANGED <<bucket, forecast, estranged, removed>>

\* A preview that trusts the call to check.
GreenUnchecked == TRUE

\* guard_delete_bucket: the listing, versions and delete markers included, is empty.
VerifiedEmpty == bucket.exists /\ ~bucket.holds

PreviewOk == VerifiedEmpty

PreviewDelete ==
  /\ lifeCall.phase = "idle"
  /\ forecast' = IF PreviewOk THEN "green" ELSE "red"
  /\ UNCHANGED <<bucket, lifeCall, lifeUndo, estranged, removed>>

CheckEmpty ==
  /\ lifeCall.phase = "checking"
  /\ lifeCall' = [lifeCall EXCEPT !.phase = IF VerifiedEmpty THEN "capturing" ELSE "refused"]
  /\ UNCHANGED <<bucket, lifeUndo, forecast, estranged, removed>>

\* Best effort: whatever the reads answer, the delete goes on.
Capture ==
  /\ lifeCall.phase = "capturing"
  /\ lifeCall' = [lifeCall EXCEPT !.phase = "removing"]
  /\ UNCHANGED <<bucket, lifeUndo, forecast, estranged, removed>>

\* remove_bucket: MinIO refuses a bucket that holds anything.
RemoveBucket ==
  /\ lifeCall.phase = "removing"
  /\ VerifiedEmpty
  /\ bucket' = NoBucket
  /\ removed' = IF lifeCall.undoing THEN bucket.maker ELSE "nobody"
  /\ forecast' = "none"
  /\ lifeCall' = [lifeCall EXCEPT !.phase = "answered"]
  /\ UNCHANGED <<lifeUndo, estranged>>

\* A call fails at the server or on the way; the read-backs have their own.
LifeFails ==
  /\ lifeCall.phase \in {"making", "checking", "removing"}
  /\ lifeCall' = [lifeCall EXCEPT !.phase = "refused", !.error = TRUE]
  /\ UNCHANGED <<bucket, lifeUndo, forecast, estranged, removed>>

\* Other clients write and delete objects, make the bucket and remove it.
OthersUseBucket ==
  /\ \/ bucket.exists /\ bucket' = [bucket EXCEPT !.holds = ~@] /\ estranged' = estranged
     \/ VerifiedEmpty /\ bucket' = NoBucket /\ estranged' = TRUE
     \/ /\ ~bucket.exists
        /\ \E lock \in BOOLEAN :
             bucket' = [exists |-> TRUE, lock |-> lock, holds |-> FALSE, maker |-> "others"]
        /\ estranged' = TRUE
  /\ forecast' = "none"
  /\ UNCHANGED <<lifeCall, lifeUndo, removed>>

BucketNext ==
  \/ \E tool \in {"create", "delete"}, lock \in BOOLEAN : AskLife(tool, lock)
  \/ ReplayLife
  \/ LeaveLife
  \/ Make
  \/ \E read \in BOOLEAN : ReadBackLock(read) \/ ReadBackVersioning(read)
  \/ PreviewDelete
  \/ CheckEmpty
  \/ Capture
  \/ RemoveBucket
  \/ LifeFails
  \/ OthersUseBucket

------------------------------------------------------------------------------
\* remove_incomplete_uploads.

\* Takes an upload of unknown age for an old one.
ListedAgeOrOld(u) == IF dated[u] THEN age[u] ELSE Oldest

\* _age_days(...) or 0.
ListedAge(u) == IF dated[u] THEN age[u] ELSE 0

\* select_stale_uploads: one listing, and what in it is old enough.
StartPurge(days) ==
  /\ purge.phase = "idle"
  /\ purge' = LET victims == {u \in inflight : ListedAge(u) >= days}
              IN [NoPurge EXCEPT !.phase = "purging", !.days = days,
                    !.left = victims, !.matched = Cardinality(victims)]
  /\ purged' = {}
  /\ UNCHANGED <<inflight, age, dated>>

\* Abort one: an upload that is gone is a failure, and an answer that is lost
\* counts as one although the upload is gone.
AbortOne(u, answered) ==
  /\ purge.phase = "purging"
  /\ u \in purge.left
  /\ inflight' = inflight \ {u}
  /\ purged' = purged \cup ({u} \cap inflight)
  /\ purge' = IF answered /\ u \in inflight
              THEN [purge EXCEPT !.left = @ \ {u}, !.aborted = @ + 1]
              ELSE [purge EXCEPT !.left = @ \ {u}, !.failures = @ + 1]
  /\ UNCHANGED <<age, dated>>

AbortFails(u) ==
  /\ purge.phase = "purging"
  /\ u \in purge.left
  /\ purge' = [purge EXCEPT !.left = @ \ {u}, !.failures = @ + 1]
  /\ UNCHANGED <<inflight, age, dated, purged>>

EndPurge ==
  /\ purge.phase = "purging"
  /\ purge.left = {}
  /\ purge' = [purge EXCEPT !.phase = "answered"]
  /\ UNCHANGED <<inflight, age, dated, purged>>

LeavePurge ==
  /\ purge.phase = "answered"
  /\ purge' = NoPurge
  /\ purged' = {}
  /\ UNCHANGED <<inflight, age, dated>>

\* An owner completes an upload or starts a new one, under an id of its own.
OthersUpload(u) ==
  /\ u \notin purged
  /\ \/ u \in inflight /\ inflight' = inflight \ {u} /\ age' = age
     \/ /\ u \notin inflight /\ u \notin purge.left
        /\ inflight' = inflight \cup {u}
        /\ age' = [age EXCEPT ![u] = 0]
  /\ UNCHANGED <<dated, purge, purged>>

\* A day passes.
UploadsAge ==
  /\ \A u \in Upload : age[u] < Oldest
  /\ age' = [u \in Upload |-> IF u \in inflight THEN age[u] + 1 ELSE age[u]]
  /\ UNCHANGED <<inflight, dated, purge, purged>>

UploadsNext ==
  \/ \E days \in 0..Oldest : StartPurge(days)
  \/ \E u \in Upload : \/ \E answered \in BOOLEAN : AbortOne(u, answered)
                       \/ AbortFails(u)
                       \/ OthersUpload(u)
  \/ EndPurge
  \/ LeavePurge
  \/ UploadsAge

LifeNext ==
  \/ lifeAim = "bucket" /\ BucketNext /\ UNCHANGED <<lifeAim, uploadVars>>
  \/ lifeAim = "uploads" /\ UploadsNext /\ UNCHANGED <<lifeAim, bucketVars>>

LifeSpec == LifeInit /\ [][LifeNext]_lifeVars

------------------------------------------------------------------------------
Buckets == [exists : BOOLEAN, lock : BOOLEAN, holds : BOOLEAN,
            maker : {"nobody", "us", "others"}]
MakingPhases == {"making", "reading lock", "reading versioning"}
DeletingPhases == {"checking", "capturing", "removing"}
LifeCalls == [phase : {"idle", "answered", "refused"} \cup MakingPhases \cup DeletingPhases,
              tool : {"none", "create", "delete"}, lock : BOOLEAN, seen : SUBSET BOOLEAN,
              undoing : BOOLEAN, error : BOOLEAN]
Purges == [phase : {"idle", "purging", "answered"}, days : 0..Oldest, left : SUBSET Upload,
           matched : Nat, aborted : Nat, failures : Nat]

\* Types: a bucket that does not exist holds nothing, and a purge never counts
\* more than there are uploads.
BucketTypeOK ==
  /\ bucket \in Buckets /\ (bucket.exists \/ bucket = NoBucket)
  /\ lifeCall \in LifeCalls
  /\ lifeUndo \in BOOLEAN
  /\ lifeUndo => lifeCall.phase = "answered" /\ lifeCall.tool = "create"
  /\ forecast \in {"none", "green", "red"}
  /\ estranged \in BOOLEAN
  /\ removed \in {"nobody", "us", "others"}

UploadTypeOK ==
  /\ inflight \subseteq Upload /\ purged \subseteq Upload \ inflight
  /\ age \in [Upload -> 0..Oldest] /\ dated \in [Upload -> BOOLEAN]
  /\ purge \in Purges
  /\ purge.aborted + purge.failures + Cardinality(purge.left) <= Cardinality(Upload)

LifeTypeOK == BucketTypeOK /\ UploadTypeOK

\* create_bucket reports a lock, or none, only if it read it: an unread lock is
\* unknown, never off, and what was read is what this bucket was made with.
ReportedLockTrue ==
  /\ lifeCall.phase = "answered" /\ lifeCall.tool = "create" /\ ~estranged
  => lifeCall.seen \subseteq {lifeCall.lock}

\* The undo of a create removes a bucket this tool made, unless others took the
\* name over in between: the undo names the bucket, not the create.
UndoDeletesOwn == removed = "others" => estranged

\* A delete whose preview was green is not refused by the check of the call, nor
\* one whose preview was red let through, while nobody else writes.
PreviewForetells ==
  /\ forecast = "green" /\ lifeCall.tool = "delete" /\ lifeCall.phase = "refused"
     => lifeCall.error
  /\ forecast = "red" => ~(lifeCall.tool = "delete" /\ lifeCall.phase = "capturing")

\* No upload younger than the threshold is purged, whatever the listing says of
\* its age and whatever its owner does meanwhile; and when the purge ends, every
\* match is accounted for, and none is reported aborted that is not: a lost
\* answer may hide one that is.
PurgeSparesYoung ==
  /\ \A u \in purged : age[u] >= purge.days
  /\ purge.phase = "answered" =>
       /\ purge.aborted + purge.failures = purge.matched
       /\ purge.aborted <= Cardinality(purged)
       /\ Cardinality(purged) <= purge.matched
------------------------------------------------------------------------------
\* The inductive invariant.  A call is where its tool can be ...
CallInPlace ==
  /\ lifeCall.phase \in MakingPhases => lifeCall.tool = "create"
  /\ lifeCall.phase \in DeletingPhases => lifeCall.tool = "delete"
  /\ lifeCall.phase \in {"making", "reading lock"} => lifeCall.seen = {}

\* ... the bucket stays the one the create made until others remake it ...
MadeAsAsked ==
  ~estranged =>
    /\ lifeCall.phase \in {"reading lock", "reading versioning"} =>
         bucket.exists /\ bucket.lock = lifeCall.lock
    /\ lifeCall.phase = "reading versioning" => lifeCall.seen \subseteq {lifeCall.lock}

\* ... which leaves its mark, and a removal its maker, until the call is left ...
StrangersMark ==
  /\ bucket.maker = "others" => estranged
  /\ removed # "nobody" => lifeCall.phase = "answered" /\ lifeCall.tool = "delete"

\* ... a preview holds as long as nobody writes ...
ForecastHolds ==
  /\ forecast = "green" => VerifiedEmpty
  /\ forecast = "red" => ~VerifiedEmpty

\* ... and the purge works through what it matched: old enough, still to do or
\* done, and each counted once.
PurgeAdds ==
  /\ purge.left \cap purged = {}
  /\ \A u \in purge.left : age[u] >= purge.days
  /\ purge.aborted + purge.failures + Cardinality(purge.left) = purge.matched
  /\ purge.matched <= Cardinality(Upload)
  /\ purge.aborted <= Cardinality(purged)
  /\ Cardinality(purged) + Cardinality(purge.left) <= purge.matched
  /\ purge.phase = "answered" => purge.left = {}

BucketInv ==
  /\ BucketTypeOK /\ CallInPlace /\ MadeAsAsked /\ StrangersMark /\ ForecastHolds
  /\ ReportedLockTrue /\ UndoDeletesOwn /\ PreviewForetells

UploadInv == UploadTypeOK /\ PurgeAdds /\ PurgeSparesYoung

LifeInv == BucketInv /\ UploadInv
=============================================================================
