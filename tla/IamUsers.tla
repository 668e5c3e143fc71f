------------------------------ MODULE IamUsers ------------------------------
(* The guarded IAM writes on one account: create (an upsert), enable and    *)
(* disable, remove, attach and detach policies, with the undo each records. *)
(* The account may be the one this tool authenticates with.                 *)
EXTENDS Naturals, FiniteSets

CONSTANT PolicyNames

VARIABLES own,           \* whether the account is the tool's own credential
          account,       \* the account at the server
          iamCall,       \* the call in progress, or the last one
          iamUndo,       \* the undo descriptor of the last call that landed
          replacedAccount, \* history: what the last call that landed replaced
          wantedAccount, \* history: what the call that it undoes replaced
          meddled,       \* history: whether others wrote, and since its probe
          disturbed      \* history: whether they wrote since the undone call's probe

iamHistory == <<replacedAccount, wantedAccount, meddled, disturbed>>
iamVars == <<own, account, iamCall, iamUndo, iamHistory>>

NoAccount == [exists |-> FALSE, enabled |-> FALSE, policies |-> {}, secret |-> "none"]
\* Secrets only differ by who chose them.
Account == [exists : {TRUE}, enabled : BOOLEAN, policies : SUBSET PolicyNames,
            secret : {"owner", "caller"}]
OwnAccount == [exists |-> TRUE, enabled |-> TRUE, policies |-> PolicyNames,
               secret |-> "owner"]

IamRequests ==
  [tool : {"create", "enable", "disable", "remove"}, names : {{}}]
  \cup [tool : {"attach", "detach"}, names : SUBSET PolicyNames \ {{}}]

NoRequest == [tool |-> "none", names |-> {}]
NoIamCall == [phase |-> "idle", tool |-> "none", names |-> {}, existed |-> "unread",
              wasEnabled |-> FALSE, undoing |-> FALSE]

IamInit ==
  /\ own \in BOOLEAN
  /\ account = IF own THEN OwnAccount ELSE NoAccount
  /\ iamCall = NoIamCall
  /\ iamUndo = NoRequest
  /\ replacedAccount = NoAccount /\ wantedAccount = NoAccount
  /\ meddled = "never" /\ disturbed = FALSE

------------------------------------------------------------------------------
\* Forgotten in remove_user.
SelfTargetUnlessRemoving(tool) == own /\ tool \notin {"create", "remove"}

\* guard_self_target where it is called: everywhere but in create_user.
SelfTarget(tool) == own /\ tool # "create"

CallIam(r, undoing) ==
  iamCall' = [NoIamCall EXCEPT !.tool = r.tool, !.names = r.names,
                !.undoing = undoing,
                !.phase = IF SelfTarget(r.tool) THEN "refused" ELSE "probing"]

AskIam(r) ==
  /\ iamCall.phase = "idle"
  /\ CallIam(r, FALSE)
  /\ UNCHANGED <<own, account, iamUndo, iamHistory>>

\* A preview of a call is refused where the call is, and sends nothing.
PreviewIam(r) ==
  /\ iamCall.phase = "idle"
  /\ iamCall' = [NoIamCall EXCEPT !.tool = r.tool, !.names = r.names,
                   !.phase = IF SelfTarget(r.tool) THEN "refused" ELSE "previewed"]
  /\ UNCHANGED <<own, account, iamUndo, iamHistory>>

\* undo_apply, of the last call or of its undo.
ReplayIam ==
  /\ iamCall.phase = "answered"
  /\ iamUndo # NoRequest
  /\ CallIam(iamUndo, TRUE)
  /\ wantedAccount' = replacedAccount
  /\ disturbed' = (meddled = "since")
  /\ UNCHANGED <<own, account, iamUndo, replacedAccount, meddled>>

LeaveIam ==
  /\ iamCall.phase \in {"refused", "previewed", "answered"}
  /\ iamCall' = NoIamCall
  /\ iamUndo' = NoRequest
  /\ replacedAccount' = NoAccount /\ wantedAccount' = NoAccount
  /\ disturbed' = FALSE
  /\ UNCHANGED <<own, account, meddled>>

\* The credential still works: nobody disabled it or took its rights or secret.
Authorized ==
  ~own \/ (account.exists /\ account.enabled /\ account.policies # {}
           /\ account.secret = "owner")

\* Takes every failed probe for "not found".
ExistedIfFound(outcome) == IF outcome = "found" THEN "yes" ELSE "no"

\* What a probe that ended this way says about the account having existed.
Existed(outcome) ==
  CASE outcome = "found" -> "yes"
    [] outcome = "404"   -> "no"
    [] OTHER             -> "unknown"

ProbeOutcomes ==
  {"failed"} \cup (IF ~Authorized THEN {} ELSE IF account.exists THEN {"found"} ELSE {"404"})

\* user_info: create_user and remove_user go on without it, the others raise.
ProbeUser(outcome) ==
  /\ iamCall.phase = "probing"
  /\ meddled' = IF meddled = "since" THEN "before" ELSE meddled
  /\ iamCall' =
       [iamCall EXCEPT
          !.phase = IF outcome = "found" \/ iamCall.tool \in {"create", "remove"}
                    THEN "sending" ELSE "refused",
          !.existed = Existed(outcome),
          !.wasEnabled = outcome = "found" /\ account.enabled]
  /\ UNCHANGED <<own, account, iamUndo, replacedAccount, wantedAccount, disturbed>>

\* What MinIO makes of a request, and whether it takes it.
Applied(r) ==
  CASE r.tool = "create" /\ account.exists -> [account EXCEPT !.secret = "caller"]
    [] r.tool = "create" /\ ~account.exists ->
                            [exists |-> TRUE, enabled |-> TRUE, policies |-> {},
                             secret |-> "caller"]
    [] r.tool \in {"enable", "disable"} -> [account EXCEPT !.enabled = (r.tool = "enable")]
    [] r.tool = "remove" -> NoAccount
    [] r.tool = "attach" -> [account EXCEPT !.policies = @ \cup r.names]
    [] r.tool = "detach" -> [account EXCEPT !.policies = @ \ r.names]

Acceptable(r) ==
  /\ Authorized
  /\ r.tool # "create" => account.exists
  /\ r.tool \in {"attach", "detach"} => Applied(r) # account

\* The undo builders of the five tools.
UndoRequest(c) ==
  CASE c.tool = "create" /\ c.existed = "no" -> [tool |-> "remove", names |-> {}]
    [] c.tool \in {"enable", "disable"} ->
         [tool |-> IF c.wasEnabled THEN "enable" ELSE "disable", names |-> {}]
    [] c.tool = "attach" -> [tool |-> "detach", names |-> c.names]
    [] c.tool = "detach" -> [tool |-> "attach", names |-> c.names]
    [] OTHER -> NoRequest

SendIam ==
  /\ iamCall.phase = "sending"
  /\ Acceptable(iamCall)
  /\ account' = Applied(iamCall)
  /\ replacedAccount' = account
  /\ iamUndo' = UndoRequest(iamCall)
  /\ iamCall' = [iamCall EXCEPT !.phase = "answered"]
  /\ UNCHANGED <<own, wantedAccount, meddled, disturbed>>

IamFails ==
  /\ iamCall.phase = "sending"
  /\ iamCall' = [iamCall EXCEPT !.phase = "refused"]
  /\ UNCHANGED <<own, account, iamUndo, iamHistory>>

\* Another administrator changes, creates or removes the account.
OthersAdminister ==
  /\ \E a \in Account \cup {NoAccount} :
       /\ a # account
       /\ ~account.exists => a \in {b \in Account : b.enabled /\ b.policies = {}}
       /\ a.secret # "caller" \/ account.secret = "caller"
       /\ account' = a
  /\ meddled' = "since"
  /\ disturbed' = iamCall.undoing
  /\ UNCHANGED <<own, iamCall, iamUndo, replacedAccount, wantedAccount>>

IamNext ==
  \/ \E r \in IamRequests : AskIam(r) \/ PreviewIam(r)
  \/ ReplayIam
  \/ LeaveIam
  \/ \E outcome \in ProbeOutcomes : ProbeUser(outcome)
  \/ SendIam
  \/ IamFails
  \/ OthersAdminister

IamSpec == IamInit /\ [][IamNext]_iamVars

------------------------------------------------------------------------------
IamTools == {"create", "enable", "disable", "remove", "attach", "detach"}
IamPhases == {"idle", "probing", "sending", "answered", "refused", "previewed"}
IamCalls == [phase : IamPhases, tool : {"none"} \cup IamTools, names : SUBSET PolicyNames,
             existed : {"unread", "yes", "no", "unknown"}, wasEnabled : BOOLEAN,
             undoing : BOOLEAN]

\* Types: an account that does not exist has nothing, and descriptors are
\* requests.
IamTypeOK ==
  /\ own \in BOOLEAN
  /\ account \in Account \cup {NoAccount}
  /\ replacedAccount \in Account \cup {NoAccount}
  /\ wantedAccount \in Account \cup {NoAccount}
  /\ meddled \in {"never", "before", "since"} /\ disturbed \in BOOLEAN
  /\ iamUndo \in IamRequests \cup {NoRequest}
  /\ iamCall \in IamCalls
  /\ iamCall.phase \in {"probing", "sending", "answered"} =>
       [tool |-> iamCall.tool, names |-> iamCall.names] \in IamRequests

\* An undo landed, and others have not written since the undone call's probe.
UndoneQuietly == iamCall.phase = "answered" /\ iamCall.undoing /\ ~disturbed

\* The undo of a call, or of such an undo, puts back what the undone call found,
\* nobody else writing since that call probed: the removal of an account it created, which is never one that
\* was there before; the status; and the policies, where the call changed each
\* name it was given (the undo builders of mcp_server/tools/iam.py).
UndoRestoresAccount ==
  /\ UndoneQuietly
  /\ \/ iamCall.tool \in {"remove", "enable", "disable"}
     \/ iamCall.tool = "detach" /\ iamCall.names \cap wantedAccount.policies = {}
     \/ iamCall.tool = "attach" /\ iamCall.names \subseteq wantedAccount.policies
  => account = wantedAccount

\* The policies the user had before an attach are in place after its undo: "Detach
\* the policies this call attached, leaving any the user already had in place"
\* (mcp_server/tools/iam.py:78).
AttachUndoLeavesTheRest ==
  UndoneQuietly /\ iamCall.tool = "detach" => wantedAccount.policies \subseteq account.policies

\* No sequence of calls, previews and undos of this tool disables, removes or
\* re-policies the credential it authenticates with (guard_self_target).  Its
\* secret is another matter: create_user is not guarded.
OwnCredentialKept ==
  own /\ meddled = "never" => account = [OwnAccount EXCEPT !.secret = account.secret]
------------------------------------------------------------------------------
\* The inductive invariant.  The guard lets one tool through to the tool's own
\* credential ...
OnlyCreatesOwn ==
  own /\ iamCall.phase \in {"probing", "sending", "answered"} => iamCall.tool = "create"

\* ... a call that nobody disturbed since its probe knows the account it is about
\* to change ...
ProbeHolds ==
  /\ iamCall.phase = "sending" /\ meddled # "since" =>
       /\ iamCall.existed = "no" => account = NoAccount
       /\ iamCall.tool \in {"enable", "disable"} => iamCall.wasEnabled = account.enabled
  /\ iamCall.phase \in {"sending", "answered"} => iamCall.existed # "unread"

\* ... and a request undoes that change: the account is what was replaced, but
\* for what the request puts back.
Undoes(r, before) ==
  /\ r.tool = "remove" => before = NoAccount
  /\ r.tool \in {"enable", "disable"} =>
       /\ account = [before EXCEPT !.enabled = account.enabled]
       /\ before.enabled = (r.tool = "enable")
  /\ r.tool = "detach" => account = [before EXCEPT !.policies = @ \cup r.names]
  /\ r.tool = "attach" => account = [before EXCEPT !.policies = @ \ r.names]

UndoFits ==
  /\ iamCall.phase = "answered" /\ meddled # "since" => Undoes(iamUndo, replacedAccount)
  /\ iamCall.undoing /\ ~disturbed =>
       /\ meddled # "since"
       /\ iamCall.phase \in {"probing", "sending"} => Undoes(iamCall, wantedAccount)

IamInv ==
  /\ IamTypeOK
  /\ OnlyCreatesOwn
  /\ ProbeHolds
  /\ UndoFits
  /\ iamUndo.tool # "create" /\ (iamCall.undoing => iamCall.tool # "create")
  /\ OwnCredentialKept
  /\ UndoRestoresAccount
=============================================================================
