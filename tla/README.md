# Verification of minio-aiops

TLA+ specifications of minio-aiops, checked with TLC on small instances. Every
safety property that a passing run checks is also proved by TLAPS for every
instance, under the premises the run has: `AllTold` for the truth of verdicts, one
thread for revoked patterns.
`PROJECT.json` lists components, runs, mutants, hazards, findings and theorems,
and maps every definition to the lines of source it stands for. Paths below are
relative to `minio_aiops/`.

## The system

minio-aiops lets an agent (through an MCP server) or an operator (through a
CLI) read and change MinIO deployments. Every operation is a *governed tool*: a
function wrapped so that it is budgeted, audited and, for writes, made
reversible. Several processes (servers and CLI invocations) run at once, share
the directory `~/.minio-aiops`, and talk to MinIO servers nobody else locks.

| Part | State it keeps | Operations | Interacts by |
| --- | --- | --- | --- |
| `governance/decorators.py`, `governed_tool` | per call: status, intent id, result | pre-check, begin write, run the body, record undo, finalize | calls every part below; one wrapper per tool call, threads of an MCP server run several |
| `governance/audit.py`, audit engine | `audit.db` (shared file), archives, `_ok` and `_write_blocked` per process | log, begin_write, finish_write, reconcile_pending, rotate | SQLite, and a file lock across processes |
| `governance/outcome.py`, `mcp_server/_shared.py` | the captured prior state of a call | classify a failure as definite or undetermined | the result payload |
| `governance/undo.py`, `mcp_server/tools/undo.py` | `undo.db` (shared file): tokens recorded or applied | record, get, list, mark; undo_apply | dispatches the inverse tool, itself governed |
| `governance/budget.py` | call and time totals, a window of stamps per fingerprint (per process) | check_and_record, add_duration | stops a call before it starts |
| `governance/patterns.py` | loaded patterns, arm stamps, failure counts, cooldowns (per process) | match, report_outcome, reload | consulted before, told after each call |
| `ops/*_writes.py` with `mcp_server/tools/*` | none of their own; the server's | read prior state, guard, send, build the inverse | minio SDK over urllib3 |
| `ops/` analyses | none | rank exposures, quorum margins, capacity causes, lifecycle and retention gaps | read-only SDK, admin and metrics calls |
| `connection.py` | a connection cached per target | SDK calls, translated errors, retries | urllib3 (30 s timeout, 2 retries), httpx for health and metrics |
| `secretstore.py`, `config.py` | `secrets.enc` (shared file), an unlocked copy cached per process | set, delete, rotate, migrate, get | whole-file replace through one temporary file |
| `cli/`, `doctor.py` | none | parse, call, print, exit code | governed tools |

What is hard about it:

* **Interleaving.** Processes insert, rotate and finish in one `audit.db`; two
  agents apply one undo token; two writers of one setting race.
* **Undetermined outcomes.** A request can take effect although its response is
  lost, its sender crashed or gave up, or the HTTP pool sent it twice.
* **Partial failure.** Storage may fail between any two steps: after the
  intent, after the change, after the rename of a rotation, before the mark of
  an undo token.
* **Crashes and restarts** between the intent, the request and the verdict.
* **Stale state.** Row ids remembered across a rotation, prior values read
  before the write, in-memory windows and caches.

What makes the parts correct, in one line each:

* audit: no change can land without a durable intent, no intent disappears, no
  row lies, nobody closes a stranger's row, nobody is wedged;
* undo: a token says "applied" only if its inverse landed, is applied once, and
  restores what its write replaced;
* budget: never more calls than the ceiling, no runaway refused without cause,
  none let through beyond one call per thread;
* patterns: never armed beyond its caps, after a row of failures until the
  cooldown is over, or when revoked before the call;
* writes: no write that destroys its own reversibility, an inverse that
  really is one, a preview that refuses what the call refuses, and never a
  write against the credential the tool itself uses;
* secret store: a command that dies loses nothing, and a wrong password never
  passes for a missing secret;
* analyses: what is reported is so, and a clean report means there is nothing;
* command line: an exit status a script can act on.

## Modules

| Module | Models |
| --- | --- |
| `WriteAheadAudit` | the abstract contract: what a trail promises about writes, whoever keeps it |
| `GovernedCalls` | the wrapper and the audit engine: calls of several processes over one `audit.db`, with the storage, the server and the operator around them; shown to implement the contract |
| `GovernedCallsInv` | the inductive invariant of `GovernedCalls`, as named conjuncts |
| `GovernedCallsProofs` | its theorems |
| `UndoTokens` | `undo.db` and `undo_apply` over one setting of one bucket, and its inductive invariant |
| `UndoTokensProofs` | its theorems |
| `Budget` | the ceilings and the runaway guard of one process, and its inductive invariant |
| `BudgetProofs` | its theorems |
| `Patterns` | the auto-remediation pattern engine of one process, and its inductive invariant |
| `PatternsProofs` | its theorems |
| `SettingWrites` | the reversible writes of a bucket's settings: policy, versioning, lifecycle, quota, default retention |
| `IamUsers` | the guarded writes on one IAM account |
| `BucketLife` | creating and deleting a bucket, and the purge of abandoned uploads |
| `ObjectLocks` | retention, lock status and legal holds of one key |
| `SecretStore` | the abstract store: what keeping secrets promises, however the file is rewritten |
| `SecretFile` | the encrypted file under several commands and one server; shown to implement that store |
| `WritesProofs` | the theorems of `SettingWrites`, `IamUsers` and `SecretFile` |
| `BucketProofs` | the theorems of `BucketLife` and `ObjectLocks` |
| `Scans` | the four diagnoses that probe buckets or users one after the other |
| `Gauges` | health probes, the merge of three scrapes, and the verdicts on them |
| `CliExit` | a command from its arguments to its exit status, and `doctor` |
| `ReportsProofs` | the theorems of these three |
| `MCGovernedCalls`, `MCUndoTokens`, `MCPatterns` | the instances TLC checks |
| `MCPatternMovers` | two instances of `Patterns` in one run |
| `MCParts` | `Budget`, `SettingWrites`, `IamUsers`, `BucketLife`, `ObjectLocks`, `SecretFile`, `Scans`, `Gauges` and `CliExit` side by side |
| `PartsProofs` | that each part behaves there as it does alone |

How the modules compose: `GovernedCalls` is the wrapper around any tool body;
`UndoTokens` is the undo store around any tool of the shape that `SettingWrites`,
`IamUsers`, `BucketLife` and `ObjectLocks` show in detail, each with its own
guards and the server's rules. Those four follow one caller and its undo against
other clients; crashes and lost responses are in the first two. `CliExit` takes
its outcomes from those `GovernedCalls` produces.

### GovernedCalls

One call goes through `pc` the way a tool call goes through
`governed_tool.wrapper`: `idle`; `begin` (`begin_write`); `wait`, `guard`,
`rename`, `schema`, `insert` (`AuditEngine.log` inside `_rotation_guard`, with
the rotation in it); `call`, `sent` (the tool body, before and after its
request leaves); `undo` (`_record_undo`); `finalize` (`_finalize`). It ends
`done`, `raised` (its caller got `AuditUnavailable` although the change may
have landed) or `crashed`. Reads and refused calls skip the intent and pass
through `wait ... insert` on their way out, where `log` is best-effort.

`verdict` is `state.status`; `intent` is `state.intent_id`; `db` is the table,
its positions the AUTOINCREMENT ids, which restart when a rotation starts a new
file; `ready` says whether that file holds the table (a rotation renames, then
creates: in between, and forever if the creation fails, it does not);
`archived` are the rows moved out. `wire` is what the server did with the
request, `reconciled` remembers whom an operator resolved. `ok` and `blocked`
are the engine's flags in each process. `disk` is whether the storage answers;
it may change at any moment, and every step that touches it reads it then.

Each step holds what one process does without anyone else being able to
observe or fail it in between: an SQLite transaction, a rename, a flag. The
steps inside `_rotation_guard` are separate (check, rename, create, insert)
because crashes, storage failures and, outside the lock, `finish_write` and
`reconcile_pending` do come in between. Waiting for the guard is waiting for
`lock`; the kernel frees it when its holder dies.

Three sets describe what the environment does to a write. `Marks` are the
writes whose lost response `tool_errors` recognises as undetermined; `Resends`
are requests urllib3 sends a second time and the server then refuses;
`Interrupts` are calls a Ctrl-C may interrupt while the tool body runs. The
code as built is `Marks = {}`, with `Resends` and `Interrupts` not empty (see
Findings). The promises about verdicts hold when every undetermined outcome is
told apart (`AllTold`). Those about visibility, archives, tokens and ownership
hold regardless: their theorems have no such premise.

### WriteAheadAudit

Two variables per write: the statuses the trail shows, and whether the change
is live. A change lands only while the record says pending or unknown, and a
record closes "ok" only if it is live and "error" only if it is not, nor will
be. `GovernedCalls!ImplementsContract` is this specification with `record`
computed from the live rows and the archives and `live` from `wire`.

### UndoTokens

Agents (threads or processes) work on one setting of one bucket: any tool of
the read-prior, send, return-inverse shape (policy, versioning, lifecycle,
quota, default retention, ...). A write reads the prior value, sends, is
answered, and records a token with the prior value. `undo_apply` looks a token
up, checks that it is recorded, runs the same write with the token's value
(which records a token in turn), and marks it. Requests may outlive their
sender (`stray`) and arrive later or never. `disturbed`, `replaced`, `undone`
and `reported` are history: another change landed since this agent read; what
its request replaced; how often each token's inverse landed; what callers were
told.

As built, a lost response is an ordinary error payload here, so no token is
recorded for it; the tokens marked unverified appear in `GovernedCalls`.

### Budget

Threads of one process issue calls. `Call` reads the clock (`stamp` is `now` of
`check_and_record`); the lock comes later, in `RefuseCeiling` or `CheckWindow`,
so that a thread may enter it with a stamp older than those recorded since.
`AddDuration` is the wrapper's `finally` clause, which adds the time of refused
calls too. The wrapper reads its start time in the same breath as the check
reads its own, so one `stamp` stands for both.

`admitted` is history: every call ever recorded under a fingerprint, with its
stamp and the time it was recorded. The deque is what is left of it after the
first `popped` entries. The limits are constants: the code reads them
from the process's environment at every check, so that they can be raised
within a session, and what is claimed here is about a session in which nobody
does. The clock never goes back.

### Patterns

Calls of one tool in several threads. `Enter ... SetMtimes` is
`_maybe_reload` and `_load`, which take no lock: reading the files, installing
`_patterns` (`loaded`) and installing `_mtimes` are separate steps. `Match` and
`NoMatch` pick the first armable pattern, `Broken`, `RateLimited` and `Arm` are
the locked part of `match`, and `Report` is `report_outcome`, which takes the
lock, too: one step each. `Edit` is the operator's editor.

A version of the directory is a sequence of files in the order of their names;
`files` holds all versions so far, and `loaded`, `mtimes`, `snap` and `since`
are positions in it. `since` is the version a call may rely on: the one that
stood when it began or, when a `stat` of its own check failed and the rest of
the check was dropped (`CheckFails`, `patterns.py:177`), the one the last good
check found. A file says whether it validates, whether it may be armed
(risk, approval, expiry) and what its limits are. `arms` and `outcomes` are
history; `kept` tells which armings `arm_timestamps` still holds. A pattern that
is no longer loaded when its outcome comes in gets the default threshold and
cooldown, as in the code. An edit that leaves the modification time as it was is
not modelled: no reload can notice it.

The wrapper reports a call whose intent was refused, so that its tool never
ran, as a failed run of its pattern (`decorators.py:446`, against the purpose
stated at `patterns.py:321`). `Report` may therefore say failure for any armed
call. That is harmless to the promises checked here: it can only open the
breaker earlier.

### SettingWrites

`settingKind` picks the tool pair once. `settingCall.phase` follows one call:
the wrapper's and the operation's own checks (`AskSetting`; `PreviewSetting` for
a dry run), the read of the prior value (`ReadPrior`), the request
(`SendSetting`), the answer with its undo descriptor (`restores`).
`ReplaySetting` is what `undo_apply` does with that descriptor: the same kind of
call again, through the same guards. A policy document is the set of rights it
really denies the tool's own key, which is what MinIO goes by, and whether the
patterns of `guard_set_bucket_policy` take it for a denial of `PutBucketPolicy`
(`caught`), which is what the guard goes by. Neither follows from the other.
`OthersSet` is another client.

### IamUsers

One account, which may be the tool's `own`. A call is guarded (`SelfTarget`),
probes the user (`ProbeUser`: found, 404 or failed), sends and is answered;
`Acceptable` and `Applied` are MinIO's side, an attach or detach that changes
nothing being refused. Secrets are distinguished only by who chose them.
`ReplayIam` is `undo_apply` with the descriptor of the last call, which may itself
be an undo. `meddled` says whether others wrote, and whether before or since the
last call's probe; `disturbed` says the same of the call that is being undone, and
`wantedAccount` is what that one replaced.

### BucketLife

`bucket` is the name at the server, with its lock, whether it holds anything and
who made it. `Make`, `ReadBackLock` and `ReadBackVersioning` are `create_bucket`;
`CheckEmpty`, `Capture` and `RemoveBucket` are `delete_bucket`, also as the undo
of a create; `PreviewDelete` is its dry run, remembered in `forecast` until the
bucket changes. The purge lists once (`StartPurge`) and aborts one by one while
the owners of the uploads finish them or start new ones. `dated` says whether
the listing gave a start time; without one the age counts as zero.

### ObjectLocks

Time runs in units of which `Grain` make 0.01 day, the precision to which
`_days_until` rounds. `AskRetention ... SendRetention` is `set_object_retention`:
its guard runs twice, in the tool and in the operation, each time with a new
instant and a new read. `AskStatus ... StatusAnswer` is `object_lock_status`. A
legal-hold call reads the current version (`ReadHold`) and writes the version it
was given (`SendHold`; version 0 stands for "none given"). Its undo, and the undo
of that, go through the same steps (`ReplayHold`); `wanted` are the holds they
are to bring back, and `strayed` says that others wrote in between.

### SecretFile

`writer` are command processes (set, delete, rotate, migrate); each unlocks,
changes its map and persists it in the three steps of `_persist`: open and
truncate the temporary file, write, rename. A process may die before any of
them. `fd` says which file an open descriptor points to, for a rename by one
process moves the file another is writing. `Resolve` is the server's
`_resolve_secret`, with the map it cached at the first unlock and the legacy
environment variable as the last resort. `overlapped` remembers that two
commands were under way at once: what is promised is promised until then.

`SecretStore` says what all this amounts to: a store that changes in one piece, one
secret or the password at a time; a plaintext `.env` that is put aside only once
all of it is in the store; and a server that goes by the map it unlocked first and
refuses a password that does not fit rather than look elsewhere. It knows no
temporary file, no process and no death. `StoreIsAtomic` maps the file to its
`store` and the server's cache to its `view`: `Rename` is `Put` or `Rotate`,
`PutAside` and `Resolve` are themselves, and all other steps stutter, deaths
included. When two commands overlap the promise ends (`Overlap`).

### Scans

`diagnose_retention_gaps`, `bucket_exposure_audit`, `lifecycle_gap_analysis` and
`diagnose_iam_exposure` share a shape: list, probe each subject in order, judge,
rank, cut. `Plan` is the order of the probes, `Needless` skips those an earlier
answer decides, `ProbeNext` may fail. `got` holds the answers; `RetentionFault ...
IamFault` are the finding rules applied to them, and the same rules applied to
`world` are the reference the properties compare with. Only one representative
value of each judgement is kept (retention for a year or a month, rules that
expire in a week or after everything). `Rows` are the findings as the code sorts
them, by score and then in the order they were found; `Shown` are those before
the cut.

### Gauges

`reading` goes through the three health probes and the three scrapes in the
order of the code; `merged` is `MinioConnection.metrics`, where a series that
two endpoints export counts once. `hidden` is a gauge this server does not
export. The deployment may change in any way
between two steps. Verdicts are sets: `{}` is the code's `None`. Heal errors, per-drive
findings and the reclaimable-bytes estimate are left out.

### CliExit

A command validates, asks for confirmation twice where the code does, calls its
governed twin and turns what that returned or raised into an exit status;
`cliRow` is the status of the audit row, `cliEffect` what happened at the
server. The kinds are those the code treats differently: a read runs under
`@audited`, `undo list` prints what its governed twin returned without going
through `checked`, retention-set reads back what it wrote, a purge may fail in
part, the result of an undo nests that of its inverse. A call can fail after its
change landed: the retention's read-back, an inverse whose row cannot be
resolved, and the mark of the undo token raise, and `tool_errors` makes an
ordinary error of it (`CallFailsLate`); a Ctrl-C may come with or without the
change (`CallInterrupted`). `checkup` is `run_doctor`: two loops over the
targets, each probe able to fail or to make the rest of its target moot.

## Runs

| Run | Shows | Bounds |
| --- | --- | --- |
| `gov_two_processes` | the inductive invariant, true verdicts, justified tokens, and the refinement of the contract | two writes in two processes, rotation at one row |
| `gov_ends` | every call ends, in the code as built: lost responses not recognised, requests re-sent, calls interrupted | a write and a read in two processes |
| `undo_concurrent` | applied tokens landed, no replay after a report, tokens restore | two agents, two values, two tokens, one stray request, faults |
| `parts` | nine parts, one at a time: the inductive invariant of each (`PartsInv`); the budget's totals, refusals and bursts; undos of settings and accounts restore and are replayable; the tool's own credential stays; bucket previews, read-backs and purges; retention guard, lock status and holds; the secret store, and that it implements the atomic one (`StoreIsAtomic`); true findings and clean verdicts; exit statuses | below |
| `patterns` | the inductive invariant (`EngineInv`), the caps, the breaker holds and is never held open without a row of failures, patterns revoked before the call, or before its last good check of the files, are not armed by a lone thread | two threads, one target: one thread, two patterns in three editions with different limits, clock to 2; or both threads, one pattern nobody edits, clock to 3 |
| `gov_lost_response`, `gov_interrupted`, `gov_block_race`, `undo_twice`, `patterns_stale_reload`, `iam_attach_undo`, `hold_wrong_version` | each violates one property: the findings below | as above; `gov_block_race` has one process, `patterns_stale_reload` two threads that both meet edits |

The bounds are enough for the cases that matter to happen. Each call is issued
once, so two writes in two processes give every pair of program points, both
orders of the guard, a rotation (`RotateAt = 1`: any row fills the file) by one
process before, between and after the steps of the other, ids that restart
while an intent is open, and a crash or storage failure anywhere. Adding a
third call adds no new pair. `MaxTokens` makes `record` fail when the table is
full, which the code does for other reasons; `MaxStray` drops further strays,
which the network may do anyway. Two agents and two tokens let one token be
applied twice and one undo be undone; two values suffice to tell a stale prior
value from a fresh one, and agents and values are symmetric.

The nine parts of `parts` share no state, so one run chooses one of them at the
start and leaves the others in one of their initial states: its state space is
the sum of theirs, not the product, and every property speaks of one part, or
of the part that runs (`PartsInv`).

| Part | Bounds, and why they suffice |
| --- | --- |
| budget | two threads, one fingerprint, two calls a window of 1, clock to 4: room for three full windows, so that stamps enter, leave and are overtaken; ceilings of 5 calls and 2 seconds: both are reached, and five calls are one more than a burst may have |
| settings | every request of every kind; documents that deny nothing or one right, the put in a form the guard recognises and in one it does not, and one the guard mistakes for such; two values else: a stale prior differs from a fresh one |
| IAM | two policies: one the user had and one it had not; calls, undos and undos of undos without a bound; other administrators change one thing at a time |
| buckets | two uploads, ages to 2 days: one matches and one does not, and both may end before their turn |
| locks | grain 3, day 5, clock to 2, retention to 8 at the start: instants closer than a grain and further than one, some behind the clock; every bound of `RetentionGuardTight` and `DestroyableTrue` is met, with one instant less each fails; two versions: the current one and another; calls, undos and undos of undos without a bound |
| secrets | two commands, two names, two values: an update another can lose; a migration of two names dies between them; the server is asked until two commands overlap, since nothing is promised of it afterwards |
| scans | two subjects, the first anything the diagnosis tells apart, the second the worst there is; one failed probe, one change by others, a limit of 1 or 2: enough for a cut that hides a finding and a probe that hides a fault. `FewWorlds` of `MCParts` narrows the subjects, `MaxAltered` the changes |
| gauges | two sets, quorum 3, the first with no fewer drives online than the second at the start, nothing healing yet; at most one gauge hidden; one change of the deployment in one respect while it is read (`FewPlants` and `ChangesOnce` of `MCParts`) |
| CLI | one command or a doctor round over two targets: the second meets what the first left |

`BurstBounded` is tight: with one call less on its right-hand side the run fails,
because one thread can read the clock, stall while the window passes, and be
let in late. In `patterns` an hour is one tick and a day two, enough to tell the
two windows apart; three versions let a pattern be armable, revoked and armable
again; and `MCPatternMovers` has the lone thread meet edits and both threads the
longer clock, because together they would not finish. Fingerprints, and patterns
on different targets, share nothing but the totals of the budget and the loaded
files, so one of each does. The threads of the budget and of the patterns are
interchangeable, and `Alike` permutes them.

`CHECK_DEADLOCK FALSE` in the `gov_*` runs and in `parts`: when every call has
ended, both commands are over, a report is given or the budget's clock is at its
bound, nothing is left to do. The other runs keep deadlock checking on.

**Fairness.** Only `gov_ends` needs it: weak fairness of each call's own steps.
The code justifies it by its timeouts: 30 s on the HTTP pool, 5 s on every
SQLite connection, and a guard whose holder runs a bounded number of such
steps. Nothing is assumed of the client, the server, the operator or the
storage: `ReplyLost` stands for the timeout. Weak fairness suffices for the
guard because a call holds it once and calls are finite in number.

Every property of a passing run has a mutant: a variant of one definition with
a plausible bug (a dropped status check, an unlocked guard, a rotation that
ignores pending rows, ...), under which the run fails.

## Findings

Disagreements between the code and its own documentation, each with a run that
ends in the counterexample:

1. `gov_lost_response`: the exceptions `tool_errors` takes for undetermined
   outcomes are httpx's, but writes go through the minio SDK over urllib3 and
   arrive as `MinioApiError`. A lost response is audited as an error, against
   `CHANGELOG.md:200`.
2. `gov_interrupted`: Ctrl-C leaves the wrapper with the status it started with,
   "ok", against `governance/outcome.py:15`.
3. `gov_block_race`: a call that passed the check before its process was blocked
   still commits its intent and goes on, against `SECURITY.md:89`.
4. `undo_twice`: two agents can apply one token, against
   `mcp_server/tools/undo.py:122`.
5. `patterns_stale_reload`: a reload takes no lock, so that older files can be
   installed over newer ones and a rejected pattern armed, against
   `governance/patterns.py:220`. With one thread it happens only when the call's
   own check of the files fails, and then only for what was revoked since the
   last good check (`patterns`).
6. `iam_attach_undo`: the undo of an attach detaches every name the call was
   given, also those the user had before, against `mcp_server/tools/iam.py:78`.
   Where every name is new, it restores (`UndoRestoresAccount`).
7. `hold_wrong_version`: the hold is read for the current version, written for
   the given one, and undone with what was read, against
   `mcp_server/tools/objectlock.py:73`. For the current version it is right
   (`HoldRestoredOnCurrent`).

Related to the first: the pool also re-sends PUT and DELETE after a lost
response, and the refusal of the second copy is audited as the outcome of the
first. `Resends` models it; its verdict is wrong in the same way.

Where a property holds only with an exception, its comment says so, and this is
what lies behind it:

* Settings: an undo is refused after a policy that denies the tool's key
  `s3:GetBucketPolicy`, or `DeleteBucketPolicy` where there was none before: the
  guard looks for `PutBucketPolicy` only. It also goes by text
  (`bucket_writes.py:54-89`): a Deny by `NotAction`, of `s3:*Policy` or of a
  wildcard ARN passes it, and the undo is denied all the same, against the
  module's docstring (lines 10-15). Replacing or removing a policy that the guard
  does recognise leaves an undo that the guard refuses. A dry run does not validate
  arguments, and that of `clear_default_retention` does not look for the lock.
* IAM: `create_user` never calls `guard_self_target` and replaces the secret of the
  tool's own key when it is given that, although the repository's `README.md:82`
  lists it among the writes "all refused for this tool's own credential"; hence
  `OwnCredentialKept` excepts the secret. A group that could not be read makes its members look as if they had
  no policy.
* Buckets: the undo of a create goes by name, so it removes the bucket of
  someone who took the name over; the legal-hold undo without a version goes to
  whatever is current. A lost answer counts as a failed abort.
* Secrets: a server keeps the map it unlocked first, rotated and deleted secrets
  included. A torn file counts as a store without the secret, unlike a
  password that does not fit.
* Scans: exposure leaves out a bucket whose probes all failed or found nothing, without a
  word of the failures; the lifecycle
  analysis takes rules it could not read for none.
* Gauges: healing is "healthy" without the write-quorum gauge, capacity is
  "healthy" and the cluster not "degraded" without the offline ones; the
  overview says not degraded when the metrics could not be read.
* Patterns: a `stat` that fails on one file ends the check of all of them
  (`patterns.py:167-178`), and one thread is enough to arm what was revoked since
  the last good check.
* CLI: exit status 1 and an audit row "error" do not mean that nothing happened
  when the call was an undo whose inverse's row could not be resolved or whose
  token could not be marked (`mcp_server/tools/undo.py:181-185`), or a retention
  whose read-back failed (`ops/lock_writes.py:338`). An interrupted call leaves
  "ok" in its row, whatever happened. `undo list` prints an error and exits 0,
  since it does not go through `checked`, against that function's docstring
  (`cli/_common.py:110`). `undo apply` exits 0 when the inverse failed inside, a
  purge exits 0 with failures listed, and `doctor` ends in a traceback, hence with 1, when the
  master password does not fit.

## Proofs

Proved by TLAPS for every set of calls, processes, writes, agents, values,
threads, targets, pattern files, documents, policies, uploads, versions, secrets,
subjects and erasure sets, and for every limit, window, grain and bound, from
the named assumptions on the constants only:

| Module | Theorems: the inductive invariant, and what follows from it |
| --- | --- |
| `GovernedCallsProofs` | `TypeCorrect`, `Inductive` (`Spec => []IInv`); `UnresolvedStaysVisible`, `ArchivesStayResolved`, `TokensStayJustified`, `OwnersResolve`; under `AllTold` also `VerdictsStayTrue` and the refinement `Implements` |
| `UndoTokensProofs` | `UInductive`; `AppliedWasLanded`, `NoReplay`, `NewTokensRestore` |
| `BudgetProofs` | `TrackerInvariant` (`BInv`, with the call ceiling in it), `BurstInvariant`; `RefusalsJustified`, `BurstsBounded` |
| `PatternsProofs` | `LedgerInvariant`, `EngineInvariant` (`EngineInv`); `CapsHold`, `BreakersHold`, `BreakersJustified`; for one thread also `LoneThreadArmsFresh` |
| `WritesProofs` | `SettingInvariant`, `IamInvariant`, `SecretInvariant`; `SettingsRestored`, `UndosReplayable`, `AccountsRestored`, `OwnCredentialSafe`; `UpdatesKept`, `AnswersKept`, `MigrationComplete` and the refinement `StoreImplements` |
| `BucketProofs` | `LifeInvariant`, `LockInvariant`; `LocksReportedTrue`, `UndosDeleteOwn`, `PreviewsForetell`, `PurgesSpareYoung`, `GuardsTight`, `DestroyablesTrue`, `HoldsRestored` |
| `ReportsProofs` | `ScanInvariant`, `GaugeInvariant`, `CliInvariant`; `AllClearsTrue`, `FindingsAreTrue`, `VerdictsMeasured`, `ExitStatusTrusted` |
| `PartsProofs` | `PartsAsAlone`, `PartsInvariant` |

The assumptions say that limits are natural numbers and that some of them are
not zero (`RotateAt`, window lengths, thresholds, the largest limit), that
default values are not taken for data (`NoFile`, `"none"`), and these facts of
the code:

* `Thread` (of the budget) and `Upload` are finite: a process has so many
  threads, and a listing ends.
* `LockAssumption`: a grain is an odd number of instants and shorter than a day,
  so that rounding meets no ties.
* `ScanAssumption`: names are unique in a listing, which is not empty.
* Data are the representative values the modules name: retention asked for one or
  two days, a set's drives from one below the write quorum to two above,
  usage of 80, 85 and 95 percent, the judgements of `Domain` in `Scans`. A theorem
  is about every behaviour over these.

What is said of "a deployment that does not change" or "until two commands
overlap" is a premise of the property, which its comment names; nothing is
assumed to make a theorem true.

### Why each invariant is needed

**Audit.** That an unresolved write is visible does not
survive a step on its own: rotation could move the row, or a reused id could
let another call close it. The chain is: the guard admits one call at a time
(`GuardHeld`), so nothing pending is inserted between the check and the rename
(`NothingPendingAtRename`), so no pending row is ever archived
(`ArchivesResolved`), so an open intent's row never moves and its id still names
it (`IntentInPlace`), so the row `finish_write` finds pending under that id is
its own (`OneRowPerCall`, `RowMeaning`). Truth of verdicts rides on the phases
(`VerdictPhase`, `WirePhase`, `OkLanded`, `ErrorNotLive`). The step proof first
settles what a call knows of itself (`StepLocal`), then sorts all steps into
those that insert, rotate, close a row or leave the rows alone (`StepKinds`),
with one lemma per kind.

The refinement proof shows that each step is the contract's step or a stutter:
an insert is `Intend` or `TurnAway`, a close is `Close`, the server's acting is
`Land`, and rotation, crashes and everything else stutter, because the record
counts archives too.

**Undo.** `AgentPhase` ties an agent's position to its request and token, and
`PriorKnown` says what an undisturbed agent knows: before its change lands the
setting still has the value it read, afterwards that is what it replaced.

**Budget.** Stamps enter the deque out of order and only its head is ever
examined, so a deque may hold stamps that have long left the window. That no
refusal is based on them needs `Chronicle`: calls are recorded in the order of
real time, and none has a stamp later than that. So if the head is in the
window, every call behind it was recorded inside it, too (`BehindTheHead`),
and a full deque names that many calls (`StepJustified`).

`BurstBounded` counts the calls recorded within one window. It splits them by
whether their thread read the clock before the window began. Those that did are
at most one per thread, because the next call of a thread reads the clock anew:
`StalledOnce` adds up the late calls and the threads that may still make one.
The others were all in the deque when the last of them came, because only what
is older than a window is popped (`PoppedOld`); and the guard let that one in,
so they are at most the limit (`PromptBounded`).

**Patterns.** The caps are checked against a list that earlier calls have
pruned with other limits in force. `Ledger` says that pruning never drops an
arming younger than a day; hence what the check counts is exactly the window
(`ListIsWindow`), and an arming within its caps stays within them
(`ArmWithinCaps`), whatever the files say later.

For the breaker, the counter has to be what it stands for: `RowsCounted` says
that `failures` is the length of the row of failures that the outcomes end with,
also across a cooldown and a late success. A report goes by the limits of the
version that is loaded then, and an edit may have changed them since the arming.
What the engine promises through any edits is therefore stated with the highest
threshold and the shortest cooldown that the pattern has had in any version
(`Loosest`; a version without the pattern gives it the defaults): a report trips
the breaker whenever a row reaches the highest threshold, and moves `until` at
least the shortest cooldown ahead, and since no outcome on record is of a later
time (`HistoryPast`), the breaker stays open that long for every row there ever
was (`CooldownRuns`). The step is proved for every pair of limits that is at
least as loose as those of all versions (`CooldownsRun`, `ArmsWait`): a pair
that is after a step was so before it, while the loosest pair after an edit may
have belonged to no version before. While the
limits of a pattern stay as they are, the two are simply its limits.
`BreakerJustified` needs no such bound: the row reached the threshold of one
version, and `until` counts from its last failure with the cooldown of the same
version.

For a lone thread, `LoadsFresh` says that `loaded` and `mtimes` agree except
while it is between the two assignments, so that what it matched stood in the
directory at some time since `since`: during its call or, when its check of the
files failed, since the last good one. With two threads this is false, and
the run `patterns_stale_reload` shows it.

**Settings and accounts.** `PastTheGuards` keeps what the guards established
until the request is answered. `PriorIsReplaced` is `PriorKnown` again, with the
descriptor that belongs to the value; `UndoAims` carries the value over into the
undo, across the second pass through the guards. For accounts, `UndoFits` says
that the descriptor, and later the undo in flight, would turn the account as it
is into the account as it was (`Undoes`). It says so of every call, an undo too, which
is why the undo of an undo needs no argument of its own. `OnlyCreatesOwn` says that
no call on the tool's own key but a create gets beyond its guard.

**Buckets.** `MadeAsAsked` ties a bucket to the create until others remake it;
`ForecastHolds` says what a green or red preview knows, as long as nobody writes.
`PurgeAdds` is the arithmetic of the purge: aborted, failed and left add up to
what was matched, and everything left was old enough when it was listed.

**Locks.** `WhatWasReadHolds` keeps the last reading, `FirstPassTold` says what
the first pass of the guard has established when the second one reads
again, and `GuardPassed` what the request may rely on. That the guard is tight to
a grain is a matter of dividing: `_days_until` rounds to hundredths of a day, so
the lemmas about `DaysFrom` bound how far a rounded difference of two instants
is from the instants' own. For holds, `HoldsFormer` says that
every version but the one a call wrote is as it was, and `UndoCarries` that an
undo nobody disturbed meets holds that differ from the wanted ones in that
version only, and brings what the current version had.

**Secrets.** Until two commands overlap only one is under way (`Alone`), and
`InStep` says of it, phase by phase, what its map, the temporary file and the
store have to do with one another. That is what makes a death in any phase
harmless: the store is the old map until the rename, and the new one after it.
`CacheFromStore` ties the server's cached map to a map the store held. The
refinement rests on the same two: a lone command's map is the store's with one of
its names changed (`InStep`), so the rename is one change of the abstract store
(`RenameIsChange`), and the cache decides alike on both sides (`ResolveIsAnswer`).

**The parts together.** `PartsAsAlone` shows that `MCSpec`, the composition the run
explores, implies the specification of each part, so every theorem about a part
holds there, `PartsInv` among them; and nothing the run finds is owed to the
composition.

**Scans.** `AnswersTrue` says that an answer about a subject nobody changed is
so, and `ReadInOrder` that probes are made in order and only needless ones are passed
over; so when nothing is left to do, every fact a rule needs was read or its
probe failed. What a rule finds in the answers is then what it finds in the
world, or a probe failed by which it could be told (`Unseen`). The cut adds a
count: a row that is not shown has at least as many rows before it as the limit,
so that the shown ones rank no lower.

**Gauges.** `ReadAtOnce` says that what was merged is the text of one moment,
because the second scrape of a series is dropped; `ProbedHealth` says the same
of the third probe.

**Command line.** `NothingYet` says that before the governed call there is no
effect, no row and no skipped confirmation; `ReturnedTrue` settles, when the
call returns, the exit status that is due, with the results that say less than
what happened named one by one (`Trusted`). `ProblemsCounted` bounds the problems
of `doctor` by the probes it has made.

### What is only model-checked

* `EveryCallEnds`: liveness under fairness, like ENABLED, is out of the prover's
  reach.
* That the documented statements listed under Findings fail: a counterexample
  needs no proof.
* That both threads of `patterns` arm nothing revoked while nobody edits the
  files: `LoneThreadArmsFresh` is about one thread and any edits.

No module uses a RECURSIVE operator, so nothing is kept from the prover on that
account.

### What the proofs changed in the models

A proof that failed for a good reason led to these changes: overlapping guards of
CASE expressions were made disjoint, since TLA+ leaves open which arm is taken;
the sort of `Scans` is the stable one of the code rather than any order by
score; `RetentionGuardTight` was tightened to the bound that the rounding
really has; and bounds that the theorems must not depend on (the number of
changes by others, the worlds of `Scans`, the hidden gauges) moved from the
modules to their constants and to `MCParts`.

## Abstractions

* An archive is never lost: `_cleanup_archives` keeps five, and two rotations in
  one second would share a name. Neither touches unresolved intents, by
  `ArchivesResolved`.
* The guard is the POSIX one. Without `fcntl` it serializes threads only; the
  mutant `AcquireUnlocked` shows what then breaks.
* An operator reconciles a row only when no process executes its call, as
  `SECURITY.md` demands and `reconcile_pending` cannot check.
* A version of the patterns directory is read as a whole: a file that `_load`
  alone cannot read for a moment, and so skips, is a version without that file.
* A Ctrl-C is modelled while the tool body runs, not inside the bookkeeping.
* MinIO, urllib3, the file system and the kernel are modelled from how the code
  uses them and marked external in the map.

## Not modelled

* Policy labels, `sanitize`, `paths`: pure text without state.
* MCP registration and start-up, argument parsing, tables and wording.
* `config.yaml` parsing and the warnings about file permissions.
* The per-target client cache of `connection.py`: two threads that miss it at once
  only build a client twice, and a client outlives a rotated secret just as the
  map cached by the server in `SecretFile` does.
* Plain listings, `usage_by_bucket`, `drive_status`, `node_status`, `undo_list`,
  the snapshot and statistics calls: they read and format.
* `_origin_target`, which picks the target an undo goes to: every model has one
  target.
* `reset_state` and the other resets only tests call.

## Plan

Done: every module above, and a theorem for every safety property that a passing
run checks. Left, most important first:

1. `SettingWrites`, `IamUsers`, `BucketLife` and `ObjectLocks` as instances of the
   read-prior, send, return-inverse shape of `UndoTokens`, by refinement.
2. The budget under a wall clock that is set back (`budget.py:117`), where its
   refusals need not be justified any more.
