----------------------------- MODULE SecretFile -----------------------------
(* The encrypted credential store: one file that every command reads as a    *)
(* whole, rewrites through one temporary file and renames into place.  The   *)
(* commands are processes that may die at any step; a server keeps the map   *)
(* it unlocked first, and falls back on a legacy environment variable.       *)
EXTENDS Naturals, FiniteSets

CONSTANTS Writer,      \* command processes: each runs one command
          SecretName,  \* the targets secrets are stored for
          Legacy,      \* those with a key in the plaintext .env
          SecretValue, \* values, the one of the .env among them
          LegacyValue

ASSUME SecretAssumption ==
  Legacy \subseteq SecretName /\ LegacyValue \in SecretValue /\ "none" \notin SecretValue

VARIABLES file,        \* secrets.enc
          tmp,         \* secrets.enc.tmp
          env,         \* the .env: present, or renamed to .env.migrated
          writer,      \* the commands
          cached,      \* the map the server keeps once it unlocked the store
          served,      \* the server's last answer for a secret
          ledger,      \* history: the store as the completed renames leave it
          seen,        \* history: the ledger when the server unlocked
          overlapped   \* history: a command began while another was under way

secretVars == <<file, tmp, env, writer, cached, served, ledger, seen, overlapped>>

Passwords == {"old", "new"}
NoSecrets == [n \in SecretName |-> "none"]
Blob(pw, data) == [state |-> "whole", pw |-> pw, data |-> data]
Missing == [state |-> "missing", pw |-> "none", data |-> NoSecrets]
\* Truncated, or one blob over the rest of another.
Torn == [state |-> "torn", pw |-> "none", data |-> NoSecrets]

Commands ==
  [kind : {"set"}, name : SecretName, value : SecretValue]
  \cup [kind : {"delete"}, name : SecretName, value : {"none"}]
  \cup [kind : {"rotate", "migrate"}, name : {"none"}, value : {"none"}]

Idle == [phase |-> "idle", cmd |-> [kind |-> "none", name |-> "none", value |-> "none"],
         pw |-> "none", data |-> NoSecrets, todo |-> {}, fd |-> "none"]
Done == [Idle EXCEPT !.phase = "done"]

SecretInit ==
  /\ file \in {Missing, Blob("old", NoSecrets)}
  /\ tmp = Missing
  /\ env = "present"
  /\ writer = [w \in Writer |-> Idle]
  /\ cached = NoSecrets
  /\ served = [source |-> "nothing", value |-> "none", had |-> "none"]
  /\ ledger = file
  /\ seen = Missing
  /\ overlapped = FALSE

------------------------------------------------------------------------------
Busy(w) == writer[w].phase \notin {"idle", "done"}

\* SecretStore.unlock: a missing file is an empty store under any password.
Unlocks(pw) == file.state = "missing" \/ (file.state = "whole" /\ file.pw = pw)

\* What a command has to write, one rewrite of the file for each.
Names(cmd) ==
  CASE cmd.kind = "migrate" -> Legacy
    [] cmd.kind = "rotate"  -> {"password"}
    [] OTHER                -> {cmd.name}

\* A command starts and unlocks the store, or fails to; one that has nothing to
\* do ends there.
Begin(w, cmd, pw) ==
  /\ writer[w].phase = "idle"
  /\ overlapped' = (overlapped \/ \E v \in Writer : Busy(v))
  /\ writer' =
       [writer EXCEPT ![w] =
          IF \/ ~Unlocks(pw)
             \/ cmd.kind = "delete" /\ file.data[cmd.name] = "none"
             \/ cmd.kind = "migrate" /\ (env # "present" \/ Legacy = {})
          THEN Done
          ELSE [Idle EXCEPT !.phase = "unlocked", !.cmd = cmd, !.pw = pw, !.data = file.data,
                  !.todo = Names(cmd)]]
  /\ UNCHANGED <<file, tmp, env, cached, served, ledger, seen>>

\* The change a command makes to a map, for one of its names.
Changed(cmd, data, n) ==
  CASE cmd.kind = "rotate"  -> data
    [] cmd.kind = "migrate" -> [data EXCEPT ![n] = LegacyValue]
    [] OTHER                -> [data EXCEPT ![n] = cmd.value]

PwAfter(w) == IF writer[w].cmd.kind = "rotate" THEN "new" ELSE writer[w].pw

\* Rewrites the store in place.
OpenInPlace(w) ==
  /\ writer[w].phase = "unlocked"
  /\ writer[w].todo # {}
  /\ file' = Torn
  /\ writer' = [writer EXCEPT ![w].phase = "opened", ![w].fd = "file"]
  /\ UNCHANGED <<tmp, env, cached, served, ledger, seen, overlapped>>

\* _persist, in three steps.  The temporary file is opened, and truncated ...
Open(w) ==
  /\ writer[w].phase = "unlocked"
  /\ writer[w].todo # {}
  /\ tmp' = Torn
  /\ writer' = [writer EXCEPT ![w].phase = "opened", ![w].fd = "tmp"]
  /\ UNCHANGED <<file, env, cached, served, ledger, seen, overlapped>>

\* ... written, wherever a rename may have put it meanwhile, and over whatever
\* another process that holds it open has written ...
Write(w) ==
  LET me == writer[w]
      n  == CHOOSE x \in me.todo : TRUE
      blob == Blob(PwAfter(w), Changed(me.cmd, me.data, n))
      over(f) == IF f.state = "whole" THEN {blob, Torn} ELSE {blob} IN
  /\ me.phase = "opened"
  /\ tmp'  \in IF me.fd = "tmp"  THEN over(tmp)  ELSE {tmp}
  /\ file' \in IF me.fd = "file" THEN over(file) ELSE {file}
  /\ writer' = [writer EXCEPT ![w].phase = "written", ![w].data = blob.data]
  /\ UNCHANGED <<env, cached, served, ledger, seen, overlapped>>

\* ... and renamed, with whatever is in it by now.  Without one the rename
\* raises, and the command with it.
Rename(w) ==
  LET me == writer[w]
      n  == CHOOSE x \in me.todo : TRUE
      on(v) == CASE v = w -> IF me.cmd.kind = "migrate"
                             THEN [me EXCEPT !.phase = "unlocked", !.todo = @ \ {n}, !.fd = "none"]
                             ELSE Done
                 [] v # w /\ writer[v].fd = "tmp"  -> [writer[v] EXCEPT !.fd = "file"]
                 [] v # w /\ writer[v].fd = "file" -> [writer[v] EXCEPT !.fd = "unlinked"]
                 [] OTHER -> writer[v] IN
  /\ me.phase = "written"
  /\ IF tmp.state = "missing"
     THEN /\ writer' = [writer EXCEPT ![w] = Done]
          /\ UNCHANGED <<file, tmp, ledger>>
     ELSE /\ file' = tmp
          /\ tmp' = Missing
          /\ ledger' = Blob(PwAfter(w), Changed(me.cmd, ledger.data, n))
          /\ writer' = [v \in Writer |-> on(v)]
  /\ UNCHANGED <<env, cached, served, seen, overlapped>>

\* The .env goes first.
MigrateEagerly(w) ==
  /\ writer[w].phase = "unlocked" /\ writer[w].cmd.kind = "migrate"
  /\ env = "present"
  /\ env' = "migrated"
  /\ UNCHANGED <<file, tmp, writer, cached, served, ledger, seen, overlapped>>

\* migrate_legacy_env, after the last import: the plaintext is put aside.
PutAside(w) ==
  /\ writer[w].phase = "unlocked" /\ writer[w].cmd.kind = "migrate"
  /\ writer[w].todo = {}
  /\ env' = "migrated"
  /\ writer' = [writer EXCEPT ![w] = Done]
  /\ UNCHANGED <<file, tmp, cached, served, ledger, seen, overlapped>>

\* The process dies.
Die(w) ==
  /\ Busy(w)
  /\ writer' = [writer EXCEPT ![w] = Done]
  /\ UNCHANGED <<file, tmp, env, cached, served, ledger, seen, overlapped>>

------------------------------------------------------------------------------
\* The server, started with the old password.

Held == seen.state # "missing"

\* open_store: the cache, or the store if it unlocks.
Readable == Held \/ Unlocks("old")
MapNow == IF Held THEN cached ELSE file.data

\* Takes a wrong password for a store without the secret.
AnswersAny(n, legacy) ==
  IF file.state # "missing" /\ Readable /\ MapNow[n] # "none"
    THEN [source |-> "store", value |-> MapNow[n]]
  ELSE IF legacy THEN [source |-> "environment", value |-> "legacy"]
  ELSE [source |-> "nothing", value |-> "none"]

\* _resolve_secret: a store that is torn counts as one without the secret, a
\* password that does not fit does not.
Answers(n, legacy) ==
  IF file.state # "missing" /\ Readable /\ MapNow[n] # "none"
    THEN [source |-> "store", value |-> MapNow[n]]
  ELSE IF file.state = "whole" /\ ~Readable
    THEN [source |-> "refused", value |-> "none"]
  ELSE IF legacy THEN [source |-> "environment", value |-> "legacy"]
  ELSE [source |-> "nothing", value |-> "none"]

Resolve(n, legacy) ==
  LET unlocks == file.state # "missing" /\ ~Held /\ Readable
      answer == Answers(n, legacy) IN
  /\ served' = [source |-> answer.source, value |-> answer.value,
                had |-> IF Held THEN seen.data[n] ELSE ledger.data[n]]
  /\ cached' = IF unlocks THEN file.data ELSE cached
  /\ seen' = IF unlocks THEN ledger ELSE seen
  /\ UNCHANGED <<file, tmp, env, writer, ledger, overlapped>>

SecretNext ==
  \/ \E w \in Writer :
       \/ \E cmd \in Commands, pw \in Passwords : Begin(w, cmd, pw)
       \/ Open(w)
       \/ Write(w)
       \/ Rename(w)
       \/ PutAside(w)
       \/ Die(w)
  \/ \E n \in SecretName, legacy \in BOOLEAN : Resolve(n, legacy)

SecretSpec == SecretInit /\ [][SecretNext]_secretVars

------------------------------------------------------------------------------
Maps == [SecretName -> SecretValue \cup {"none"}]
Blobs == {Missing, Torn} \cup [state : {"whole"}, pw : Passwords, data : Maps]
UnderWay == [phase : {"unlocked", "opened", "written"}, cmd : Commands, pw : Passwords,
             data : Maps, todo : SUBSET (SecretName \cup {"password"}),
             fd : {"none", "tmp", "file", "unlinked"}]

\* Types: a command holds its map and an open file only while it is under way.
SecretTypeOK ==
  /\ file \in Blobs /\ tmp \in Blobs /\ ledger \in Blobs /\ seen \in Blobs
  /\ cached \in Maps
  /\ env \in {"present", "migrated"}
  /\ overlapped \in BOOLEAN
  /\ writer \in [Writer -> UnderWay \cup {Idle, Done}]

\* Unless two commands overlap, a process that dies at any step leaves the store
\* whole, with every update that was renamed into it and nothing else.
StoreKeepsUpdates == ~overlapped => file = ledger

\* The plaintext .env is put aside only when the store holds all its secrets,
\* however often a migration died on the way, unless commands overlap.
PutAsideComplete ==
  env' # env /\ ~overlapped => \A n \in Legacy : file.data[n] = LegacyValue

MigratedBeforePutAside == [][PutAsideComplete]_secretVars

\* The server answers with what the store held when it unlocked it, and turns to
\* the environment only for a secret that was not there: a password that does
\* not fit never looks like a missing secret.
AnswersFromStore ==
  ~overlapped =>
    /\ served.source = "store" => served.value = served.had
    /\ served.source = "environment" => served.had = "none"
------------------------------------------------------------------------------
\* The inductive invariant: until two commands overlap ...

\* ... only one command is under way ...
Alone == \A v, w \in Writer : Busy(v) /\ Busy(w) => v = w

\* ... what it holds in memory and in the temporary file is the store with its
\* change, under the password it unlocked the store with, and the store has all
\* names it is done with ...
InStep(w) ==
  LET me == writer[w]
      n  == CHOOSE x \in me.todo : TRUE IN
  /\ me.phase # "unlocked" => me.fd = "tmp" /\ me.todo # {}
  /\ me.phase = "opened" => tmp = Torn
  /\ me.phase = "written" => tmp = Blob(PwAfter(w), Changed(me.cmd, file.data, n))
  /\ me.data = IF me.phase = "written" THEN tmp.data ELSE file.data
  /\ file.state = "whole" => me.pw = file.pw
  /\ me.todo \subseteq Names(me.cmd)
  /\ me.cmd.kind = "migrate" => \A m \in Legacy \ me.todo : file.data[m] = LegacyValue

\* ... and the server's map is one the store held.
CacheFromStore == Held => cached = seen.data

SecretInv ==
  /\ SecretTypeOK
  /\ Held => file.state # "missing"
  /\ ~overlapped =>
       /\ Alone
       /\ StoreKeepsUpdates
       /\ file.state # "torn"
       /\ \A w \in Writer : Busy(w) => InStep(w)
       /\ CacheFromStore
       /\ AnswersFromStore

------------------------------------------------------------------------------
\* The file on disk is the store: until two commands overlap, the three steps of
\* _persist, deaths between them and the unlocking and caching of the server
\* look like the promised operations, one at a time.
Atomic == INSTANCE SecretStore
          WITH store <- file, view <- seen,
               answer <- [source |-> served.source, value |-> served.value]

StoreIsAtomic == Atomic!Spec
=============================================================================
