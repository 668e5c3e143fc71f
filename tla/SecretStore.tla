----------------------------- MODULE SecretStore -----------------------------
(***************************************************************************)
(* What the credential store promises, independently of how its file is    *)
(* rewritten: a map under one password that changes in one piece, a secret  *)
(* or the password at a time, whichever process dies where; a plaintext     *)
(* that goes last; and a server that keeps to the map it unlocked first and *)
(* takes no wrong password for a missing secret.  The promise ends when two *)
(* commands overlap.  SecretFile implements this.                           *)
(***************************************************************************)
CONSTANTS SecretName,  \* the targets secrets are stored for
          Legacy,      \* those with a key in the plaintext .env
          SecretValue, \* values, the one of the .env among them
          LegacyValue

VARIABLES store,      \* the password and the secrets, or no store yet
          env,        \* the .env: present, or put aside
          view,       \* the store as the server unlocked it, or none yet
          answer,     \* the server's last answer for a secret
          overlapped  \* two commands were under way at once

vars == <<store, env, view, answer, overlapped>>

Sealed(pw, data) == [state |-> "whole", pw |-> pw, data |-> data]
None == [state |-> "missing", pw |-> "none", data |-> [n \in SecretName |-> "none"]]

Init ==
  /\ store \in {None, Sealed("old", None.data)}
  /\ env = "present"
  /\ view = None
  /\ answer = [source |-> "nothing", value |-> "none"]
  /\ overlapped = FALSE

\* A secret is set or imported, or deleted if v is "none"; the first command
\* chooses the password.
Put(n, v) ==
  /\ \E pw \in {"old", "new"} :
       /\ store.state = "whole" => pw = store.pw
       /\ store' = Sealed(pw, [store.data EXCEPT ![n] = v])
  /\ UNCHANGED <<env, view, answer, overlapped>>

\* The same secrets, under the new password.
Rotate ==
  /\ store' = Sealed("new", store.data)
  /\ UNCHANGED <<env, view, answer, overlapped>>

\* The plaintext is put aside once the store has all of it.
PutAside ==
  /\ \A n \in Legacy : store.data[n] = LegacyValue
  /\ env' = "migrated"
  /\ UNCHANGED <<store, view, answer, overlapped>>

\* The server looks a secret up.  It goes by what it unlocked first; a store
\* that its password does not fit it refuses, and only for a secret that is
\* not in the store may it turn to the environment.
Answer(n) ==
  LET locked  == view = None /\ store.pw = "new"
      current == IF view = None THEN store ELSE view IN
  /\ view' = IF locked THEN view ELSE current
  /\ answer' \in
       IF locked THEN {[source |-> "refused", value |-> "none"]}
       ELSE IF current.data[n] # "none"
       THEN {[source |-> "store", value |-> current.data[n]]}
       ELSE {[source |-> "nothing", value |-> "none"],
             [source |-> "environment", value |-> "legacy"]}
  /\ UNCHANGED <<store, env, overlapped>>

\* Nothing is promised any more.
Overlap == overlapped'

Next ==
  \/ \E n \in SecretName :
       \/ \E v \in SecretValue \cup {"none"} : Put(n, v)
       \/ Answer(n)
  \/ Rotate
  \/ PutAside
  \/ Overlap

Spec == Init /\ [][Next]_vars
=============================================================================
