------------------------------ MODULE OnceOnly ------------------------------
(***************************************************************************)
(* What a client who repeats a call under one Idempotency-Key may rely on: *)
(* the endpoint runs for one call at a time; once the changes of a call    *)
(* stand, no other call changes anything until the key is given up, which  *)
(* happens only after that call was answered; a call that was turned away  *)
(* never changes anything; a replay is the answer of a call that ran.      *)
(* There is no record here, and nothing a call could look at too early.    *)
(***************************************************************************)
CONSTANTS Call, NoCall, Fingerprint

VARIABLES
  running,  \* the calls the endpoint runs for
  holder,   \* the call whose changes hold the key, or NoCall
  changed,  \* the calls whose changes stand
  told,     \* what each client was told
  source    \* the call a refusal or a replay speaks of

vars == <<running, holder, changed, told, source>>

Init ==
  /\ running = {} /\ holder = NoCall /\ changed = {}
  /\ told = [c \in Call |-> "none"]
  /\ source = [c \in Call |-> NoCall]

Waiting(c) == told[c] = "none" /\ c \notin running /\ c \notin changed

Start(c) ==
  /\ Waiting(c) /\ running = {} /\ holder = NoCall
  /\ running' = {c}
  /\ UNCHANGED <<holder, changed, told, source>>

Change(c) ==
  /\ running = {c} /\ holder = NoCall /\ c \notin changed
  /\ changed' = changed \cup {c} /\ holder' = c
  /\ UNCHANGED <<running, told, source>>

Tell(c, a) == told[c] = "none" /\ told' = [told EXCEPT ![c] = a]

Answer(c) ==
  /\ running = {c} /\ Tell(c, "own") /\ running' = {}
  /\ UNCHANGED <<holder, changed, source>>

\* An error tells nothing about the changes, and may give up the key at once.
Error(c) ==
  /\ Tell(c, "error") /\ running' = running \ {c}
  /\ holder' \in {holder, IF holder = c THEN NoCall ELSE holder}
  /\ UNCHANGED <<changed, source>>

\* Another call has the key; or it is used for something else, or it has just become free.
TurnAway(c, a, b) ==
  /\ Waiting(c) /\ Tell(c, a) /\ source' = [source EXCEPT ![c] = b]
  /\ UNCHANGED <<running, holder, changed>>

InProgress(c, b) == b # c /\ Fingerprint[b] = Fingerprint[c] /\ TurnAway(c, "in progress", b)
Mismatch(c, b) == Fingerprint[b] # Fingerprint[c] /\ TurnAway(c, "mismatch", b)
Missed(c) == TurnAway(c, "mismatch", NoCall)

Replay(c, b) ==
  /\ Waiting(c) /\ told[b] = "own" /\ Fingerprint[b] = Fingerprint[c]
  /\ Tell(c, "replay") /\ source' = [source EXCEPT ![c] = b]
  /\ UNCHANGED <<running, holder, changed>>

GiveUp ==
  /\ holder # NoCall /\ told[holder] # "none"
  /\ holder' = NoCall
  /\ UNCHANGED <<running, changed, told, source>>

Next ==
  \/ GiveUp
  \/ \E c \in Call : Start(c) \/ Change(c) \/ Answer(c) \/ Error(c) \/ Missed(c)
  \/ \E b, c \in Call : InProgress(c, b) \/ Mismatch(c, b) \/ Replay(c, b)

Spec == Init /\ [][Next]_vars
=============================================================================
