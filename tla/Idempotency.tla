----------------------------- MODULE Idempotency -----------------------------
(***************************************************************************)
(* Calls that carry one Idempotency-Key of one actor                       *)
(* (core/idempotency.py).  The record of the key lives in Redis, outside   *)
(* the transactions of the endpoint; every access to it is a step of its   *)
(* own, and so is the answer to the client, which leaves before the record *)
(* is completed.                                                           *)
(***************************************************************************)
EXTENDS Integers, FiniteSets

CONSTANTS
  Call,       \* requests of the client, retries included
  NoCall,     \* nobody
  Fingerprint, \* fingerprint (method, path and body) of each call
  LateErrors, \* an endpoint may fail, or answer too long a body, after its commit
  MaxFaults,  \* bound: failing accesses to Redis and lost processes
  MaxExpired  \* bound: ends of the 24 hours

ASSUME CallAssumption == IsFiniteSet(Call) /\ NoCall \notin Call /\ Fingerprint \in [Call -> Nat]
ASSUME FaultAssumption == LateErrors \in BOOLEAN /\ MaxFaults \in Nat /\ MaxExpired \in Nat

VARIABLES
  record,   \* the record of the key, or NoRecord
  step,     \* where each call is
  outcome,  \* what the endpoint did for it
  answer,   \* what the client got
  effects,  \* the calls whose changes were committed
  faults, expired,
  repeats,  \* releases of the record by a call whose changes stay
  blamed    \* the call whose record a call was refused for

vars == <<record, step, outcome, answer, effects, faults, expired, repeats, blamed>>

NoRecord == [state |-> "none", print |-> 0, owner |-> NoCall]
OtherRecord(state, c) == [state |-> state, print |-> Fingerprint[c] + 100, owner |-> c] \* mutant
Record(state, c) == [state |-> state, print |-> Fingerprint[c], owner |-> c]

Step == {"new", "load", "retake", "reload", "running", "answered", "over"}
\* done: committed; refused: an error below 500, nothing changed; failed: a 5xx
\* answer or an exception, nothing changed; late: one of them after the commit.
Outcome == {"none", "done", "refused", "failed", "raised", "late", "late raised"}
Answer == {"none", "own", "error", "replay", "in progress", "mismatch"}

Init ==
  /\ record = NoRecord
  /\ step = [c \in Call |-> "new"]
  /\ outcome = [c \in Call |-> "none"]
  /\ answer = [c \in Call |-> "none"]
  /\ effects = {} /\ faults = 0 /\ expired = 0 /\ repeats = 0
  /\ blamed = [c \in Call |-> NoCall]

TypeOK ==
  /\ record \in [state: {"none", "in_progress", "done"}, print: {0} \cup {Fingerprint[c] : c \in Call},
                 owner: Call \cup {NoCall}]
  /\ step \in [Call -> Step] /\ outcome \in [Call -> Outcome] /\ answer \in [Call -> Answer]
  /\ effects \subseteq Call
  /\ faults \in 0..MaxFaults /\ expired \in 0..MaxExpired /\ repeats \in Nat
  /\ blamed \in [Call -> Call \cup {NoCall}]

Goto(c, s) == step' = [step EXCEPT ![c] = s]
Reply(c, a) == answer' = [answer EXCEPT ![c] = a]
\* What a call leaves alone while it tries to take the record.
Unstarted == <<outcome, effects, faults, expired, repeats>>

-----------------------------------------------------------------------------
(* Taking the record.                                                      *)

TakeUnfinished(c, s) ==                                        \* mutant
  IF record.state # "done"
  THEN record' = Record("in_progress", c) /\ Goto(c, "running")
  ELSE UNCHANGED record /\ Goto(c, s)
TakeAlways(c, s) ==                                            \* mutant
  record' = Record("in_progress", c) /\ Goto(c, "running")

\* SET NX: take the record when there is none.
TakeOr(c, s) ==
  IF record = NoRecord
  THEN record' = Record("in_progress", c) /\ Goto(c, "running")
  ELSE UNCHANGED record /\ Goto(c, s)

send(c) ==
  /\ step[c] = "new"
  /\ TakeOr(c, "load")
  /\ UNCHANGED <<answer, blamed, Unstarted>>

\* The answer to a call that did not get the record.
replay_or_conflict(c, existing) ==
  /\ Reply(c, IF existing = NoRecord \/ existing.print # Fingerprint[c] THEN "mismatch"
              ELSE IF existing.state = "in_progress" THEN "in progress" ELSE "replay")
  /\ blamed' = [blamed EXCEPT ![c] = existing.owner]
  /\ Goto(c, "over")

\* GET: a record that is gone was released meanwhile, and the call tries again.
load(c) ==
  /\ step[c] = "load"
  /\ \/ /\ record = NoRecord
        /\ Goto(c, "retake")
        /\ UNCHANGED <<answer, blamed>>
     \/ /\ record # NoRecord
        /\ replay_or_conflict(c, record)
  /\ UNCHANGED <<record, Unstarted>>

retake(c) ==
  /\ step[c] = "retake"
  /\ TakeOr(c, "reload")
  /\ UNCHANGED <<answer, blamed, Unstarted>>

reload(c) ==
  /\ step[c] = "reload"
  /\ replay_or_conflict(c, record)
  /\ UNCHANGED <<record, Unstarted>>

-----------------------------------------------------------------------------
(* The call that holds the record.                                         *)

Possible == {"done", "refused", "failed", "raised"} \cup
            IF LateErrors THEN {"late", "late raised"} ELSE {}
Commits == {"done", "late", "late raised"}
Raises == {"raised", "late raised"}

\* The endpoint runs in its own transaction.
execute(c) ==
  /\ step[c] = "running" /\ outcome[c] = "none"
  /\ \E o \in Possible :
       /\ outcome' = [outcome EXCEPT ![c] = o]
       /\ effects' = IF o \in Commits THEN effects \cup {c} ELSE effects
  /\ UNCHANGED <<record, step, answer, faults, expired, repeats, blamed>>

\* The answer is passed on as the endpoint sends it.
respond(c) ==
  /\ step[c] = "running" /\ outcome[c] \notin Raises \cup {"none"}
  /\ Reply(c, IF outcome[c] = "failed" THEN "error" ELSE "own")
  /\ Goto(c, "answered")
  /\ UNCHANGED <<record, outcome, effects, faults, expired, repeats, blamed>>

ReleasesNever(o) == FALSE                                      \* mutant
Releases(o) == o \in {"failed", "late"} \cup Raises

Release(c) ==
  /\ record' = NoRecord
  /\ repeats' = IF outcome[c] \in Commits THEN repeats + 1 ELSE repeats

\* After the answer: store it, or release the record.
store(c) ==
  /\ step[c] = "answered"
  /\ \/ Releases(outcome[c]) /\ Release(c)
     \/ ~Releases(outcome[c]) /\ record' = Record("done", c) /\ UNCHANGED repeats
  /\ Goto(c, "over")
  /\ UNCHANGED <<outcome, answer, effects, faults, expired, blamed>>

\* An exception passes through the middleware before it becomes an answer.
abort(c) ==
  /\ step[c] = "running" /\ outcome[c] \in Raises
  /\ Release(c)
  /\ Reply(c, "error") /\ Goto(c, "over")
  /\ UNCHANGED <<outcome, effects, faults, expired, blamed>>

-----------------------------------------------------------------------------
(* Faults.                                                                 *)

\* Redis does not answer.  Before the endpoint ran this is an error; afterwards
\* it is logged and the record stays as it is.  A process that is lost leaves the
\* same behind, with or without the changes of its endpoint.
fault(c) ==
  /\ step[c] \notin {"over"} /\ faults < MaxFaults
  /\ faults' = faults + 1
  /\ Goto(c, "over")
  /\ Reply(c, IF answer[c] = "none" THEN "error" ELSE answer[c])
  /\ UNCHANGED <<record, outcome, effects, expired, repeats, blamed>>

\* The 24 hours end; no call lasts that long.
expire ==
  /\ record # NoRecord /\ step[record.owner] = "over" /\ expired < MaxExpired
  /\ record' = NoRecord
  /\ expired' = expired + 1
  /\ UNCHANGED <<step, outcome, answer, effects, faults, repeats, blamed>>

Next ==
  \/ expire
  \/ \E c \in Call : \/ send(c) \/ load(c) \/ retake(c) \/ reload(c)
                     \/ execute(c) \/ respond(c) \/ store(c) \/ abort(c) \/ fault(c)

Spec == Init /\ [][Next]_vars

-----------------------------------------------------------------------------
(* Properties.                                                             *)

(***************************************************************************)
(* The changes behind one key are made once.  A second time needs the end  *)
(* of the 24 hours, or a call that failed after its commit.                *)
(***************************************************************************)
MadeOnce == Cardinality(effects) <= 1 + expired + repeats

(***************************************************************************)
(* Two calls never run the endpoint at the same time, whichever of the two *)
(* ways each took the record.                                              *)
(***************************************************************************)
OneRuns ==
  \A b, c \in Call : b # c /\ step[b] = "running" => step[c] # "running"

(***************************************************************************)
(* A replayed answer is the answer a call with the same fingerprint gave   *)
(* its client, and never that of a call whose changes were rolled back by  *)
(* a 5xx.                                                                  *)
(***************************************************************************)
ReplayIsTrue ==
  \A c \in Call : answer[c] = "replay" =>
    LET b == blamed[c]
    IN  b # NoCall /\ Fingerprint[b] = Fingerprint[c] /\ answer[b] = "own" /\ outcome[b] \in {"done", "refused"}

(***************************************************************************)
(* The five accesses to the record and the two ends of the endpoint add up *)
(* to module OnceOnly: the record that a call owns whose changes stand     *)
(* holds the key, and no look at it is outdated when it is used.           *)
(***************************************************************************)
Holder == IF record.owner \in effects THEN record.owner ELSE NoCall

Once == INSTANCE OnceOnly WITH
          running <- {c \in Call : step[c] = "running"}, holder <- Holder,
          changed <- effects, told <- answer, source <- blamed

KeepsPromise == Once!Spec
=============================================================================
