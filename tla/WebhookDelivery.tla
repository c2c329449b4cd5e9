--------------------------- MODULE WebhookDelivery ---------------------------
(***************************************************************************)
(* The deliveries of one outgoing webhook subscription (core/webhooks.py,  *)
(* core/webhook_tasks.py).  Workers of the minute job claim a due delivery *)
(* in one transaction, call the receiver without one, and write the        *)
(* outcome in another.  People redeliver, switch and delete the            *)
(* subscription meanwhile, and a worker may be lost at any moment.         *)
(*                                                                         *)
(* A transaction that reads the subscription and writes it back is two     *)
(* steps (the subscription is read without a lock), with the lock of the   *)
(* delivery held in between.  A moment in time is reduced to whether it    *)
(* has come: "due" says next_attempt_at <= now.                            *)
(***************************************************************************)
EXTENDS Integers, FiniteSets

CONSTANTS
  Delivery,          \* the events that match the subscription
  Worker,            \* concurrent runs of the minute job
  Retries,           \* len(RETRY_SCHEDULE_SECONDS)
  AutoDisableAfter,  \* tenant switch webhook_auto_disable_after, 0: not set
  SlowWorkers,       \* a call may outlast its lease
  MaxRedeliveries,   \* bound: redeliveries of one delivery
  MaxLost,           \* bound: lost workers
  MaxSwitches        \* bound: changes of "active" by a person

ASSUME RetriesAssumption == Retries \in Nat
ASSUME AutoDisableAssumption == AutoDisableAfter \in Nat
ASSUME SlowAssumption == SlowWorkers \in BOOLEAN
ASSUME BoundsAssumption ==
  /\ MaxRedeliveries \in Nat /\ MaxLost \in Nat /\ MaxSwitches \in Nat

VARIABLES
  row,          \* WebhookDelivery, by event
  hook,         \* WebhookSubscription: exists, active, consecutive_failures
  worker,       \* where each run is and what it holds in memory
  redelivered,  \* redeliveries asked for so far, by delivery
  lost,         \* workers lost so far
  switched      \* changes of "active" so far

vars == <<row, hook, worker, redelivered, lost, switched>>

Status == {"absent", "pending", "succeeded", "failed"}
LastError == {"none", "sending", "error", "outcome unknown", "subscription inactive"}
Row == [status: Status, attempts: Nat, due: BOOLEAN, error: LastError]
Hook == [exists: BOOLEAN, active: BOOLEAN, failures: Nat]

\* What a run holds in memory: the delivery claimed (ClaimedDelivery), the answer
\* (DeliveryOutcome), and the subscription as its open transaction read it.
Busy == [step: {"claiming", "sending", "answered", "closing"},
         delivery: Delivery, attempt: Nat, ok: BOOLEAN, seen: Hook]
At(step, d, attempt, ok, seen) ==
  [step |-> step, delivery |-> d, attempt |-> attempt, ok |-> ok, seen |-> seen]
Idle == [step |-> "idle"]

MinusOne == [status |-> "absent", attempts |-> -1, due |-> FALSE, error |-> "none"] \* mutant
NoDelivery == [status |-> "absent", attempts |-> 0, due |-> FALSE, error |-> "none"]
NewHook == [exists |-> TRUE, active |-> TRUE, failures |-> 0]

Init ==
  /\ row = [d \in Delivery |-> NoDelivery]
  /\ hook = NewHook
  /\ worker = [w \in Worker |-> Idle]
  /\ redelivered = [d \in Delivery |-> 0]
  /\ lost = 0 /\ switched = 0

TypeOK ==
  /\ row \in [Delivery -> Row]
  /\ hook \in Hook
  /\ worker \in [Worker -> Busy \cup {Idle}]
  /\ redelivered \in [Delivery -> 0..MaxRedeliveries]
  /\ lost \in 0..MaxLost /\ switched \in 0..MaxSwitches

\* The row lock of a transaction of the job.
NeverLocked(d) == FALSE                                       \* mutant
Locked(d) ==
  \E w \in Worker : worker[w].step \in {"claiming", "closing"} /\ worker[w].delivery = d
InFlight(w, d) == worker[w].step \in {"sending", "answered"} /\ worker[w].delivery = d

-----------------------------------------------------------------------------
(* The subscription's people and time.                                     *)

\* A delivery is queued, by the job for a matching event or as a test.
enqueue(d) ==
  /\ hook.exists /\ row[d].status = "absent"
  /\ row' = [row EXCEPT ![d] = [NoDelivery EXCEPT !.status = "pending", !.due = TRUE]]
  /\ UNCHANGED <<hook, worker, redelivered, lost, switched>>

\* next_attempt_at comes.  A call is cut off after 15 seconds and the shortest
\* lease is a minute, but the name lookup before the call has no deadline.
lease_ends_unclaimed(d) ==                                    \* mutant
  /\ row[d].status = "pending" /\ ~row[d].due /\ row[d].error # "sending"
  /\ row' = [row EXCEPT ![d].due = TRUE]
  /\ UNCHANGED <<hook, worker, redelivered, lost, switched>>

lease_ends(d) ==
  /\ row[d].status = "pending" /\ ~row[d].due
  /\ SlowWorkers \/ ~\E w \in Worker : InFlight(w, d) /\ worker[w].attempt = row[d].attempts
  /\ row' = [row EXCEPT ![d].due = TRUE]
  /\ UNCHANGED <<hook, worker, redelivered, lost, switched>>

\* Manual redelivery of any row, also of one in flight; attempts and the last
\* error stay.  The row is read without a lock: if it was pending then, only its
\* time is written, and a row closed meanwhile stays closed.  The UPDATE waits
\* for the lock of the row.
redeliver(d) ==
  /\ row[d].status # "absent" /\ ~Locked(d)
  /\ redelivered[d] < MaxRedeliveries
  /\ \E status \in {"pending", row[d].status} :
       row' = [row EXCEPT ![d].status = status, ![d].due = TRUE]
  /\ redelivered' = [redelivered EXCEPT ![d] = @ + 1]
  /\ UNCHANGED <<hook, worker, lost, switched>>

\* Only a reactivation starts a new count.
patch_webhook ==
  /\ hook.exists /\ switched < MaxSwitches
  /\ hook' = [hook EXCEPT !.active = ~@, !.failures = IF hook.active THEN @ ELSE 0]
  /\ switched' = switched + 1
  /\ UNCHANGED <<row, worker, redelivered, lost>>

\* The deliveries go with the subscription (ON DELETE CASCADE).
delete_webhook ==
  /\ hook.exists /\ \A d \in Delivery : ~Locked(d)
  /\ hook' = [hook EXCEPT !.exists = FALSE]
  /\ row' = [d \in Delivery |-> NoDelivery]
  /\ UNCHANGED <<worker, redelivered, lost, switched>>

-----------------------------------------------------------------------------
(* The run of the minute job.                                              *)

\* FOR UPDATE SKIP LOCKED on a due row, then the subscription is read.
claim_delivery(w, d) ==
  /\ worker[w].step = "idle"
  /\ row[d].status = "pending" /\ row[d].due /\ ~Locked(d)
  /\ worker' = [worker EXCEPT ![w] = At("claiming", d, 0, FALSE, hook)]
  /\ UNCHANGED <<row, hook, redelivered, lost, switched>>

\* The count is raised from the value read; "active" is written when it changes.
FinalFailure(seen) ==
  LET count == seen.failures + 1
      disabled == AutoDisableAfter > 0 /\ count >= AutoDisableAfter
  IN  hook' = [hook EXCEPT !.failures = count,
                           !.active = @ /\ ~(disabled /\ seen.active)]

UsedUpLate(r) == r.error = "sending" /\ r.attempts > Retries + 1 \* mutant
UsedUp(r) == r.error = "sending" /\ r.attempts > Retries

claim_row(w) ==
  LET d == worker[w].delivery
      r == row[d]
      Close(error) ==
        /\ row' = [row EXCEPT ![d] =
             [r EXCEPT !.status = "failed", !.due = FALSE, !.error = error]]
        /\ worker' = [worker EXCEPT ![w] = Idle]
  IN  /\ worker[w].step = "claiming"
      /\ \/ /\ ~worker[w].seen.active
            /\ Close("subscription inactive")
            /\ UNCHANGED hook
         \/ /\ worker[w].seen.active /\ UsedUp(r)
            /\ Close("outcome unknown")
            /\ FinalFailure(worker[w].seen)
         \/ /\ worker[w].seen.active /\ ~UsedUp(r)
            /\ row' = [row EXCEPT ![d] =
                 [r EXCEPT !.attempts = @ + 1, !.due = FALSE, !.error = "sending"]]
            /\ worker' = [worker EXCEPT ![w] =
                 At("sending", d, r.attempts + 1, FALSE, NewHook)]
            /\ UNCHANGED hook
      /\ UNCHANGED <<redelivered, lost, switched>>

\* The receiver answers 2xx, or anything else (also a timeout).
send_claimed(w) ==
  /\ worker[w].step = "sending"
  /\ \E ok \in BOOLEAN :
       worker' = [worker EXCEPT ![w].step = "answered", ![w].ok = ok]
  /\ UNCHANGED <<row, hook, redelivered, lost, switched>>

\* The outcome of an attempt counts only while the row is as the attempt left it.
SameAttempt(r, attempt) == r.attempts = attempt               \* mutant
Current(r, attempt) == r.status = "pending" /\ r.attempts = attempt

apply_outcome(w) ==
  LET d == worker[w].delivery
  IN  /\ worker[w].step = "answered"
      /\ ~Locked(d)
      /\ worker' = [worker EXCEPT ![w] =
           IF Current(row[d], @.attempt) THEN At("closing", d, @.attempt, @.ok, hook) ELSE Idle]
      /\ UNCHANGED <<row, hook, redelivered, lost, switched>>

apply(w) ==
  LET d == worker[w].delivery
      Write(status, error) == row' = [row EXCEPT
        ![d] = [@ EXCEPT !.status = status, !.due = FALSE, !.error = error]]
  IN  /\ worker[w].step = "closing"
      /\ \/ /\ worker[w].ok
            /\ Write("succeeded", "none")
            \* a counter read as 0 is not written
            /\ hook' = [hook EXCEPT !.failures =
                          IF worker[w].seen.failures = 0 THEN @ ELSE 0]
         \/ /\ ~worker[w].ok /\ row[d].attempts > Retries
            /\ Write("failed", "error")
            /\ FinalFailure(worker[w].seen)
         \/ /\ ~worker[w].ok /\ row[d].attempts <= Retries
            /\ Write("pending", "error")
            /\ UNCHANGED hook
      /\ worker' = [worker EXCEPT ![w] = Idle]
      /\ UNCHANGED <<redelivered, lost, switched>>

\* The process ends or its transaction fails: nothing of the open step stays.
lose(w) ==
  /\ worker[w].step # "idle" /\ lost < MaxLost
  /\ worker' = [worker EXCEPT ![w] = Idle]
  /\ lost' = lost + 1
  /\ UNCHANGED <<row, hook, redelivered, switched>>

Next ==
  \/ \E d \in Delivery : enqueue(d) \/ lease_ends(d) \/ redeliver(d)
  \/ patch_webhook \/ delete_webhook
  \/ \E w \in Worker :
       \/ \E d \in Delivery : claim_delivery(w, d)
       \/ claim_row(w) \/ send_claimed(w) \/ apply_outcome(w) \/ apply(w) \/ lose(w)

Spec == Init /\ [][Next]_vars

(***************************************************************************)
(* Every call ends (DELIVERY_DEADLINE_SECONDS), every transaction ends,    *)
(* time passes, and the beat starts a run every minute.                    *)
(***************************************************************************)
Fairness ==
  /\ \A w \in Worker : WF_vars(claim_row(w) \/ send_claimed(w) \/ apply_outcome(w) \/ apply(w))
  /\ \A d \in Delivery : WF_vars(lease_ends(d)) /\ WF_vars(\E w \in Worker : claim_delivery(w, d))
FairSpec == Spec /\ Fairness

-----------------------------------------------------------------------------
(* Properties.                                                             *)

(***************************************************************************)
(* However claims, lost workers and redeliveries follow each other, the    *)
(* receiver is called once and then once for each entry of the retry       *)
(* schedule; beyond that only a redelivery asked for by a person buys one  *)
(* more call.                                                              *)
(***************************************************************************)
CallsBounded ==
  \A d \in Delivery : row[d].attempts <= Retries + 1 + redelivered[d]

(***************************************************************************)
(* Without a redelivery two runs never call the receiver for the same      *)
(* delivery at once: claim, commit and lease replace the lock that is not  *)
(* held during the call.  With one they work on different attempts, so the *)
(* outcome of one can never be taken for the outcome of the other.         *)
(***************************************************************************)
OneCallAtATime ==
  \A d \in Delivery : \A v, w \in Worker :
    v # w /\ InFlight(v, d) /\ InFlight(w, d) /\ hook.exists =>
      /\ worker[v].attempt # worker[w].attempt
      /\ SlowWorkers \/ redelivered[d] > 0

(***************************************************************************)
(* A closed delivery is changed by nothing but a redelivery (or the        *)
(* deletion of the subscription): a late outcome of an attempt whose row   *)
(* was closed meanwhile neither reopens nor rewrites it.                   *)
(***************************************************************************)
ClosedStaysClosed ==
  [][\A d \in Delivery : row[d].status \in {"succeeded", "failed"} =>
       \/ row'[d] = row[d]
       \/ redelivered'[d] # redelivered[d]
       \/ ~hook'.exists]_vars

(***************************************************************************)
(* Every queued delivery is closed one day, as delivered or as failed,     *)
(* with lost workers, deactivation and redeliveries in any order.          *)
(***************************************************************************)
PendingIsClosed ==
  \A d \in Delivery : row[d].status = "pending" ~> row[d].status # "pending"
=============================================================================
