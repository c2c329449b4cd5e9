------------------------ MODULE WebhookDeliveryProofs ------------------------
(***************************************************************************)
(* Theorems about the deliveries of a subscription, for any number of      *)
(* deliveries, runs, retries, redeliveries and lost workers, and also for  *)
(* calls that outlast their lease.                                         *)
(***************************************************************************)
EXTENDS WebhookDelivery, TLAPS

Holds(w, d) == worker[w].step \in {"claiming", "closing"} /\ worker[w].delivery = d

\* The row lock belongs to one run, and a run holds it on a pending row only.
LocksStand ==
  /\ \A v, w \in Worker, d \in Delivery : Holds(v, d) /\ Holds(w, d) => v = w
  /\ \A w \in Worker, d \in Delivery : Holds(w, d) => row[d].status = "pending"

\* The attempts under way are older than the next one and differ.
AttemptsDiffer ==
  hook.exists =>
    \A d \in Delivery :
      /\ \A w \in Worker : InFlight(w, d) =>
           row[d].status # "absent" /\ worker[w].attempt <= row[d].attempts
      /\ \A v, w \in Worker : v # w /\ InFlight(v, d) /\ InFlight(w, d) =>
           worker[v].attempt # worker[w].attempt

\* While leases outlast calls and nobody asks for a redelivery, a run that calls
\* the receiver is the only one that works on the delivery.
Undisturbed(d) == hook.exists /\ ~SlowWorkers /\ redelivered[d] = 0

Alone ==
  \A d \in Delivery : Undisturbed(d) =>
    \A w \in Worker : InFlight(w, d) =>
      /\ row[d].status = "pending" => ~row[d].due
      /\ worker[w].attempt = row[d].attempts
      /\ \A v \in Worker : v # w => ~InFlight(v, d) /\ ~Holds(v, d)

-----------------------------------------------------------------------------
(* Types.                                                                  *)

LEMMA BusyType ==
  ASSUME NEW s \in {"claiming", "sending", "answered", "closing"}, NEW d \in Delivery,
         NEW n \in Nat, NEW ok \in BOOLEAN, NEW seen \in Hook
  PROVE  At(s, d, n, ok, seen) \in Busy
BY DEF At, Busy

\* A run that is not idle holds a claimed delivery.
LEMMA BusyWorker ==
  ASSUME TypeOK, NEW w \in Worker, worker[w].step # "idle"
  PROVE  worker[w] \in Busy
<1>1. worker[w] \in Busy \cup {Idle}
  BY DEF TypeOK
<1>2. Idle.step = "idle"
  BY DEF Idle
<1> QED BY <1>1, <1>2

LEMMA FailureType ==
  ASSUME hook \in Hook, NEW seen \in Hook, FinalFailure(seen)
  PROVE  hook' \in Hook
<1>1. seen.failures + 1 \in Nat
  BY DEF Hook
<1>2. \A n \in Nat, b \in BOOLEAN : [hook EXCEPT !.failures = n, !.active = b] \in Hook
  BY DEF Hook
<1>3. PICK b : hook' = [hook EXCEPT !.failures = seen.failures + 1, !.active = b] /\ b \in BOOLEAN
  BY DEF FinalFailure, Hook
<1> QED BY <1>1, <1>2, <1>3

LEMMA RowWrite ==
  ASSUME row \in [Delivery -> Row], NEW d \in Delivery, NEW r \in Row,
         row' = [row EXCEPT ![d] = r]
  PROVE  row' \in [Delivery -> Row]
OBVIOUS

LEMMA TypeInit == Init => TypeOK
BY BoundsAssumption DEF Init, TypeOK, NoDelivery, NewHook, Row, Hook, Status, LastError

LEMMA TypeNext == TypeOK /\ [Next]_vars => TypeOK'
<1> SUFFICES ASSUME TypeOK, [Next]_vars PROVE TypeOK'
  OBVIOUS
<1>type. /\ row \in [Delivery -> Row] /\ hook \in Hook
         /\ worker \in [Worker -> Busy \cup {Idle}]
         /\ redelivered \in [Delivery -> 0..MaxRedeliveries]
         /\ lost \in 0..MaxLost /\ switched \in 0..MaxSwitches
  BY DEF TypeOK
<1>idle. ASSUME NEW w \in Worker, worker' = [worker EXCEPT ![w] = Idle]
         PROVE  worker' \in [Worker -> Busy \cup {Idle}]
  BY <1>type, <1>idle
<1>busy. ASSUME NEW w \in Worker, NEW b \in Busy, worker' = [worker EXCEPT ![w] = b]
         PROVE  worker' \in [Worker -> Busy \cup {Idle}]
  BY <1>type, <1>busy
<1>1. CASE UNCHANGED vars
  BY <1>1 DEF vars, TypeOK
<1>2. ASSUME NEW d \in Delivery, enqueue(d) PROVE TypeOK'
  <2>1. [NoDelivery EXCEPT !.status = "pending", !.due = TRUE] \in Row
    BY DEF NoDelivery, Row, Status, LastError
  <2>2. row' \in [Delivery -> Row]
    BY <1>type, <1>2, <2>1, RowWrite DEF enqueue
  <2> QED BY <1>type, <1>2, <2>2 DEF enqueue, TypeOK
<1>3. ASSUME NEW d \in Delivery, lease_ends(d) PROVE TypeOK'
  <2>1. [row[d] EXCEPT !.due = TRUE] \in Row
    BY <1>type DEF Row
  <2>2. row' = [row EXCEPT ![d] = [row[d] EXCEPT !.due = TRUE]]
    BY <1>3 DEF lease_ends
  <2>3. row' \in [Delivery -> Row]
    BY <1>type, <2>1, <2>2, RowWrite
  <2> QED BY <1>type, <1>3, <2>3 DEF lease_ends, TypeOK
<1>4. ASSUME NEW d \in Delivery, redeliver(d) PROVE TypeOK'
  <2>0. PICK status \in {"pending", row[d].status} :
          row' = [row EXCEPT ![d].status = status, ![d].due = TRUE]
    BY <1>4 DEF redeliver
  <2>1. [row[d] EXCEPT !.status = status, !.due = TRUE] \in Row
    BY <1>type DEF Row, Status
  <2>2. row' = [row EXCEPT ![d] = [row[d] EXCEPT !.status = status, !.due = TRUE]]
    BY <1>type, <2>0
  <2>3. row' \in [Delivery -> Row]
    BY <1>type, <2>1, <2>2, RowWrite
  <2>4. redelivered' \in [Delivery -> 0..MaxRedeliveries]
    BY <1>type, <1>4, BoundsAssumption DEF redeliver
  <2> QED BY <1>type, <1>4, <2>3, <2>4 DEF redeliver, TypeOK
<1>5. CASE patch_webhook
  <2>1. hook' \in Hook
    BY <1>type, <1>5 DEF patch_webhook, Hook
  <2> QED BY <1>type, <1>5, <2>1, BoundsAssumption DEF patch_webhook, TypeOK
<1>6. CASE delete_webhook
  <2>1. hook' \in Hook
    BY <1>type, <1>6 DEF delete_webhook, Hook
  <2>2. row' \in [Delivery -> Row]
    BY <1>6 DEF delete_webhook, NoDelivery, Row, Status, LastError
  <2> QED BY <1>type, <1>6, <2>1, <2>2 DEF delete_webhook, TypeOK
<1>7. ASSUME NEW w \in Worker, NEW d \in Delivery, claim_delivery(w, d) PROVE TypeOK'
  <2>1. At("claiming", d, 0, FALSE, hook) \in Busy
    BY <1>type, BusyType
  <2>2. worker' \in [Worker -> Busy \cup {Idle}]
    BY <1>7, <1>busy, <2>1 DEF claim_delivery
  <2> QED BY <1>type, <1>7, <2>2 DEF claim_delivery, TypeOK
<1>8. ASSUME NEW w \in Worker, claim_row(w) PROVE TypeOK'
  <2> DEFINE d == worker[w].delivery
  <2>1. worker[w] \in Busy
    BY <1>8, BusyWorker DEF claim_row
  <2>2. d \in Delivery /\ worker[w].seen \in Hook /\ row[d] \in Row
    BY <1>type, <2>1 DEF Busy
  <2>3. ASSUME NEW error \in LastError,
               row' = [row EXCEPT ![d] =
                         [row[d] EXCEPT !.status = "failed", !.due = FALSE, !.error = error]]
        PROVE  row' \in [Delivery -> Row]
    <3>1. [row[d] EXCEPT !.status = "failed", !.due = FALSE, !.error = error] \in Row
      BY <2>2 DEF Row, Status
    <3> QED BY <1>type, <2>2, <2>3, <3>1, RowWrite
  <2>4. [row[d] EXCEPT !.attempts = @ + 1, !.due = FALSE, !.error = "sending"] \in Row
    <3>1. /\ row[d].attempts + 1 \in Nat
          /\ "sending" \in LastError
      <4>1. row[d].attempts \in Nat
        BY <2>2 DEF Row
      <4>2. "sending" \in LastError
        BY DEF LastError
      <4> QED BY <4>1, <4>2
    <3>2. [row[d] EXCEPT !.attempts = row[d].attempts + 1, !.due = FALSE, !.error = "sending"] \in Row
      BY <2>2, <3>1 DEF Row
    <3> QED BY <2>2, <3>2 DEF Row
  <2>5. "outcome unknown" \in LastError /\ "subscription inactive" \in LastError
    BY DEF LastError
  <2>6. row' \in [Delivery -> Row]
    BY <1>type, <1>8, <2>2, <2>3, <2>4, <2>5, RowWrite DEF claim_row
  <2>7. row[d].attempts + 1 \in Nat
    BY <2>2 DEF Row
  <2>8. At("sending", d, row[d].attempts + 1, FALSE, NewHook) \in Busy
    BY <2>2, <2>7, BusyType DEF NewHook, Hook
  <2>9. worker' \in [Worker -> Busy \cup {Idle}]
    BY <1>8, <1>idle, <1>busy, <2>8 DEF claim_row
  <2>10. hook' \in Hook
    BY <1>type, <1>8, <2>2, FailureType DEF claim_row
  <2> QED BY <1>type, <1>8, <2>6, <2>9, <2>10 DEF claim_row, TypeOK
<1>9. ASSUME NEW w \in Worker, send_claimed(w) PROVE TypeOK'
  <2>1. worker[w] \in Busy
    BY <1>9, BusyWorker DEF send_claimed
  <2>2. PICK ok \in BOOLEAN :
          worker' = [worker EXCEPT ![w] = [worker[w] EXCEPT !.step = "answered", !.ok = ok]]
    BY <1>9 DEF send_claimed
  <2>3. [worker[w] EXCEPT !.step = "answered", !.ok = ok] \in Busy
    BY <2>1 DEF Busy
  <2>4. worker' \in [Worker -> Busy \cup {Idle}]
    BY <1>busy, <2>2, <2>3
  <2> QED BY <1>type, <1>9, <2>4 DEF send_claimed, TypeOK
<1>10. ASSUME NEW w \in Worker, apply_outcome(w) PROVE TypeOK'
  <2>1. worker[w] \in Busy
    BY <1>10, BusyWorker DEF apply_outcome
  <2>2. At("closing", worker[w].delivery, worker[w].attempt, worker[w].ok, hook) \in Busy
    BY <1>type, <2>1, BusyType DEF Busy
  <2>3. worker' \in [Worker -> Busy \cup {Idle}]
    BY <1>type, <1>10, <1>busy, <1>idle, <2>2 DEF apply_outcome
  <2> QED BY <1>type, <1>10, <2>3 DEF apply_outcome, TypeOK
<1>11. ASSUME NEW w \in Worker, apply(w) PROVE TypeOK'
  <2> DEFINE d == worker[w].delivery
  <2>1. worker[w] \in Busy
    BY <1>11, BusyWorker DEF apply
  <2>2. d \in Delivery /\ worker[w].seen \in Hook /\ row[d] \in Row
    BY <1>type, <2>1 DEF Busy
  <2>3. ASSUME NEW s \in Status, NEW error \in LastError,
               row' = [row EXCEPT ![d] = [@ EXCEPT !.status = s, !.due = FALSE, !.error = error]]
        PROVE  row' \in [Delivery -> Row]
    <3>1. [row[d] EXCEPT !.status = s, !.due = FALSE, !.error = error] \in Row
      BY <2>2 DEF Row
    <3> QED BY <1>type, <2>2, <2>3, <3>1
  <2>4. {"succeeded", "failed", "pending"} \subseteq Status /\ {"none", "error"} \subseteq LastError
    BY DEF Status, LastError
  <2>5. row' \in [Delivery -> Row]
    BY <1>11, <2>3, <2>4 DEF apply
  <2>6. hook' \in Hook
    <3>1. CASE FinalFailure(worker[w].seen)
      BY <1>type, <2>2, <3>1, FailureType
    <3>2. CASE UNCHANGED hook
      BY <1>type, <3>2
    <3>3. CASE hook' = [hook EXCEPT !.failures = IF worker[w].seen.failures = 0 THEN @ ELSE 0]
      BY <1>type, <3>3 DEF Hook
    <3> QED BY <1>11, <3>1, <3>2, <3>3 DEF apply
  <2>7. worker' \in [Worker -> Busy \cup {Idle}]
    BY <1>11, <1>idle DEF apply
  <2> QED BY <1>type, <1>11, <2>5, <2>6, <2>7 DEF apply, TypeOK
<1>12. ASSUME NEW w \in Worker, lose(w) PROVE TypeOK'
  BY <1>type, <1>12, <1>idle, BoundsAssumption DEF lose, TypeOK
<1> QED
  BY <1>1, <1>2, <1>3, <1>4, <1>5, <1>6, <1>7, <1>8, <1>9, <1>10, <1>11, <1>12 DEF Next

\* Rows, subscription and runs stay in their types, for any bounds.
THEOREM TypeCorrect == Spec => []TypeOK
BY TypeInit, TypeNext, PTL DEF Spec

-----------------------------------------------------------------------------
(* The lock of a delivery row.                                             *)

\* A run that leaves its step for one without a lock.
LEMMA LockReleased ==
  ASSUME TypeOK, LocksStand, NEW w \in Worker, NEW b,
         worker' = [worker EXCEPT ![w] = b], b.step \notin {"claiming", "closing"},
         NEW e, \A d \in Delivery : d # e => row'[d] = row[d],
         Holds(w, e) \/ UNCHANGED row
  PROVE  LocksStand'
<1>1. worker'[w] = b /\ \A v \in Worker : v # w => worker'[v] = worker[v]
  BY DEF TypeOK
<1>2. \A v \in Worker, d \in Delivery : Holds(v, d)' => v # w /\ Holds(v, d)
  BY <1>1 DEF Holds
<1>3. \A v \in Worker, d \in Delivery : Holds(v, d)' => row'[d] = row[d]
  BY <1>2 DEF LocksStand
<1> QED BY <1>2, <1>3 DEF LocksStand

LEMMA LocksNext == TypeOK /\ LocksStand /\ [Next]_vars => LocksStand'
<1> SUFFICES ASSUME TypeOK, LocksStand, [Next]_vars PROVE LocksStand'
  OBVIOUS
<1>type. row \in [Delivery -> Row] /\ worker \in [Worker -> Busy \cup {Idle}]
  BY DEF TypeOK
<1>idle. Idle.step = "idle"
  BY DEF Idle
<1>free. ASSUME NEW d \in Delivery, ~Locked(d) PROVE \A w \in Worker : ~Holds(w, d)
  BY <1>free DEF Locked, Holds
<1>1. CASE UNCHANGED vars
  BY <1>1 DEF vars, LocksStand, Holds
<1>2. ASSUME NEW d \in Delivery, enqueue(d) PROVE LocksStand'
  BY <1>type, <1>2 DEF enqueue, LocksStand, Holds
<1>3. ASSUME NEW d \in Delivery, lease_ends(d) PROVE LocksStand'
  BY <1>type, <1>3 DEF lease_ends, LocksStand, Holds, Row
<1>4. ASSUME NEW d \in Delivery, redeliver(d) PROVE LocksStand'
  <2>1. \A e \in Delivery : row'[e].status = row[e].status \/ row'[e].status = "pending"
    BY <1>type, <1>4 DEF redeliver, Row
  <2> QED BY <1>4, <2>1 DEF redeliver, LocksStand, Holds
<1>5. CASE patch_webhook
  BY <1>5 DEF patch_webhook, LocksStand, Holds
<1>6. CASE delete_webhook
  BY <1>6, <1>free DEF delete_webhook, LocksStand, Holds
<1>7. ASSUME NEW w \in Worker, NEW d \in Delivery, claim_delivery(w, d) PROVE LocksStand'
  <2>1. worker'[w].step = "claiming" /\ worker'[w].delivery = d
    BY <1>type, <1>7 DEF claim_delivery, At
  <2>2. \A v \in Worker : v # w => worker'[v] = worker[v]
    BY <1>type, <1>7 DEF claim_delivery
  <2>3. \A v \in Worker, e \in Delivery :
          Holds(v, e)' => IF v = w THEN e = d ELSE Holds(v, e) /\ e # d
    <3>1. \A v \in Worker : ~Holds(v, d)
      BY <1>7, <1>free DEF claim_delivery
    <3> QED BY <3>1, <2>1, <2>2 DEF Holds
  <2> QED BY <1>7, <2>3 DEF claim_delivery, LocksStand
<1>8. ASSUME NEW w \in Worker, claim_row(w) PROVE LocksStand'
  <2> DEFINE d == worker[w].delivery
  <2>1. worker[w] \in Busy
    BY <1>8, BusyWorker DEF claim_row
  <2>2. Holds(w, d)
    BY <1>8, <2>1 DEF claim_row, Holds
  <2>3. \A e \in Delivery : e # d => row'[e] = row[e]
    BY <1>type, <1>8 DEF claim_row
  <2>4. PICK b : worker' = [worker EXCEPT ![w] = b] /\ b.step \notin {"claiming", "closing"}
    <3>1. At("sending", d, row[d].attempts + 1, FALSE, NewHook).step = "sending"
      BY DEF At
    <3> QED BY <1>8, <1>idle, <3>1 DEF claim_row
  <2> QED BY <2>2, <2>3, <2>4, LockReleased
<1>9. ASSUME NEW w \in Worker, send_claimed(w) PROVE LocksStand'
  <2>1. worker[w] \in Busy
    BY <1>9, BusyWorker DEF send_claimed
  <2>2. PICK ok \in BOOLEAN :
          worker' = [worker EXCEPT ![w] = [worker[w] EXCEPT !.step = "answered", !.ok = ok]]
    BY <1>9 DEF send_claimed
  <2>3. [worker[w] EXCEPT !.step = "answered", !.ok = ok].step = "answered"
    BY <2>1 DEF Busy
  <2>4. UNCHANGED row
    BY <1>9 DEF send_claimed
  <2> QED BY <2>2, <2>3, <2>4, LockReleased
<1>10. ASSUME NEW w \in Worker, apply_outcome(w) PROVE LocksStand'
  <2> DEFINE d == worker[w].delivery
  <2>1. worker[w] \in Busy /\ UNCHANGED row
    BY <1>10, BusyWorker DEF apply_outcome
  <2>2. CASE Current(row[d], worker[w].attempt)
    <3>1. worker'[w] = At("closing", d, worker[w].attempt, worker[w].ok, hook)
      BY <1>type, <1>10, <2>2 DEF apply_outcome
    <3>2. worker'[w].delivery = d
      BY <3>1 DEF At
    <3>3. \A v \in Worker : v # w => worker'[v] = worker[v]
      BY <1>type, <1>10 DEF apply_outcome
    <3>4. d \in Delivery
      BY <2>1 DEF Busy
    <3>5. \A v \in Worker, e \in Delivery :
            Holds(v, e)' => IF v = w THEN e = d ELSE Holds(v, e) /\ e # d
      BY <1>10, <1>free, <3>2, <3>3, <3>4 DEF Holds, apply_outcome
    <3> QED BY <2>1, <2>2, <3>5 DEF Current, LocksStand
  <2>3. CASE ~Current(row[d], worker[w].attempt)
    <3>1. worker' = [worker EXCEPT ![w] = Idle]
      BY <1>type, <1>10, <2>3 DEF apply_outcome
    <3> QED BY <1>idle, <2>1, <3>1, LockReleased
  <2> QED BY <2>2, <2>3
<1>11. ASSUME NEW w \in Worker, apply(w) PROVE LocksStand'
  <2> DEFINE d == worker[w].delivery
  <2>1. worker[w] \in Busy
    BY <1>11, BusyWorker DEF apply
  <2>2. Holds(w, d)
    BY <1>11, <2>1 DEF apply, Holds
  <2>3. \A e \in Delivery : e # d => row'[e] = row[e]
    BY <1>type, <1>11 DEF apply
  <2>4. worker' = [worker EXCEPT ![w] = Idle]
    BY <1>11 DEF apply
  <2> QED BY <1>idle, <2>2, <2>3, <2>4, LockReleased
<1>12. ASSUME NEW w \in Worker, lose(w) PROVE LocksStand'
  BY <1>12, <1>idle, LockReleased DEF lose
<1> QED
  BY <1>1, <1>2, <1>3, <1>4, <1>5, <1>6, <1>7, <1>8, <1>9, <1>10, <1>11, <1>12 DEF Next

LEMMA LocksAlways == Spec => []LocksStand
<1>1. Init => LocksStand
  BY DEF Init, LocksStand, Holds, Idle
<1> QED BY <1>1, LocksNext, TypeCorrect, PTL DEF Spec

\* A closed row changes only through a redelivery or with the subscription: the
\* check of apply_outcome and the lock of the row it takes.
THEOREM ClosedRowsStayClosed == Spec => ClosedStaysClosed
<1>1. ASSUME TypeOK, LocksStand, [Next]_vars, NEW d \in Delivery,
             row[d].status \in {"succeeded", "failed"}
      PROVE  row'[d] = row[d] \/ redelivered'[d] # redelivered[d] \/ ~hook'.exists
  <2>type. /\ row \in [Delivery -> Row] /\ hook \in Hook
           /\ redelivered \in [Delivery -> 0..MaxRedeliveries]
    BY <1>1 DEF TypeOK
  <2>1. CASE UNCHANGED vars
    BY <2>1 DEF vars
  <2>2. ASSUME NEW e \in Delivery, enqueue(e) PROVE row'[d] = row[d]
    BY <1>1, <2>type, <2>2 DEF enqueue
  <2>3. ASSUME NEW e \in Delivery, lease_ends(e) PROVE row'[d] = row[d]
    BY <1>1, <2>type, <2>3 DEF lease_ends
  <2>4. ASSUME NEW e \in Delivery, redeliver(e)
        PROVE  row'[d] = row[d] \/ redelivered'[d] # redelivered[d]
    BY <2>type, <2>4, BoundsAssumption DEF redeliver
  <2>5. CASE patch_webhook
    BY <2>5 DEF patch_webhook
  <2>6. CASE delete_webhook
    BY <2>type, <2>6 DEF delete_webhook, Hook
  <2>7. ASSUME NEW w \in Worker, claim_row(w) PROVE row'[d] = row[d]
    <3>1. worker[w].delivery # d
      BY <1>1, <2>7 DEF claim_row, LocksStand, Holds
    <3> QED BY <2>type, <2>7, <3>1 DEF claim_row
  <2>8. ASSUME NEW w \in Worker, apply(w) PROVE row'[d] = row[d]
    <3>1. worker[w].delivery # d
      BY <1>1, <2>8 DEF apply, LocksStand, Holds
    <3> QED BY <2>type, <2>8, <3>1 DEF apply
  <2>9. CASE UNCHANGED row
    BY <2>9
  <2> QED
    BY <1>1, <2>1, <2>2, <2>3, <2>4, <2>5, <2>6, <2>7, <2>8, <2>9
    DEF Next, claim_delivery, send_claimed, apply_outcome, lose
<1>2. TypeOK /\ LocksStand /\ [Next]_vars =>
        [\A d \in Delivery : row[d].status \in {"succeeded", "failed"} =>
           \/ row'[d] = row[d]
           \/ redelivered'[d] # redelivered[d]
           \/ ~hook'.exists]_vars
  BY <1>1
<1> QED BY <1>2, TypeCorrect, LocksAlways, PTL DEF Spec, ClosedStaysClosed

-----------------------------------------------------------------------------
(* The number of calls.                                                    *)

\* One row's share of the two bounds.
Bounded(r, n) ==
  /\ r.attempts <= Retries + 1 + n
  /\ r.status = "pending" /\ r.error # "sending" => r.attempts <= Retries + n

RowsBounded == \A d \in Delivery : Bounded(row[d], redelivered[d])

\* A step that changes one row only.
LEMMA OneRowBounded ==
  ASSUME TypeOK, RowsBounded, NEW d \in Delivery, NEW r,
         row' = [row EXCEPT ![d] = r], UNCHANGED redelivered,
         Bounded(r, redelivered[d])
  PROVE  RowsBounded'
<1>1. \A e \in Delivery : row'[e] = IF e = d THEN r ELSE row[e]
  BY DEF TypeOK
<1> QED BY <1>1 DEF RowsBounded

LEMMA BoundNext == TypeOK /\ LocksStand /\ RowsBounded /\ [Next]_vars => RowsBounded'
<1> SUFFICES ASSUME TypeOK, LocksStand, RowsBounded, [Next]_vars PROVE RowsBounded'
  OBVIOUS
<1>type. /\ row \in [Delivery -> Row] /\ hook \in Hook
         /\ redelivered \in [Delivery -> 0..MaxRedeliveries]
  BY DEF TypeOK
<1>nat. \A d \in Delivery : redelivered[d] \in Nat /\ row[d].attempts \in Nat
  BY <1>type, BoundsAssumption DEF Row
<1>none. \A n \in Nat : Bounded(NoDelivery, n)
  BY RetriesAssumption DEF Bounded, NoDelivery
<1>1. CASE UNCHANGED <<row, redelivered>>
  BY <1>1 DEF RowsBounded
<1>2. ASSUME NEW d \in Delivery, enqueue(d) PROVE RowsBounded'
  <2>1. Bounded([NoDelivery EXCEPT !.status = "pending", !.due = TRUE], redelivered[d])
    BY <1>nat, RetriesAssumption DEF Bounded, NoDelivery
  <2> QED BY <1>2, <2>1, OneRowBounded DEF enqueue
<1>3. ASSUME NEW d \in Delivery, lease_ends(d) PROVE RowsBounded'
  <2>1. row' = [row EXCEPT ![d] = [row[d] EXCEPT !.due = TRUE]]
    BY <1>3 DEF lease_ends
  <2>2. Bounded([row[d] EXCEPT !.due = TRUE], redelivered[d])
    BY <1>type DEF RowsBounded, Bounded, Row
  <2> QED BY <1>3, <2>1, <2>2, OneRowBounded DEF lease_ends
<1>4. ASSUME NEW d \in Delivery, redeliver(d) PROVE RowsBounded'
  <2> SUFFICES ASSUME NEW e \in Delivery PROVE Bounded(row'[e], redelivered'[e])
    BY DEF RowsBounded, Bounded
  <2>1. CASE e # d
    BY <1>type, <1>4, <2>1 DEF redeliver, RowsBounded
  <2>2. CASE e = d
    <3>1. row'[e].attempts = row[e].attempts
      BY <1>type, <1>4, <2>2 DEF redeliver, Row
    <3>2. redelivered'[e] = redelivered[e] + 1
      BY <1>type, <1>4, <2>2 DEF redeliver
    <3>3. row[e].attempts <= Retries + 1 + redelivered[e]
      BY DEF RowsBounded, Bounded
    <3> QED BY <1>nat, <3>1, <3>2, <3>3, RetriesAssumption DEF Bounded
  <2> QED BY <2>1, <2>2
<1>5. CASE patch_webhook
  BY <1>5, <1>1 DEF patch_webhook
<1>6. CASE delete_webhook
  BY <1>6, <1>nat, <1>none DEF delete_webhook, RowsBounded
<1>7. ASSUME NEW w \in Worker, claim_row(w) PROVE RowsBounded'
  <2> DEFINE d == worker[w].delivery
  <2>1. d \in Delivery
    BY <1>7, BusyWorker DEF claim_row, Busy
  <2>2. row[d].status = "pending"
    BY <1>7, <2>1 DEF claim_row, LocksStand, Holds
  <2>3. row[d] \in Row /\ Bounded(row[d], redelivered[d]) /\ UNCHANGED redelivered
    BY <1>type, <1>7, <2>1 DEF RowsBounded, claim_row
  <2>4. ASSUME NEW error \in LastError
        PROVE  Bounded([row[d] EXCEPT !.status = "failed", !.due = FALSE, !.error = error],
                       redelivered[d])
    BY <2>3 DEF Bounded, Row
  <2>5. ASSUME ~UsedUp(row[d])
        PROVE  Bounded([row[d] EXCEPT !.attempts = @ + 1, !.due = FALSE, !.error = "sending"],
                       redelivered[d])
    <3>1. row[d].attempts <= Retries + redelivered[d]
      BY <1>nat, <2>1, <2>2, <2>3, <2>5, RetriesAssumption DEF Bounded, UsedUp
    <3>2. /\ [row[d] EXCEPT !.attempts = @ + 1, !.due = FALSE, !.error = "sending"].attempts
               = row[d].attempts + 1
          /\ [row[d] EXCEPT !.attempts = @ + 1, !.due = FALSE, !.error = "sending"].error
               = "sending"
      BY <2>3 DEF Row
    <3> QED BY <1>nat, <2>1, <3>1, <3>2, RetriesAssumption DEF Bounded
  <2>6. "outcome unknown" \in LastError /\ "subscription inactive" \in LastError
    BY DEF LastError
  <2>7. CASE \E error \in {"outcome unknown", "subscription inactive"} :
               row' = [row EXCEPT ![d] =
                         [row[d] EXCEPT !.status = "failed", !.due = FALSE, !.error = error]]
    BY <2>1, <2>3, <2>4, <2>6, <2>7, OneRowBounded
  <2>8. CASE /\ ~UsedUp(row[d])
             /\ row' = [row EXCEPT ![d] =
                  [row[d] EXCEPT !.attempts = @ + 1, !.due = FALSE, !.error = "sending"]]
    BY <2>1, <2>3, <2>5, <2>8, OneRowBounded
  <2> QED BY <1>7, <2>7, <2>8 DEF claim_row
<1>8. ASSUME NEW w \in Worker, apply(w) PROVE RowsBounded'
  <2> DEFINE d == worker[w].delivery
  <2>1. d \in Delivery
    BY <1>8, BusyWorker DEF apply, Busy
  <2>2. row[d] \in Row /\ Bounded(row[d], redelivered[d]) /\ UNCHANGED redelivered
    BY <1>type, <1>8, <2>1 DEF RowsBounded, apply
  <2>3. PICK s \in {"succeeded", "failed", "pending"}, error \in {"none", "error"} :
          /\ row' = [row EXCEPT ![d] = [row[d] EXCEPT !.status = s, !.due = FALSE, !.error = error]]
          /\ s = "pending" => row[d].attempts <= Retries
    BY <1>8 DEF apply
  <2>4. Bounded([row[d] EXCEPT !.status = s, !.due = FALSE, !.error = error], redelivered[d])
    <3>1. /\ [row[d] EXCEPT !.status = s, !.due = FALSE, !.error = error].attempts = row[d].attempts
          /\ [row[d] EXCEPT !.status = s, !.due = FALSE, !.error = error].status = s
      BY <2>2 DEF Row
    <3> QED BY <1>nat, <2>1, <2>2, <2>3, <3>1, RetriesAssumption DEF Bounded
  <2> QED BY <2>1, <2>2, <2>3, <2>4, OneRowBounded
<1>9. CASE UNCHANGED vars
  BY <1>9, <1>1 DEF vars
<1> QED
  BY <1>1, <1>2, <1>3, <1>4, <1>5, <1>6, <1>7, <1>8, <1>9
  DEF Next, claim_delivery, send_claimed, apply_outcome, lose

\* The receiver is called once, once for each entry of the retry schedule, and
\* once more for each redelivery a person asks for.
THEOREM CallsAreBounded == Spec => []CallsBounded
<1>1. Init => RowsBounded
  BY RetriesAssumption DEF Init, RowsBounded, Bounded, NoDelivery
<1>2. RowsBounded => CallsBounded
  BY DEF RowsBounded, Bounded, CallsBounded
<1> QED BY <1>1, <1>2, BoundNext, TypeCorrect, LocksAlways, PTL DEF Spec

-----------------------------------------------------------------------------
(* One call at a time.                                                     *)

CallsApart == AttemptsDiffer /\ Alone

\* A step of one run after which it calls no receiver, or goes on with its call.
LEMMA ApartByRun ==
  ASSUME TypeOK, CallsApart, NEW w \in Worker, NEW b,
         worker' = [worker EXCEPT ![w] = b],
         UNCHANGED <<redelivered, row>>, hook'.exists = hook.exists,
         \/ b.step = "idle"
         \/ /\ worker[w].step \in {"sending", "answered"}
            /\ b.step \in {"answered", "closing"}
            /\ b.delivery = worker[w].delivery /\ b.attempt = worker[w].attempt
  PROVE  CallsApart'
<1>1. worker'[w] = b /\ \A v \in Worker : v # w => worker'[v] = worker[v]
  BY DEF TypeOK
<1>2. \A v \in Worker, d \in Delivery :
        InFlight(v, d)' => InFlight(v, d) /\ worker'[v].attempt = worker[v].attempt
  BY <1>1 DEF InFlight
<1>3. \A v \in Worker, d \in Delivery : Holds(v, d)' => Holds(v, d) \/ (v = w /\ InFlight(v, d))
  BY <1>1 DEF InFlight, Holds
<1>4. AttemptsDiffer'
  <2>1. ASSUME hook.exists
        PROVE  AttemptsDiffer'
    BY <1>2, <2>1 DEF CallsApart, AttemptsDiffer
  <2> QED BY <2>1 DEF AttemptsDiffer
<1>5. Alone'
  <2> SUFFICES ASSUME NEW d \in Delivery, Undisturbed(d)', NEW v \in Worker, InFlight(v, d)'
               PROVE  /\ row[d].status = "pending" => ~row[d].due
                      /\ worker'[v].attempt = row[d].attempts
                      /\ \A u \in Worker : u # v => ~InFlight(u, d)' /\ ~Holds(u, d)'
    BY DEF Alone
  <2>1. Undisturbed(d) /\ InFlight(v, d)
    BY <1>2 DEF Undisturbed
  <2> QED BY <1>2, <1>3, <2>1 DEF CallsApart, Alone
<1> QED BY <1>4, <1>5 DEF CallsApart

\* A step outside the runs: a row whose receiver is being called keeps its count,
\* and changes at all only when it is disturbed.
LEMMA ApartByRow ==
  ASSUME CallsApart, UNCHANGED worker, hook'.exists => hook.exists,
         \A d \in Delivery : hook'.exists =>
           \/ row'[d] = row[d]
           \/ \A w \in Worker : ~InFlight(w, d)
           \/ /\ row'[d].attempts = row[d].attempts /\ row'[d].status # "absent"
              /\ ~Undisturbed(d)',
         \A d \in Delivery : redelivered'[d] = 0 => redelivered[d] = 0
  PROVE  CallsApart'
<1>1. \A w \in Worker, d \in Delivery :
        (InFlight(w, d)' <=> InFlight(w, d)) /\ (Holds(w, d)' <=> Holds(w, d))
  BY DEF InFlight, Holds
<1>2. AttemptsDiffer'
  <2>1. ASSUME hook'.exists, NEW d \in Delivery, NEW w \in Worker, InFlight(w, d)
        PROVE  /\ row'[d].attempts = row[d].attempts
               /\ row[d].status # "absent" => row'[d].status # "absent"
    BY <2>1
  <2> QED BY <1>1, <2>1 DEF CallsApart, AttemptsDiffer
<1>3. Alone'
  <2> SUFFICES ASSUME NEW d \in Delivery, Undisturbed(d)', NEW v \in Worker, InFlight(v, d)'
               PROVE  /\ row'[d].status = "pending" => ~row'[d].due
                      /\ worker[v].attempt = row'[d].attempts
                      /\ \A u \in Worker : u # v => ~InFlight(u, d)' /\ ~Holds(u, d)'
    BY DEF Alone
  <2>1. Undisturbed(d) /\ InFlight(v, d) /\ hook'.exists
    BY <1>1 DEF Undisturbed
  <2>2. row'[d] = row[d]
    BY <2>1
  <2> QED BY <1>1, <2>1, <2>2 DEF CallsApart, Alone
<1> QED BY <1>2, <1>3 DEF CallsApart

\* A step of a run that holds the lock of a row and ends without a call.
LEMMA ApartByHolder ==
  ASSUME TypeOK, CallsApart, NEW w \in Worker, NEW d \in Delivery, Holds(w, d),
         worker' = [worker EXCEPT ![w] = Idle],
         \A e \in Delivery : e # d => row'[e] = row[e],
         row'[d].attempts = row[d].attempts, row'[d].status # "absent",
         UNCHANGED redelivered, hook'.exists = hook.exists
  PROVE  CallsApart'
<1>1. worker'[w] = Idle /\ \A v \in Worker : v # w => worker'[v] = worker[v]
  BY DEF TypeOK
<1>2. \A v \in Worker, e \in Delivery :
        /\ InFlight(v, e)' => v # w /\ InFlight(v, e) /\ worker'[v].attempt = worker[v].attempt
        /\ Holds(v, e)' => Holds(v, e)
  BY <1>1 DEF InFlight, Holds, Idle
<1>3. \A e \in Delivery :
        /\ row'[e].attempts = row[e].attempts
        /\ row[e].status # "absent" => row'[e].status # "absent"
  OBVIOUS
<1>4. AttemptsDiffer'
  BY <1>2, <1>3 DEF CallsApart, AttemptsDiffer
<1>5. Alone'
  <2> SUFFICES ASSUME NEW e \in Delivery, Undisturbed(e)', NEW v \in Worker, InFlight(v, e)'
               PROVE  /\ row'[e].status = "pending" => ~row'[e].due
                      /\ worker'[v].attempt = row'[e].attempts
                      /\ \A u \in Worker : u # v => ~InFlight(u, e)' /\ ~Holds(u, e)'
    BY DEF Alone
  <2>1. Undisturbed(e) /\ InFlight(v, e) /\ v # w
    BY <1>2 DEF Undisturbed
  <2>2. e # d
    BY <2>1 DEF CallsApart, Alone
  <2> QED BY <1>2, <2>1, <2>2 DEF CallsApart, Alone
<1> QED BY <1>4, <1>5 DEF CallsApart

LEMMA ApartNext == TypeOK /\ LocksStand /\ CallsApart /\ [Next]_vars => CallsApart'
<1> SUFFICES ASSUME TypeOK, LocksStand, CallsApart, [Next]_vars PROVE CallsApart'
  OBVIOUS
<1>type. /\ row \in [Delivery -> Row] /\ hook \in Hook
         /\ worker \in [Worker -> Busy \cup {Idle}]
         /\ redelivered \in [Delivery -> 0..MaxRedeliveries]
  BY DEF TypeOK
<1>idle. Idle.step = "idle"
  BY DEF Idle
<1>free. ASSUME NEW d \in Delivery, ~Locked(d) PROVE \A w \in Worker : ~Holds(w, d)
  BY <1>free DEF Locked, Holds
<1>1. CASE UNCHANGED vars
  BY <1>1, ApartByRow DEF vars
<1>2. ASSUME NEW d \in Delivery, enqueue(d) PROVE CallsApart'
  <2>1. \A w \in Worker : ~InFlight(w, d)
    BY <1>2 DEF enqueue, CallsApart, AttemptsDiffer
  <2>2. \A e \in Delivery : e # d => row'[e] = row[e]
    BY <1>type, <1>2 DEF enqueue
  <2> QED BY <1>2, <2>1, <2>2, ApartByRow DEF enqueue
<1>3. ASSUME NEW d \in Delivery, lease_ends(d) PROVE CallsApart'
  <2>1. \A e \in Delivery : e # d => row'[e] = row[e]
    BY <1>type, <1>3 DEF lease_ends
  <2>2. row'[d].attempts = row[d].attempts /\ row'[d].status = "pending"
    BY <1>type, <1>3 DEF lease_ends, Row
  <2>3. UNCHANGED <<hook, worker, redelivered>>
    BY <1>3 DEF lease_ends
  <2>4. CASE Undisturbed(d)
    <3>1. \A w \in Worker : ~InFlight(w, d)
      BY <1>3, <2>4 DEF lease_ends, CallsApart, Alone, Undisturbed
    <3> QED BY <2>1, <2>3, <3>1, ApartByRow
  <2>5. CASE ~Undisturbed(d)
    <3>1. ~Undisturbed(d)'
      BY <2>3, <2>5 DEF Undisturbed
    <3> QED BY <2>1, <2>2, <2>3, <3>1, ApartByRow
  <2> QED BY <2>4, <2>5
<1>4. ASSUME NEW d \in Delivery, redeliver(d) PROVE CallsApart'
  <2>1. \A e \in Delivery : e # d => row'[e] = row[e] /\ redelivered'[e] = redelivered[e]
    BY <1>type, <1>4 DEF redeliver
  <2>2. row'[d].attempts = row[d].attempts /\ row'[d].status # "absent"
    <3>1. PICK status \in {"pending", row[d].status} :
            row' = [row EXCEPT ![d].status = status, ![d].due = TRUE]
      BY <1>4 DEF redeliver
    <3>2. row[d].status # "absent" /\ row[d] \in Row
      BY <1>type, <1>4 DEF redeliver
    <3>3. row'[d] = [row[d] EXCEPT !.status = status, !.due = TRUE]
      BY <1>type, <3>1
    <3> QED BY <3>2, <3>3 DEF Row
  <2>3. redelivered'[d] # 0
    BY <1>type, <1>4, BoundsAssumption DEF redeliver
  <2>4. ~Undisturbed(d)' /\ UNCHANGED <<hook, worker>>
    BY <1>4, <2>3 DEF redeliver, Undisturbed
  <2> QED BY <2>1, <2>2, <2>3, <2>4, ApartByRow
<1>5. CASE patch_webhook
  <2>1. hook'.exists = hook.exists
    BY <1>type, <1>5 DEF patch_webhook, Hook
  <2> QED BY <1>5, <2>1, ApartByRow DEF patch_webhook
<1>6. CASE delete_webhook
  <2>1. ~hook'.exists
    BY <1>type, <1>6 DEF delete_webhook, Hook
  <2> QED BY <1>6, <2>1, ApartByRow DEF delete_webhook
<1>7. ASSUME NEW w \in Worker, NEW d \in Delivery, claim_delivery(w, d) PROVE CallsApart'
  <2>1. worker'[w] = At("claiming", d, 0, FALSE, hook)
    BY <1>type, <1>7 DEF claim_delivery
  <2>2. \A v \in Worker : v # w => worker'[v] = worker[v]
    BY <1>type, <1>7 DEF claim_delivery
  <2>3. \A v \in Worker, e \in Delivery :
          /\ InFlight(v, e)' => v # w /\ InFlight(v, e) /\ worker'[v].attempt = worker[v].attempt
          /\ Holds(v, e)' => Holds(v, e) \/ e = d
    BY <2>1, <2>2 DEF InFlight, Holds, At
  <2>4. UNCHANGED <<row, hook, redelivered>>
    BY <1>7 DEF claim_delivery
  <2>5. AttemptsDiffer'
    BY <2>3, <2>4 DEF CallsApart, AttemptsDiffer
  <2>6. Alone'
    <3> SUFFICES ASSUME NEW e \in Delivery, Undisturbed(e)', NEW v \in Worker, InFlight(v, e)'
                 PROVE  /\ row'[e].status = "pending" => ~row'[e].due
                        /\ worker'[v].attempt = row'[e].attempts
                        /\ \A u \in Worker : u # v => ~InFlight(u, e)' /\ ~Holds(u, e)'
      BY DEF Alone
    <3>1. Undisturbed(e) /\ InFlight(v, e)
      BY <2>3, <2>4 DEF Undisturbed
    <3>2. e # d
      BY <1>7, <3>1 DEF claim_delivery, CallsApart, Alone
    <3> QED BY <2>3, <2>4, <3>1, <3>2 DEF CallsApart, Alone
  <2> QED BY <2>5, <2>6 DEF CallsApart
<1>8. ASSUME NEW w \in Worker, claim_row(w) PROVE CallsApart'
  <2>0. PICK d \in Delivery : d = worker[w].delivery
    BY <1>8, BusyWorker DEF claim_row, Busy
  <2>1. d \in Delivery /\ row[d] \in Row
    BY <1>type
  <2>2. Holds(w, d) /\ row[d].status = "pending"
    BY <1>8, <2>0 DEF claim_row, LocksStand, Holds
  <2>3. /\ \A e \in Delivery : e # d => row'[e] = row[e]
        /\ UNCHANGED redelivered /\ hook'.exists = hook.exists
    BY <1>type, <1>8, <2>0 DEF claim_row, FinalFailure, Hook
  <2>4. CASE worker' = [worker EXCEPT ![w] = Idle] /\ row'[d].attempts = row[d].attempts
             /\ row'[d].status = "failed"
    BY <2>1, <2>2, <2>3, <2>4, ApartByHolder
  <2>5. CASE /\ row' = [row EXCEPT ![d] =
                  [row[d] EXCEPT !.attempts = @ + 1, !.due = FALSE, !.error = "sending"]]
             /\ worker' = [worker EXCEPT ![w] =
                  At("sending", d, row[d].attempts + 1, FALSE, NewHook)]
    <3>1. /\ row'[d].attempts = row[d].attempts + 1 /\ ~row'[d].due
          /\ row'[d].status = "pending" /\ row[d].attempts \in Nat
      BY <1>type, <2>1, <2>2, <2>5 DEF Row
    <3>2. worker'[w] = At("sending", d, row[d].attempts + 1, FALSE, NewHook)
      BY <1>type, <2>5
    <3>3. \A v \in Worker : v # w => worker'[v] = worker[v]
      BY <1>type, <2>5
    <3>4. InFlight(w, d)' /\ worker'[w].attempt = row[d].attempts + 1
      BY <3>2 DEF InFlight, At
    <3>5. \A v \in Worker, e \in Delivery :
            /\ InFlight(v, e)' => (v = w /\ e = d) \/ (v # w /\ InFlight(v, e))
            /\ Holds(v, e)' => v # w /\ Holds(v, e)
      BY <3>2, <3>3 DEF InFlight, Holds, At
    <3>6. \A v \in Worker, e \in Delivery : InFlight(v, e) => worker[v].attempt \in Nat
      <4> SUFFICES ASSUME NEW v \in Worker, NEW e \in Delivery, InFlight(v, e)
                   PROVE  worker[v].attempt \in Nat
        OBVIOUS
      <4>1. worker[v].step # "idle"
        BY DEF InFlight
      <4> QED BY <4>1, BusyWorker DEF Busy
    <3>7. AttemptsDiffer'
      <4> SUFFICES ASSUME hook.exists, NEW e \in Delivery
                   PROVE  /\ \A v \in Worker : InFlight(v, e)' =>
                               row'[e].status # "absent" /\ worker'[v].attempt <= row'[e].attempts
                          /\ \A u, v \in Worker : u # v /\ InFlight(u, e)' /\ InFlight(v, e)' =>
                               worker'[u].attempt # worker'[v].attempt
        BY <2>3 DEF AttemptsDiffer
      <4>1. CASE e # d
        BY <2>3, <3>3, <3>5, <4>1 DEF CallsApart, AttemptsDiffer
      <4>2. CASE e = d
        <5>1. \A v \in Worker : InFlight(v, d) => worker[v].attempt <= row[d].attempts
          BY <2>1 DEF CallsApart, AttemptsDiffer
        <5>2. \A v \in Worker : v # w /\ InFlight(v, d)' =>
                worker'[v].attempt < row[d].attempts + 1
          BY <2>1, <3>1, <3>3, <3>5, <3>6, <5>1
        <5>3. \A u, v \in Worker : u # w /\ v # w /\ u # v /\ InFlight(u, d)' /\ InFlight(v, d)' =>
                worker'[u].attempt # worker'[v].attempt
          BY <2>1, <3>3, <3>5 DEF CallsApart, AttemptsDiffer
        <5>4. \A v \in Worker : v # w /\ InFlight(v, d)' => worker'[v].attempt \in Nat
          BY <2>1, <3>3, <3>5, <3>6
        <5>5. \A v \in Worker : InFlight(v, d)' => worker'[v].attempt <= row'[d].attempts
          BY <3>1, <3>4, <5>2, <5>4
        <5>6. \A u, v \in Worker : u # v /\ InFlight(u, d)' /\ InFlight(v, d)' =>
                worker'[u].attempt # worker'[v].attempt
          BY <3>1, <3>4, <5>2, <5>3, <5>4
        <5> QED BY <3>1, <4>2, <5>5, <5>6
      <4> QED BY <4>1, <4>2
    <3>8. Alone'
      <4> SUFFICES ASSUME NEW e \in Delivery, Undisturbed(e)', NEW v \in Worker, InFlight(v, e)'
                   PROVE  /\ row'[e].status = "pending" => ~row'[e].due
                          /\ worker'[v].attempt = row'[e].attempts
                          /\ \A u \in Worker : u # v => ~InFlight(u, e)' /\ ~Holds(u, e)'
        BY DEF Alone
      <4>1. Undisturbed(e)
        BY <2>3 DEF Undisturbed
      <4>2. CASE e # d
        BY <2>3, <3>3, <3>5, <4>1, <4>2 DEF CallsApart, Alone
      <4>3. CASE e = d
        <5>1. \A u \in Worker : u # w => ~InFlight(u, d) /\ ~Holds(u, d)
          BY <2>1, <2>2, <4>1, <4>3 DEF CallsApart, Alone, LocksStand
        <5>2. v = w
          BY <2>1, <3>5, <4>3, <5>1
        <5> QED BY <2>1, <3>1, <3>4, <3>5, <4>3, <5>1, <5>2
      <4> QED BY <4>2, <4>3
    <3> QED BY <3>7, <3>8 DEF CallsApart
  <2>6. ASSUME NEW error,
               row' = [row EXCEPT ![d] =
                         [row[d] EXCEPT !.status = "failed", !.due = FALSE, !.error = error]]
        PROVE  row'[d].attempts = row[d].attempts /\ row'[d].status = "failed"
    BY <1>type, <2>1, <2>6 DEF Row
  <2> QED BY <1>8, <2>0, <2>4, <2>5, <2>6 DEF claim_row
<1>9. ASSUME NEW w \in Worker, send_claimed(w) PROVE CallsApart'
  <2>1. worker[w] \in Busy
    BY <1>9, BusyWorker DEF send_claimed
  <2>2. PICK ok \in BOOLEAN :
          worker' = [worker EXCEPT ![w] = [worker[w] EXCEPT !.step = "answered", !.ok = ok]]
    BY <1>9 DEF send_claimed
  <2> DEFINE b == [worker[w] EXCEPT !.step = "answered", !.ok = ok]
  <2>3. b.step = "answered" /\ b.delivery = worker[w].delivery /\ b.attempt = worker[w].attempt
    BY <2>1 DEF Busy
  <2>4. UNCHANGED <<row, hook, redelivered>> /\ worker[w].step = "sending"
    BY <1>9 DEF send_claimed
  <2> HIDE DEF b
  <2> QED BY <2>2, <2>3, <2>4, ApartByRun DEF b
<1>10. ASSUME NEW w \in Worker, apply_outcome(w) PROVE CallsApart'
  <2> DEFINE d == worker[w].delivery
             b == At("closing", d, worker[w].attempt, worker[w].ok, hook)
  <2>1. UNCHANGED <<row, hook, redelivered>> /\ worker[w].step = "answered"
    BY <1>10 DEF apply_outcome
  <2>2. b.step = "closing" /\ b.delivery = d /\ b.attempt = worker[w].attempt
    BY DEF At
  <2>3. CASE worker' = [worker EXCEPT ![w] = b]
    <3> HIDE DEF b
    <3> QED BY <2>1, <2>2, <2>3, ApartByRun
  <2>4. CASE worker' = [worker EXCEPT ![w] = Idle]
    BY <1>idle, <2>1, <2>4, ApartByRun
  <2>5. worker' = [worker EXCEPT ![w] = b] \/ worker' = [worker EXCEPT ![w] = Idle]
    BY <1>type, <1>10 DEF apply_outcome
  <2> QED BY <2>3, <2>4, <2>5
<1>11. ASSUME NEW w \in Worker, apply(w) PROVE CallsApart'
  <2> DEFINE d == worker[w].delivery
  <2>1. d \in Delivery /\ row[d] \in Row
    BY <1>type, <1>11, BusyWorker DEF apply, Busy
  <2>2. Holds(w, d)
    BY <1>11, <2>1 DEF apply, Holds
  <2>3. PICK s \in {"succeeded", "failed", "pending"}, error \in {"none", "error"} :
          row' = [row EXCEPT ![d] = [row[d] EXCEPT !.status = s, !.due = FALSE, !.error = error]]
    BY <1>11 DEF apply
  <2>4. row'[d].attempts = row[d].attempts /\ row'[d].status # "absent"
    BY <1>type, <2>1, <2>3 DEF Row
  <2>5. hook'.exists = hook.exists
    BY <1>type, <1>11 DEF apply, FinalFailure, Hook
  <2>6. worker' = [worker EXCEPT ![w] = Idle] /\ UNCHANGED redelivered
    BY <1>11 DEF apply
  <2>7. \A e \in Delivery : e # d => row'[e] = row[e]
    BY <1>type, <2>3
  <2> QED BY <2>1, <2>2, <2>4, <2>5, <2>6, <2>7, ApartByHolder
<1>12. ASSUME NEW w \in Worker, lose(w) PROVE CallsApart'
  BY <1>12, <1>idle, ApartByRun DEF lose
<1> QED
  BY <1>1, <1>2, <1>3, <1>4, <1>5, <1>6, <1>7, <1>8, <1>9, <1>10, <1>11, <1>12 DEF Next

\* Two runs never call the receiver for the same attempt, and without a
\* redelivery or an outlasted lease never for the same delivery: claim, lease and
\* attempt number stand in for the lock that is not held during the call.
THEOREM CallsAreExclusive == Spec => []OneCallAtATime
<1>1. Init => CallsApart
  BY DEF Init, CallsApart, AttemptsDiffer, Alone, InFlight, Idle
<1>2. TypeOK /\ CallsApart => OneCallAtATime
  <2> SUFFICES ASSUME TypeOK, CallsApart, hook.exists,
                      NEW d \in Delivery, NEW v \in Worker, NEW w \in Worker,
                      v # w, InFlight(v, d), InFlight(w, d)
               PROVE  /\ worker[v].attempt # worker[w].attempt
                      /\ SlowWorkers \/ redelivered[d] > 0
    BY DEF OneCallAtATime
  <2>1. ~Undisturbed(d)
    BY DEF CallsApart, Alone
  <2>2. redelivered[d] \in Nat
    BY BoundsAssumption DEF TypeOK
  <2> QED BY <2>1, <2>2 DEF CallsApart, AttemptsDiffer, Undisturbed
<1> QED BY <1>1, <1>2, ApartNext, TypeCorrect, LocksAlways, PTL DEF Spec
=============================================================================
