---------------------------- MODULE WebhookEvents ----------------------------
(***************************************************************************)
(* How domain events become deliveries of one webhook subscription         *)
(* (core/webhooks.py, enqueue_deliveries).  An event carries the start of  *)
(* its transaction as occurred_at and becomes visible at its commit.  Runs *)
(* of the minute job, which may overlap, look the events up from a         *)
(* watermark minus an overlap, at most Limit of them in the order of       *)
(* occurred_at and id, and move the watermark to the newest one read.      *)
(***************************************************************************)
EXTENDS Integers, FiniteSets

CONSTANTS
  Event,      \* events, as numbers: the order of their ids
  Matching,   \* those of a type the subscription names
  Worker,     \* concurrent runs of the minute job
  Limit,      \* ENQUEUE_BATCH_LIMIT
  Overlap,    \* ENQUEUE_OVERLAP
  Longest,    \* longest transaction that writes an event
  MaxTime,    \* bound: the clock
  MaxLost,    \* bound: lost runs
  MaxSwitches \* bound: changes of "active"

ASSUME EventAssumption == Event \subseteq Nat /\ IsFiniteSet(Event) /\ Matching \subseteq Event
ASSUME LimitAssumption == Limit \in Nat \ {0}
ASSUME TimeAssumption == Overlap \in Nat /\ Longest \in Nat /\ MaxTime \in Nat
ASSUME BoundsAssumption == MaxLost \in Nat /\ MaxSwitches \in Nat

VARIABLES
  clock,
  occurred,   \* occurred_at, by event; Never before its transaction starts
  committed,  \* the events whose transaction has committed
  hook,       \* the subscription: created_at, active, watermark_occurred_at
  delivered,  \* the events with a delivery row
  run,        \* what each run has read
  lost, switched

vars == <<clock, occurred, committed, hook, delivered, run, lost, switched>>

Never == -1
Time == 0..MaxTime
Hook == [created: Time \cup {Never}, active: BOOLEAN, watermark: Time \cup {Never}]
Idle == [busy |-> FALSE, events |-> {}, current |-> Never]

Init ==
  /\ clock = 0
  /\ occurred = [e \in Event |-> Never]
  /\ committed = {} /\ delivered = {}
  /\ hook = [created |-> Never, active |-> FALSE, watermark |-> Never]
  /\ run = [w \in Worker |-> Idle]
  /\ lost = 0 /\ switched = 0

TypeOK ==
  /\ clock \in Time
  /\ occurred \in [Event -> Time \cup {Never}]
  /\ committed \subseteq Event /\ delivered \subseteq Matching \cap committed
  /\ hook \in Hook
  /\ run \in [Worker -> [busy: BOOLEAN, events: SUBSET Event, current: Time \cup {Never}]]
  /\ lost \in 0..MaxLost /\ switched \in 0..MaxSwitches

-----------------------------------------------------------------------------
(* Time and the transactions that write events.                            *)

Open(e) == occurred[e] # Never /\ e \notin committed

\* Time does not pass a transaction that has reached its longest duration.
tick ==
  /\ clock < MaxTime
  /\ \A e \in Event : Open(e) => clock < occurred[e] + Longest
  /\ clock' = clock + 1
  /\ UNCHANGED <<occurred, committed, hook, delivered, run, lost, switched>>

begin(e) ==
  /\ occurred[e] = Never
  /\ occurred' = [occurred EXCEPT ![e] = clock]
  /\ UNCHANGED <<clock, committed, hook, delivered, run, lost, switched>>

emit(e) ==
  /\ Open(e)
  /\ committed' = committed \cup {e}
  /\ UNCHANGED <<clock, occurred, hook, delivered, run, lost, switched>>

create_webhook ==
  /\ hook.created = Never
  /\ hook' = [hook EXCEPT !.created = clock, !.active = TRUE]
  /\ UNCHANGED <<clock, occurred, committed, delivered, run, lost, switched>>

patch_webhook ==
  /\ hook.created # Never /\ switched < MaxSwitches
  /\ hook' = [hook EXCEPT !.active = ~@]
  /\ switched' = switched + 1
  /\ UNCHANGED <<clock, occurred, committed, delivered, run, lost>>

-----------------------------------------------------------------------------
(* The run of the minute job: one transaction per tenant.                  *)

Larger(a, b) == IF a >= b THEN a ELSE b

WithoutOverlap(h) == Larger(h.created, h.watermark)           \* mutant
Since(h) == IF h.watermark = Never THEN h.created
            ELSE Larger(h.created, h.watermark - Overlap)

\* The order of the lookup.
Before(e, f) == occurred[e] < occurred[f] \/ (occurred[e] = occurred[f] /\ e < f)

NewestOf(S) == {e \in S : Cardinality({f \in S : Before(e, f)}) < Limit}   \* mutant
FirstOf(S) == {e \in S : Cardinality({f \in S : Before(f, e)}) < Limit}

\* Events that already have a delivery are left out of the lookup; the others,
\* matching or not, count towards the limit.
Lookup == FirstOf({e \in committed \ delivered : occurred[e] >= Since(hook)})

enqueue_read(w) ==
  /\ ~run[w].busy /\ hook.created # Never /\ hook.active
  /\ run' = [run EXCEPT ![w] = [busy |-> TRUE, events |-> Lookup, current |-> hook.watermark]]
  /\ UNCHANGED <<clock, occurred, committed, hook, delivered, lost, switched>>

NewestRead(w, e) == e \in run[w].events /\ ~\E f \in run[w].events : Before(e, f)

NextMoment(e) == occurred[e] + 1                              \* mutant
Watermark(e) == occurred[e]

\* Deliveries for the matching ones; the watermark moves on when the newest event
\* read is later than the one the run has loaded.
enqueue_deliveries(w) ==
  /\ run[w].busy
  /\ delivered' = delivered \cup (run[w].events \cap Matching)
  /\ \/ /\ run[w].events = {}
        /\ hook' = hook
     \/ \E e \in run[w].events :
          /\ NewestRead(w, e)
          /\ hook' = IF Watermark(e) > run[w].current
                     THEN [hook EXCEPT !.watermark = Watermark(e)] ELSE hook
  /\ run' = [run EXCEPT ![w] = Idle]
  /\ UNCHANGED <<clock, occurred, committed, lost, switched>>

\* The run is killed or its transaction fails; it is rolled back.
lose(w) ==
  /\ run[w].busy /\ lost < MaxLost
  /\ run' = [run EXCEPT ![w] = Idle]
  /\ lost' = lost + 1
  /\ UNCHANGED <<clock, occurred, committed, hook, delivered, switched>>

Next ==
  \/ tick \/ create_webhook \/ patch_webhook
  \/ \E e \in Event : begin(e) \/ emit(e)
  \/ \E w \in Worker : enqueue_read(w) \/ enqueue_deliveries(w) \/ lose(w)

Spec == Init /\ [][Next]_vars

\* The beat starts a run every minute, and a run comes to its end.
FairSpec ==
  Spec /\ \A w \in Worker : WF_vars(enqueue_read(w)) /\ WF_vars(enqueue_deliveries(w))

-----------------------------------------------------------------------------
(* Properties.                                                             *)

Subscribed(e) == e \in Matching /\ hook.created # Never /\ occurred[e] >= hook.created

(***************************************************************************)
(* The watermark never leaves an event behind: one that is not yet queued, *)
(* also one whose transaction is still open, lies in the stretch the next  *)
(* lookup reads.  Overlapping runs, a watermark that goes back, the limit  *)
(* and a pause of the subscription change nothing about it, as long as no  *)
(* transaction lasts longer than the overlap.                              *)
(***************************************************************************)
NothingLeftBehind ==
  \A e \in Event : Subscribed(e) /\ e \notin delivered => occurred[e] >= Since(hook)

(***************************************************************************)
(* A committed event of a subscribed type gets its delivery, or the        *)
(* subscription is paused.                                                 *)
(***************************************************************************)
MatchingEventsAreQueued ==
  \A e \in Event : (Subscribed(e) /\ e \in committed) ~> (e \in delivered \/ ~hook.active)
=============================================================================
