------------------------- MODULE WebhookEventsProofs -------------------------
(***************************************************************************)
(* Proofs about module WebhookEvents, for any events, runs, limit and      *)
(* overlap.                                                                *)
(***************************************************************************)
EXTENDS WebhookEvents, FiniteSetTheorems, TLAPS

-----------------------------------------------------------------------------
(* The inductive invariant.                                                *)

\* What has occurred lies in the past, and no transaction outlasts Longest.
Past ==
  \A e \in Event :
    /\ occurred[e] <= clock
    /\ e \in committed => occurred[e] # Never
    /\ Open(e) => clock <= occurred[e] + Longest

\* A moment up to which events count as read leaves e in the overlap.
Reaches(moment, e) == occurred[e] >= moment - Overlap

Waiting(e) == Subscribed(e) /\ e \notin delivered

WatermarkCovers ==
  hook.watermark # Never =>
    /\ hook.created # Never
    /\ hook.watermark <= clock
    /\ \A e \in Event : Waiting(e) => Reaches(hook.watermark, e)

\* The same of every watermark a run may still write; what it has read itself
\* it will queue.
RunsCover ==
  \A w \in Worker : run[w].busy =>
    /\ hook.created # Never
    /\ run[w].events \subseteq committed
    /\ \A f \in run[w].events : \A e \in Event :
         Waiting(e) => e \in run[w].events \/ Reaches(occurred[f], e)

IInv == TypeOK /\ Past /\ WatermarkCovers /\ RunsCover

\* What a run has read is committed, however long transactions last.
ReadsCommitted == \A w \in Worker : run[w].busy => run[w].events \subseteq committed

-----------------------------------------------------------------------------
(* The lookup.                                                             *)

\* What the limit cuts off comes after everything that was read.
LEMMA FirstOfIsFirst ==
  ASSUME TypeOK, NEW S \in SUBSET Event,
         NEW e \in S \ FirstOf(S), NEW f \in FirstOf(S)
  PROVE  ~Before(e, f)
<1>1. SUFFICES ASSUME Before(e, f) PROVE FALSE
  OBVIOUS
<1> DEFINE P(x) == {g \in S : Before(g, x)}
<1>2. e \in Event /\ f \in Event /\ f \in S
  BY DEF FirstOf
<1>3. P(e) \subseteq P(f)
  <2>1. SUFFICES ASSUME NEW g \in S, Before(g, e) PROVE Before(g, f)
    OBVIOUS
  <2>2. \A x \in {e, f, g} : x \in Nat /\ occurred[x] \in Int
    BY <1>2, EventAssumption DEF TypeOK, Time, Never
  <2>3. QED BY <1>1, <2>1, <2>2 DEF Before
<1>4. IsFiniteSet(P(f))
  <2>1. P(f) \subseteq Event
    OBVIOUS
  <2>2. QED BY <2>1, EventAssumption, FS_Subset
<1>5. Cardinality(P(e)) <= Cardinality(P(f)) /\ IsFiniteSet(P(e))
  BY <1>3, <1>4, FS_Subset
<1>6. Cardinality(P(e)) \in Nat /\ Cardinality(P(f)) \in Nat
  BY <1>4, <1>5, FS_CardinalityType
<1>7. Cardinality(P(f)) < Limit /\ ~(Cardinality(P(e)) < Limit)
  BY DEF FirstOf
<1>8. QED BY <1>5, <1>6, <1>7, LimitAssumption

LEMMA LookupRead ==
  Lookup \subseteq {e \in committed \ delivered : occurred[e] >= Since(hook)}
  BY DEF Lookup, FirstOf

\* An event that waits lies in the stretch that is looked up.
LEMMA WaitingIsInReach ==
  ASSUME TypeOK, WatermarkCovers, NEW e \in Event, Waiting(e)
  PROVE  occurred[e] >= Since(hook)
<1>1. hook \in Hook /\ occurred[e] \in Int
  BY DEF TypeOK, Time, Never
<1>2. hook.created \in Int /\ hook.watermark \in Int /\ Overlap \in Int
  BY <1>1, TimeAssumption DEF Hook, Time, Never
<1>3. QED
  BY <1>1, <1>2 DEF WatermarkCovers, Waiting, Reaches, Subscribed, Since, Larger

\* A lookup covers what waits: an event it does not return was cut off by the
\* limit, or its transaction is still open and as young as the overlap.
LEMMA LookupCovers ==
  ASSUME IInv, Longest <= Overlap, NEW e \in Event, Waiting(e), e \notin Lookup,
         NEW f \in Lookup
  PROVE  Reaches(occurred[f], e)
<1> DEFINE S == {g \in committed \ delivered : occurred[g] >= Since(hook)}
<1>1. f \in committed /\ f \in Event /\ f \in FirstOf(S) /\ S \in SUBSET Event
  BY LookupRead DEF IInv, TypeOK, Lookup
<1>2. /\ occurred[e] \in Int /\ occurred[f] \in Int /\ clock \in Int
      /\ Overlap \in Nat /\ Longest \in Nat
  BY <1>1, TimeAssumption DEF IInv, TypeOK, Time, Never
<1>3. CASE e \in committed
  <2>1. e \in S
    BY <1>3, WaitingIsInReach DEF IInv, Waiting
  <2>2. e \in S \ FirstOf(S)
    BY <2>1 DEF Lookup
  <2>3. ~Before(e, f)
    BY <1>1, <2>2, FirstOfIsFirst DEF IInv
  <2>4. QED BY <1>2, <2>3 DEF Before, Reaches
<1>4. CASE e \notin committed
  <2>1. occurred[e] # Never
    BY <1>2 DEF Waiting, Subscribed, IInv, TypeOK, Hook, Time, Never
  <2>2. clock <= occurred[e] + Longest /\ occurred[f] <= clock
    BY <1>1, <1>4, <2>1 DEF IInv, Past, Open
  <2>3. QED BY <1>2, <2>2 DEF Reaches
<1>5. QED BY <1>3, <1>4

-----------------------------------------------------------------------------
(* The invariant holds at the start and is kept by every step.             *)

LEMMA InitIInv == Init => IInv
<1> SUFFICES ASSUME Init PROVE IInv
  OBVIOUS
<1>2. TypeOK
  BY TimeAssumption, BoundsAssumption DEF Init, TypeOK, Hook, Time, Never, Idle
<1>3. Past
  BY DEF Init, Past, Open, Never
<1>4. WatermarkCovers /\ RunsCover
  BY DEF Init, WatermarkCovers, RunsCover, Idle
<1>5. QED BY <1>2, <1>3, <1>4 DEF IInv

LEMMA NextType == TypeOK /\ ReadsCommitted /\ [Next]_vars => TypeOK'
<1> SUFFICES ASSUME TypeOK, ReadsCommitted, [Next]_vars PROVE TypeOK'
  OBVIOUS
<1> USE DEF TypeOK
<1>2. CASE tick
  BY <1>2, TimeAssumption DEF tick, Time
<1>3. CASE create_webhook
  BY <1>3 DEF create_webhook, Hook
<1>4. CASE patch_webhook
  <2>1. hook' \in Hook
    BY <1>4 DEF patch_webhook, Hook
  <2>2. switched' \in 0..MaxSwitches
    BY <1>4, BoundsAssumption DEF patch_webhook
  <2>3. QED BY <1>4, <2>1, <2>2 DEF patch_webhook
<1>5. ASSUME NEW e \in Event, begin(e) PROVE TypeOK'
  BY <1>5 DEF begin
<1>6. ASSUME NEW e \in Event, emit(e) PROVE TypeOK'
  BY <1>6 DEF emit
<1>7. ASSUME NEW w \in Worker, enqueue_read(w) PROVE TypeOK'
  <2>1. Lookup \subseteq Event
    BY LookupRead
  <2>2. hook.watermark \in Time \cup {Never}
    BY DEF Hook
  <2>3. QED BY <1>7, <2>1, <2>2 DEF enqueue_read
<1>8. ASSUME NEW w \in Worker, enqueue_deliveries(w) PROVE TypeOK'
  <2>1. run[w].events \subseteq committed
    BY <1>8 DEF enqueue_deliveries, ReadsCommitted
  <2>2. hook' \in Hook
    <3>1. CASE hook' = hook
      BY <3>1
    <3>2. ASSUME NEW e \in run[w].events,
                 hook' = [hook EXCEPT !.watermark = occurred[e]]
          PROVE  hook' \in Hook
      BY <2>1, <3>2 DEF Hook
    <3>3. QED BY <1>8, <3>1, <3>2 DEF enqueue_deliveries, Watermark
  <2>3. run' \in [Worker -> [busy: BOOLEAN, events: SUBSET Event,
                             current: Time \cup {Never}]]
    BY <1>8 DEF enqueue_deliveries, Idle
  <2>4. QED BY <1>8, <2>1, <2>2, <2>3 DEF enqueue_deliveries
<1>9. ASSUME NEW w \in Worker, lose(w) PROVE TypeOK'
  BY <1>9, BoundsAssumption DEF lose, Idle
<1>10. CASE UNCHANGED vars
  BY <1>10 DEF vars
<1>11. QED
  BY <1>2, <1>3, <1>4, <1>5, <1>6, <1>7, <1>8, <1>9, <1>10 DEF Next

LEMMA NextReads == TypeOK /\ ReadsCommitted /\ [Next]_vars => ReadsCommitted'
<1> SUFFICES ASSUME TypeOK, ReadsCommitted, [Next]_vars PROVE ReadsCommitted'
  OBVIOUS
<1>1. run \in [Worker -> [busy: BOOLEAN, events: SUBSET Event, current: Time \cup {Never}]]
  BY DEF TypeOK
<1>2. ASSUME NEW w \in Worker, enqueue_read(w) PROVE ReadsCommitted'
  BY <1>1, <1>2, LookupRead DEF enqueue_read, ReadsCommitted
<1>3. ASSUME NEW w \in Worker, enqueue_deliveries(w) \/ lose(w) PROVE ReadsCommitted'
  BY <1>1, <1>3 DEF enqueue_deliveries, lose, Idle, ReadsCommitted
<1>4. ASSUME UNCHANGED run, committed \subseteq committed' PROVE ReadsCommitted'
  BY <1>4 DEF ReadsCommitted
<1> QED
  BY <1>2, <1>3, <1>4 DEF Next, vars, tick, begin, emit, create_webhook, patch_webhook

LEMMA NextPast == IInv /\ [Next]_vars => Past'
<1> SUFFICES ASSUME IInv, [Next]_vars PROVE Past'
  OBVIOUS
<1>2. \A e \in Event : occurred[e] \in Int /\ clock \in Nat /\ Longest \in Nat
  BY TimeAssumption DEF IInv, TypeOK, Time, Never
<1> USE <1>2 DEF IInv, Past, Open
<1>3. CASE tick
  BY <1>3 DEF tick
<1>4. ASSUME NEW e \in Event, begin(e) PROVE Past'
  BY <1>4 DEF begin, TypeOK, Never
<1>5. ASSUME NEW e \in Event, emit(e) PROVE Past'
  BY <1>5 DEF emit
<1>6. ASSUME clock' = clock, occurred' = occurred, committed' = committed PROVE Past'
  BY <1>6
<1>7. QED
  BY <1>3, <1>4, <1>5, <1>6
     DEF Next, vars, create_webhook, patch_webhook, enqueue_read, enqueue_deliveries, lose

\* A step that leaves the rows and the subscription alone, or pauses it.
LEMMA WaitingUnchanged ==
  ASSUME occurred' = occurred, delivered' = delivered, hook'.created = hook.created,
         NEW e \in Event
  PROVE  Waiting(e)' <=> Waiting(e)
  BY DEF Waiting, Subscribed

LEMMA NextWatermark == IInv /\ [Next]_vars => WatermarkCovers'
<1> SUFFICES ASSUME IInv, [Next]_vars PROVE WatermarkCovers'
  OBVIOUS
<1>1. /\ clock \in Nat /\ Overlap \in Nat
      /\ \A e \in Event : occurred[e] \in Int
      /\ hook \in Hook /\ hook.watermark \in Int /\ hook.created \in Int
  BY TimeAssumption DEF IInv, TypeOK, Hook, Time, Never
<1>2. ASSUME hook'.created = hook.created, hook'.watermark = hook.watermark,
             occurred' = occurred, delivered' = delivered, clock' \in Nat, clock <= clock'
      PROVE  WatermarkCovers'
  BY <1>1, <1>2, WaitingUnchanged DEF IInv, WatermarkCovers, Reaches
<1>3. CASE tick
  BY <1>1, <1>2, <1>3 DEF tick
<1>4. CASE create_webhook
  <2>1. hook.watermark = Never
    BY <1>4 DEF create_webhook, IInv, WatermarkCovers
  <2>2. hook'.watermark = Never
    BY <1>1, <1>4, <2>1 DEF create_webhook, Hook
  <2>3. QED BY <2>2 DEF WatermarkCovers
<1>5. CASE patch_webhook
  <2>1. hook'.created = hook.created /\ hook'.watermark = hook.watermark
    BY <1>1, <1>5 DEF patch_webhook, Hook
  <2>2. QED BY <1>1, <1>2, <1>5, <2>1 DEF patch_webhook
\* A transaction that begins is not older than any watermark.
<1>6. ASSUME NEW e \in Event, begin(e) PROVE WatermarkCovers'
  <2>1. \A f \in Event : occurred'[f] = IF f = e THEN clock ELSE occurred[f]
    BY <1>6 DEF begin, IInv, TypeOK
  <2>2. clock' = clock /\ hook' = hook /\ delivered' = delivered
    BY <1>6 DEF begin
  <2>3. QED
    BY <1>1, <2>1, <2>2 DEF IInv, WatermarkCovers, Waiting, Subscribed, Reaches
<1>7. ASSUME NEW e \in Event, emit(e) PROVE WatermarkCovers'
  BY <1>1, <1>2, <1>7 DEF emit
<1>8. ASSUME NEW w \in Worker, enqueue_read(w) PROVE WatermarkCovers'
  BY <1>1, <1>2, <1>8 DEF enqueue_read
\* The run queues what it read, and what it did not read is in reach.
<1>9. ASSUME NEW w \in Worker, enqueue_deliveries(w) PROVE WatermarkCovers'
  <2>1. clock' = clock /\ occurred' = occurred
    BY <1>9 DEF enqueue_deliveries
  <2>2. delivered' = delivered \cup (run[w].events \cap Matching)
    BY <1>9 DEF enqueue_deliveries
  <2>3. CASE hook' = hook
    BY <2>1, <2>2, <2>3 DEF IInv, WatermarkCovers, Waiting, Subscribed, Reaches
  <2>4. ASSUME NEW f \in run[w].events, hook' = [hook EXCEPT !.watermark = occurred[f]]
        PROVE  WatermarkCovers'
    <3>1. /\ hook'.created = hook.created /\ hook'.watermark = occurred[f]
          /\ run[w].busy /\ f \in Event
      BY <1>1, <1>9, <2>4 DEF enqueue_deliveries, Hook, IInv, TypeOK
    <3>2. hook.created # Never /\ occurred[f] <= clock
      BY <3>1 DEF IInv, RunsCover, Past
    <3>3. ASSUME NEW e \in Event, Waiting(e)' PROVE Reaches(occurred[f], e)
      <4>1. Waiting(e) /\ e \notin run[w].events
        BY <2>1, <2>2, <3>1, <3>3 DEF Waiting, Subscribed
      <4>2. QED BY <3>1, <4>1 DEF IInv, RunsCover
    <3>4. QED BY <2>1, <3>1, <3>2, <3>3 DEF WatermarkCovers, Reaches
  <2>5. QED BY <1>9, <2>3, <2>4 DEF enqueue_deliveries, Watermark
<1>10. ASSUME NEW w \in Worker, lose(w) PROVE WatermarkCovers'
  BY <1>1, <1>2, <1>10 DEF lose
<1>11. CASE UNCHANGED vars
  BY <1>1, <1>2, <1>11 DEF vars
<1>12. QED
  BY <1>3, <1>4, <1>5, <1>6, <1>7, <1>8, <1>9, <1>10, <1>11 DEF Next

\* A run that has read keeps its hold while the rest moves on.
LEMMA RunKept ==
  ASSUME IInv, hook'.created = hook.created, delivered \subseteq delivered',
         committed \subseteq committed', occurred' = occurred,
         NEW w \in Worker, run'[w] = run[w], run[w].busy
  PROVE  /\ hook'.created # Never
         /\ run'[w].events \subseteq committed'
         /\ \A f \in run'[w].events : \A e \in Event :
              Waiting(e)' => e \in run'[w].events \/ Reaches(occurred[f], e)'
  BY DEF IInv, RunsCover, Waiting, Subscribed, Reaches

LEMMA NextRuns ==
  ASSUME IInv, [Next]_vars, Longest <= Overlap
  PROVE  RunsCover'
<1>1. hook \in Hook /\ run \in [Worker -> [busy: BOOLEAN, events: SUBSET Event,
                                           current: Time \cup {Never}]]
  BY DEF IInv, TypeOK
<1>2. ASSUME hook'.created = hook.created, delivered \subseteq delivered',
             committed \subseteq committed', occurred' = occurred,
             \A w \in Worker : run'[w].busy => run'[w] = run[w]
      PROVE  RunsCover'
  BY <1>2, RunKept DEF RunsCover
<1>3. CASE tick
  BY <1>2, <1>3 DEF tick
<1>4. CASE create_webhook
  BY <1>4 DEF create_webhook, IInv, RunsCover
<1>5. CASE patch_webhook
  <2>1. hook'.created = hook.created
    BY <1>1, <1>5 DEF patch_webhook, Hook
  <2>2. QED BY <1>2, <1>5, <2>1 DEF patch_webhook
\* A transaction that begins now is younger than everything a run has read.
<1>6. ASSUME NEW e \in Event, begin(e) PROVE RunsCover'
  <2>1. \A f \in Event : occurred'[f] = IF f = e THEN clock ELSE occurred[f]
    BY <1>6 DEF begin, IInv, TypeOK
  <2>2. committed' = committed /\ hook' = hook /\ delivered' = delivered /\ run' = run
    BY <1>6 DEF begin
  <2>3. e \notin committed
    BY <1>6 DEF begin, IInv, Past
  <2>4. ASSUME NEW w \in Worker, run[w].busy, NEW f \in run[w].events,
               NEW g \in Event, Waiting(g)'
        PROVE  g \in run[w].events \/ Reaches(occurred[f], g)'
    <3>1. f \in committed /\ f \in Event /\ f # e
      BY <2>3, <2>4 DEF IInv, RunsCover, TypeOK
    <3>2. occurred'[f] = occurred[f] /\ occurred[f] <= clock
      BY <2>1, <3>1 DEF IInv, Past
    <3>3. CASE g = e
      <4>1. clock \in Nat /\ Overlap \in Nat /\ occurred[f] \in Int
        BY <3>1, TimeAssumption DEF IInv, TypeOK, Time, Never
      <4>2. QED BY <2>1, <3>2, <3>3, <4>1 DEF Reaches
    <3>4. CASE g # e
      <4>1. Waiting(g) /\ occurred'[g] = occurred[g]
        BY <2>1, <2>2, <2>4, <3>4 DEF Waiting, Subscribed
      <4>2. g \in run[w].events \/ Reaches(occurred[f], g)
        BY <2>4, <4>1 DEF IInv, RunsCover
      <4>3. QED BY <3>2, <4>1, <4>2 DEF Reaches
    <3>5. QED BY <3>3, <3>4
  <2>5. QED BY <2>2, <2>4 DEF IInv, RunsCover
<1>7. ASSUME NEW e \in Event, emit(e) PROVE RunsCover'
  BY <1>2, <1>7 DEF emit
<1>8. ASSUME NEW w \in Worker, enqueue_read(w) PROVE RunsCover'
  <2>1. /\ committed' = committed /\ hook' = hook /\ delivered' = delivered
        /\ occurred' = occurred
    BY <1>8 DEF enqueue_read
  <2>2. \A v \in Worker : v # w => run'[v] = run[v]
    BY <1>1, <1>8 DEF enqueue_read
  <2>3. hook.created # Never /\ run'[w].events = Lookup
    BY <1>1, <1>8 DEF enqueue_read
  <2>4. ASSUME NEW f \in Lookup, NEW e \in Event, Waiting(e)'
        PROVE  e \in Lookup \/ Reaches(occurred[f], e)'
    <3>1. Waiting(e)
      BY <2>1, <2>4 DEF Waiting, Subscribed
    <3>2. e \in Lookup \/ Reaches(occurred[f], e)
      BY <1>8, <3>1, LookupCovers
    <3>3. QED BY <2>1, <3>2 DEF Reaches
  <2>5. ASSUME NEW v \in Worker, v # w, run'[v].busy
        PROVE  /\ hook'.created # Never
               /\ run'[v].events \subseteq committed'
               /\ \A f \in run'[v].events : \A e \in Event :
                    Waiting(e)' => e \in run'[v].events \/ Reaches(occurred[f], e)'
    BY <2>1, <2>2, <2>5, RunKept
  <2>6. Lookup \subseteq committed
    BY LookupRead
  <2>7. QED BY <2>1, <2>3, <2>4, <2>5, <2>6 DEF RunsCover
<1>9. ASSUME NEW w \in Worker, enqueue_deliveries(w) PROVE RunsCover'
  <2>1. hook'.created = hook.created
    BY <1>1, <1>9 DEF enqueue_deliveries, Hook
  <2>2. \A v \in Worker : run'[v].busy => run'[v] = run[v]
    BY <1>1, <1>9 DEF enqueue_deliveries, Idle
  <2>3. QED BY <1>2, <1>9, <2>1, <2>2 DEF enqueue_deliveries
<1>10. ASSUME NEW w \in Worker, lose(w) PROVE RunsCover'
  <2>1. \A v \in Worker : run'[v].busy => run'[v] = run[v]
    BY <1>1, <1>10 DEF lose, Idle
  <2>2. QED BY <1>2, <1>10, <2>1 DEF lose
<1>11. CASE UNCHANGED vars
  BY <1>2, <1>11 DEF vars
<1>12. QED
  BY <1>3, <1>4, <1>5, <1>6, <1>7, <1>8, <1>9, <1>10, <1>11 DEF Next

-----------------------------------------------------------------------------
(* Theorems.                                                               *)

\* Subscription, deliveries and what runs have read stay in their ranges, however
\* long transactions last and whatever the limit and the overlap.
THEOREM TypeCorrect == Spec => []TypeOK
<1>1. Init => TypeOK /\ ReadsCommitted
  BY InitIInv DEF IInv, RunsCover, ReadsCommitted
<1> QED BY <1>1, NextType, NextReads, PTL DEF Spec

\* The inductive invariant of enqueue_deliveries: types, the past, and what the
\* watermark and the watermarks runs may still write leave in reach.  It holds when no transaction outlasts the overlap.
THEOREM InvariantHolds ==
  ASSUME Longest <= Overlap
  PROVE  Spec => []IInv
<1>1. Init => IInv
  BY InitIInv
<1>2. IInv => ReadsCommitted
  BY DEF IInv, RunsCover, ReadsCommitted
<1>4. IInv /\ [Next]_vars => IInv'
  BY <1>2, NextType, NextPast, NextWatermark, NextRuns DEF IInv
<1>3. QED BY <1>1, <1>4, PTL DEF Spec

\* While no transaction lasts longer than the overlap, enqueue_deliveries never
\* moves the watermark past an event it will not find again: every event of a
\* subscribed type that has no delivery yet, also one still uncommitted, lies in
\* the stretch of the next lookup.
THEOREM WatermarkCorrect ==
  ASSUME Longest <= Overlap
  PROVE  Spec => []NothingLeftBehind
<1>1. IInv => NothingLeftBehind
  BY WaitingIsInReach DEF IInv, NothingLeftBehind, Waiting
<1>2. QED BY <1>1, InvariantHolds, PTL
=============================================================================
