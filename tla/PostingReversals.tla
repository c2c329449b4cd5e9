-------------------------- MODULE PostingReversals --------------------------
(***************************************************************************)
(* How a reversal in the ledger reaches the bank side: bank transactions   *)
(* are imported and posted by a person or, under a rule, by the runner,    *)
(* postings are reversed in the journal or corrected from the transaction, *)
(* and a job reads the event journal_entry.reversed behind a watermark,    *)
(* counts the reversal against the rule, closes the review and opens the   *)
(* transaction again (banking/matching.py, runner.py, review.py,           *)
(* events_consumer.py, learning.py).                                       *)
(* Runs of the job exclude each other by a lock in Redis, which they do    *)
(* without while Redis is away (core/task_policy.py).                      *)
(*                                                                         *)
(* A row that an open database transaction has written is locked until     *)
(* that transaction commits; what it has written is published then.        *)
(***************************************************************************)
EXTENDS Integers, FiniteSets

CONSTANTS
  Transaction,  \* bank transactions
  Early,        \* those imported before the others
  Group,        \* Group[t]: t, and the other half if t belongs to a transfer between own accounts
  Entry,        \* journal entries a booking may create; also the order of event ids
  Automatic,    \* those the runner creates
  Reviewed,     \* those of them that get a review item: daily, or drawn for the sample
  Run,          \* runs of the job that may be under way
  Lag,          \* PROCESS_LAG, in units of the clock
  BatchLimit,   \* BATCH_LIMIT
  Longest,      \* bound: how long a reversing database transaction may last
  LastMoment,   \* bound: where the clock stops
  MaxFaults     \* bound: unlocked and killed runs, failing events and failing releases

NoEntry == 0

ASSUME ReversalsAssumption ==
  /\ Group \in [Transaction -> SUBSET Transaction]
  /\ \A t \in Transaction : t \in Group[t] /\ \A s \in Group[t] : Group[s] = Group[t]
  /\ Entry \subseteq Nat \ {0} /\ IsFiniteSet(Entry)
  /\ Automatic \subseteq Entry /\ Reviewed \subseteq Automatic
  /\ Lag \in Nat /\ BatchLimit \in Nat \ {0} /\ Longest \in Nat
  /\ LastMoment \in Nat /\ Lag <= LastMoment /\ MaxFaults \in Nat

Moment == Lag..LastMoment
Reason == {"automation_error", "other"}

VARIABLES
  now,
  bank,        \* bank[t]: status and the entry it carries, or carried
  moves,       \* moves[e]: the transactions whose bank accounts e moves
  entry,       \* entry[e]: "unused", "posted" or "reversed"
  reversal,    \* reversal[e]: the database transaction reversing e, and its event
  review,      \* review[e]: the review item: none, open, or closed with some outcome
  example,     \* example[e]: counter examples written for the decision that booked e
  rule,        \* the rule: state and number of contradictions
  runner,      \* database transaction of the runner: the transaction it has chosen, and
               \* made[t], the entry it has posted for t
  watermark,   \* position of the job: time and id of the last event read
  lock,        \* the task lock: free, held, or left behind until its time to live ends
  job,         \* job[r]: a run, what it has read, and what it will commit
  fate,        \* fate[e]: what became of the event (history variable)
  faults, unlocked  \* faults so far; whether a run ever went without the lock

userVars == <<bank, moves, entry, review>>
jobVars  == <<watermark, lock, job, fate, faults, unlocked>>
vars == <<now, userVars, reversal, example, rule, runner, jobVars>>

NoRun == [chosen |-> {}, made |-> [t \in Transaction |-> NoEntry]]
NoReversal == [status |-> "none", at |-> Lag, reason |-> "other", of |-> FALSE, late |-> FALSE]
Idle == [status |-> "idle", locked |-> FALSE, todo |-> {}, last |-> NoEntry, event |-> NoEntry,
         seen |-> FALSE, fresh |-> {}, reopened |-> {}, failed |-> {}, handled |-> {}]

JobRow == [status : {"idle", "handling", "looked"}, locked : BOOLEAN,
           todo : SUBSET Entry, last : Entry \cup {NoEntry}, event : Entry \cup {NoEntry},
           seen : BOOLEAN, fresh : SUBSET Entry, reopened : SUBSET Transaction,
           failed : SUBSET Entry, handled : SUBSET Entry]

TypeOK ==
  /\ now \in Moment
  /\ bank \in [Transaction ->
                [status : {"absent", "new", "booked"}, entry : Entry \cup {NoEntry}]]
  /\ moves \in [Entry -> SUBSET Transaction]
  /\ entry \in [Entry -> {"unused", "posted", "reversed"}]
  /\ reversal \in [Entry -> [status : {"none", "open", "committed"}, at : Moment,
                             reason : Reason, of : BOOLEAN, late : BOOLEAN]]
  /\ review \in [Entry -> {"none", "open", "closed"}]
  /\ example \in [Entry -> Nat]
  /\ rule \in [state : {"approved", "active", "disabled"}, contradictions : Nat]
  /\ runner \in [chosen : SUBSET Transaction,
                 made : [Transaction -> Automatic \cup {NoEntry}]]
  /\ watermark \in [at : -1..LastMoment, last : Entry \cup {NoEntry}]
  /\ lock \in {"free", "held", "left"}
  /\ job \in [Run -> JobRow]
  /\ fate \in [Entry -> {"pending", "handled", "failed", "history"}]
  /\ faults \in 0..MaxFaults /\ unlocked \in BOOLEAN

Init ==
  /\ now = Lag
  /\ bank = [t \in Transaction |->
             [status |-> IF t \in Early THEN "new" ELSE "absent", entry |-> NoEntry]]
  /\ moves = [e \in Entry |-> {}]
  /\ entry = [e \in Entry |-> "unused"]
  /\ reversal = [e \in Entry |-> NoReversal]
  /\ review = [e \in Entry |-> "none"]
  /\ example = [e \in Entry |-> 0]
  /\ rule = [state |-> "active", contradictions |-> 0]
  /\ runner = NoRun
  /\ watermark = [at |-> -1, last |-> NoEntry]
  /\ lock = "free"
  /\ job = [r \in Run |-> Idle]
  /\ fate = [e \in Entry |-> "pending"]
  /\ faults = 0 /\ unlocked = FALSE

-----------------------------------------------------------------------------
(* Locks *)

InForce(t) == bank[t].entry # NoEntry /\ entry[bank[t].entry] = "posted"
Carriers(e) == {t \in Transaction : bank[t].entry = e /\ bank[t].status = "booked"}
ChargedForErrors(r) ==                                \* mutant of Charged
  {e \in job[r].fresh \cap Reviewed : reversal[e].reason = "automation_error"}
Charged(r) == job[r].fresh \cap Reviewed

Made == {t \in Transaction : runner.made[t] # NoEntry}

\* A correction holds the transactions of its pair and the review it closes; the runner the
\* pairs it has chosen and posted; the job what it will open again.
Correcting(e) == reversal[e].status = "open" /\ reversal[e].of
HeldByPerson(t) == \E s \in Group[t] : bank[s].entry # NoEntry /\ Correcting(bank[s].entry)
HeldByRunner(t) == Group[t] \cap (runner.chosen \cup Made) # {}
HeldByJob(t) == \E r \in Run : t \in job[r].reopened

\* matching.lock_for_booking: both halves of a pair, once nobody else holds them.
BankFreeUnlocked(S) == \A t \in S : ~HeldByPerson(t) /\ ~HeldByRunner(t)  \* mutant of BankFree
BankFree(S) == \A t \in S : ~HeldByPerson(t) /\ ~HeldByRunner(t) /\ ~HeldByJob(t)

\* The rule is held by a run that has charged it, and by a runner that has posted under it.
ChargedByJob == \E r \in Run : Charged(r) # {}
RuleFree == ~ChargedByJob /\ Made = {}

\* Run r waits for rows of another run that it needs to handle its event.
WaitsFor(r, q) ==
  /\ q # r
  /\ \/ job[q].reopened \cap Carriers(job[r].event) # {}
     \/ ~job[r].seen /\ job[r].event \in Reviewed /\ Charged(q) # {}

\* It waits for a correction and for the runner as well.
Blocked(r) ==
  \/ \E q \in Run : WaitsFor(r, q)
  \/ \E t \in Carriers(job[r].event) : HeldByPerson(t) \/ HeldByRunner(t)
  \/ ~job[r].seen /\ job[r].event \in Reviewed /\ Made # {}

-----------------------------------------------------------------------------
(* Bank transactions, persons, and the runner *)

\* services.pair_transfer: a transaction is linked with its other half when it is imported,
\* even if that is booked already.
Import(t) ==
  /\ bank[t].status = "absent" /\ BankFree(Group[t])
  /\ bank' = [bank EXCEPT ![t].status = "new"]
  /\ UNCHANGED <<now, moves, entry, review, reversal, example, rule, runner, jobVars>>

\* matching._transfer_partner and book_payment, after entry e (if any) is reversed: t takes a
\* posting if it carries none in force, and none of its other half moves its bank account. If
\* the other half is booked elsewhere, t is booked alone; otherwise one posting settles both.
Imported(S) == {s \in S : bank[s].status # "absent"}
Stands(s, e) == InForce(s) /\ bank[s].entry # e
Bookable(t, e) ==
  /\ bank[t].status # "absent" /\ ~Stands(t, e)
  /\ \A s \in Group[t] : Stands(s, e) => t \notin moves[bank[s].entry]
Settled(t, e) == IF \E s \in Group[t] : Stands(s, e) THEN {t} ELSE Imported(Group[t])

\* Before the other half is known, the counter account may be its bank account.
Moved(t, e) == {Settled(t, e)} \cup IF Imported(Group[t]) = {t} THEN {Group[t]} ELSE {}
Carry(S, e) == [s \in Transaction |-> IF s \in S THEN [status |-> "booked", entry |-> e]
                                      ELSE bank[s]]

Book(t, e) ==
  /\ entry[e] = "unused" /\ e \notin Automatic
  /\ BankFree(Group[t]) /\ Bookable(t, NoEntry)
  /\ bank' = Carry(Settled(t, NoEntry), e)
  /\ \E M \in Moved(t, NoEntry) : moves' = [moves EXCEPT ![e] = M]
  /\ entry' = [entry EXCEPT ![e] = "posted"]
  /\ UNCHANGED <<now, review, reversal, example, rule, runner, jobVars>>

\* runner.run_for_tenant, one run at a time: an open transaction is locked and the active rules
\* are read without a lock. (One that is passed over stays locked to the end of the run; here
\* its lock ends at once, which leaves the others more to do.)
RunnerChoose(t) ==
  /\ runner.chosen = {} /\ bank[t].status = "new" /\ t \notin Made
  /\ \A s \in Group[t] : ~HeldByPerson(s) /\ ~HeldByJob(s)
  /\ rule.state = "active"
  /\ runner' = [runner EXCEPT !.chosen = {t}]
  /\ UNCHANGED <<now, userVars, reversal, example, rule, jobVars>>

\* The rule read is used, and its row locked by the count of its hits. A half whose other half
\* is booked elsewhere is refused: a rule books a transfer against the partner only.
RunnerPost(t, e) ==
  /\ runner.chosen = {t} /\ e \in Automatic /\ entry[e] = "unused"
  /\ \A s \in Transaction : runner.made[s] # e
  /\ \A s \in Group[t] : ~InForce(s)
  /\ ~ChargedByJob
  /\ runner' = [chosen |-> {},
                made |-> [s \in Transaction |-> IF s \in Imported(Group[t]) THEN e
                                                ELSE runner.made[s]]]
  /\ UNCHANGED <<now, userVars, reversal, example, rule, jobVars>>

\* What is refused is rolled back to its savepoint.
RunnerRefuse ==
  /\ runner.chosen # {} /\ runner' = [runner EXCEPT !.chosen = {}]
  /\ UNCHANGED <<now, userVars, reversal, example, rule, jobVars>>

RunnerCommit ==
  LET new == {runner.made[t] : t \in Made} IN
  /\ runner.chosen = {} /\ Made # {} /\ runner' = NoRun
  /\ bank' = [t \in Transaction |-> IF t \in Made
                THEN [status |-> "booked", entry |-> runner.made[t]] ELSE bank[t]]
  /\ moves' = [e \in Entry |-> IF e \in new THEN {t \in Made : runner.made[t] = e} ELSE moves[e]]
  /\ entry' = [e \in Entry |-> IF e \in new THEN "posted" ELSE entry[e]]
  /\ review' = [e \in Entry |-> IF e \in new \cap Reviewed THEN "open" ELSE review[e]]
  /\ UNCHANGED <<now, reversal, example, rule, jobVars>>

RunnerRollback ==
  /\ runner # NoRun /\ runner' = NoRun
  /\ UNCHANGED <<now, userVars, reversal, example, rule, jobVars>>

\* The event carries the time its transaction began and is visible when that commits. A
\* reversal begins early enough for its event to pass the lag before the clock stops.
Begin(e, reason, of) ==
  /\ entry[e] = "posted" /\ reversal[e].status = "none"
  /\ now + Lag <= LastMoment
  /\ reason = "automation_error" => e \in Automatic   \* on any other entry it has no effect
  /\ reversal' = [reversal EXCEPT ![e] = [status |-> "open", at |-> now, reason |-> reason,
                                          of |-> of, late |-> FALSE]]
  /\ UNCHANGED <<now, userVars, example, rule, runner, jobVars>>

\* POST .../entries/{id}/reverse: the entry only; what carried it stays booked.
BeginReverse(e, reason) == Begin(e, reason, FALSE)

\* review.correct: reversal, review and new posting in one database transaction.
BeginCorrect(t, reason) ==
  /\ InForce(t) /\ BankFree(Group[t])
  /\ Begin(bank[t].entry, reason, TRUE)

Publish(e) ==
  reversal' = [reversal EXCEPT ![e].status = "committed", ![e].of = FALSE,
                               ![e].late = now - reversal[e].at >= Lag]

CommitReverse(e) ==
  /\ reversal[e].status = "open" /\ ~reversal[e].of
  /\ Publish(e)
  /\ entry' = [entry EXCEPT ![e] = "reversed"]
  /\ UNCHANGED <<now, bank, moves, review, example, rule, runner, jobVars>>

CommitCorrect(e, new) ==
  /\ Correcting(e) /\ entry[new] = "unused" /\ new \notin Automatic
  /\ Publish(e)
  /\ entry' = [entry EXCEPT ![e] = "reversed", ![new] = "posted"]
  /\ review' = [review EXCEPT ![e] = IF @ = "open" THEN "closed" ELSE @]
  /\ \E t \in Transaction :
       /\ bank[t].entry = e /\ Bookable(t, e)
       /\ bank' = Carry(Settled(t, e), new)
       /\ \E M \in Moved(t, e) : moves' = [moves EXCEPT ![new] = M]
  /\ UNCHANGED <<now, example, rule, runner, jobVars>>

\* The database transaction is rolled back, its event with it.
Rollback(e) ==
  /\ reversal[e].status = "open"
  /\ reversal' = [reversal EXCEPT ![e] = NoReversal]
  /\ UNCHANGED <<now, userVars, example, rule, runner, jobVars>>

\* review.decide: an item is closed once, as ok if its posting stands and else as corrected or
\* cancelled.
Decide(e) ==
  /\ review[e] = "open" /\ ~Correcting(e) /\ \A r \in Run : e \notin Charged(r)
  /\ review' = [review EXCEPT ![e] = "closed"]
  /\ UNCHANGED <<now, bank, moves, entry, reversal, example, rule, runner, jobVars>>

\* routers._rule locks the rule before its state is checked.
Activate ==
  /\ RuleFree /\ rule.state = "approved" /\ rule' = [rule EXCEPT !.state = "active"]
  /\ UNCHANGED <<now, userVars, reversal, example, runner, jobVars>>

Disable ==
  /\ RuleFree /\ rule' = [rule EXCEPT !.state = "disabled"]
  /\ UNCHANGED <<now, userVars, reversal, example, runner, jobVars>>

-----------------------------------------------------------------------------
(* The job *)

\* Events are read in the order of their time, then of their id.
Precedes(e, f) == \/ reversal[e].at < reversal[f].at
                  \/ reversal[e].at = reversal[f].at /\ e <= f
IsFirst(e, S) == e \in S /\ \A f \in S : Precedes(e, f)
IsLast(e, S) == e \in S /\ \A f \in S : Precedes(f, e)

CutoffNow == now                                      \* mutant of Cutoff
Cutoff == now - Lag
BehindByTime(e) == reversal[e].at <= watermark.at     \* mutant of Behind
Behind(e) == \/ reversal[e].at < watermark.at
             \/ reversal[e].at = watermark.at /\ (watermark.last = NoEntry \/ e <= watermark.last)
Due == {e \in Entry : reversal[e].status = "committed" /\ reversal[e].at <= Cutoff /\ ~Behind(e)}

\* The first run of a tenant only sets the watermark; what is older is history.
FirstRun ==
  /\ watermark.at = -1 /\ lock = "free"
  /\ watermark' = [at |-> Cutoff, last |-> NoEntry]
  /\ fate' = [e \in Entry |-> IF reversal[e].status # "none" /\ reversal[e].at <= Cutoff
                              THEN "history" ELSE fate[e]]
  /\ UNCHANGED <<now, userVars, reversal, example, rule, runner, lock, job, faults, unlocked>>

\* A run reads the watermark and the events behind it; one that finds none changes nothing.
Read(r, locked) ==
  /\ job[r].status = "idle" /\ watermark.at # -1 /\ Due # {}
  /\ \E S \in SUBSET Due, last \in Due :
       /\ IsLast(last, S) /\ \A f \in Due \ S : Precedes(last, f)
       /\ Cardinality(S) <= BatchLimit /\ (S # Due => Cardinality(S) = BatchLimit)
       /\ job' = [job EXCEPT ![r] = [Idle EXCEPT !.status = "handling", !.locked = locked,
                                                 !.todo = S, !.last = last]]
  /\ UNCHANGED <<now, userVars, reversal, example, rule, runner, watermark, fate>>

Start(r) == Read(r, TRUE) /\ lock = "free" /\ lock' = "held" /\ UNCHANGED <<faults, unlocked>>

\* Redis does not answer: the task runs without the lock.
StartUnlocked(r) ==
  /\ Read(r, FALSE) /\ faults < MaxFaults
  /\ faults' = faults + 1 /\ unlocked' = TRUE /\ UNCHANGED lock

\* proposals.record_reversal looks without a lock whether the reversal was counted before.
Look(r) ==
  /\ job[r].status = "handling"
  /\ \E e \in Entry :
       /\ IsFirst(e, job[r].todo)
       /\ job' = [job EXCEPT ![r].status = "looked", ![r].event = e, ![r].seen = example[e] > 0]
  /\ UNCHANGED <<now, userVars, reversal, example, rule, runner, watermark, lock, fate,
                 faults, unlocked>>

\* events_consumer._on_entry_reversed, up to the commit of the run.
Handle(r) ==
  /\ job[r].status = "looked" /\ ~Blocked(r)
  /\ LET e == job[r].event IN
     job' = [job EXCEPT ![r].status = "handling", ![r].todo = @ \ {e},
                        ![r].handled = @ \cup {e},
                        ![r].fresh = IF job[r].seen THEN @ ELSE @ \cup {e},
                        ![r].reopened = @ \cup Carriers(e)]
  /\ UNCHANGED <<now, userVars, reversal, example, rule, runner, watermark, lock, fate,
                 faults, unlocked>>

\* An event whose handling raises is rolled back alone, and the watermark passes it.
Fail(r) ==
  /\ job[r].status = "looked" /\ faults < MaxFaults /\ faults' = faults + 1
  /\ job' = [job EXCEPT ![r].status = "handling", ![r].todo = @ \ {job[r].event},
                        ![r].failed = @ \cup {job[r].event}]
  /\ UNCHANGED <<now, userVars, reversal, example, rule, runner, watermark, lock, fate,
                 unlocked>>

\* learning.on_automation_error, once per review of an entry counted in this run.
LoweredTwice(state, n) ==                             \* mutant of Lowered
  IF n = 0 THEN state ELSE IF state = "active" THEN "approved" ELSE "proposed"
LoweredToApproved(state, n) ==                        \* mutant of Lowered
  IF n = 0 THEN state ELSE IF n = 1 THEN "approved" ELSE "disabled"
Lowered(state, n) == IF n = 0 THEN state
                     ELSE IF state = "active" /\ n = 1 THEN "approved" ELSE "disabled"

\* The transaction of the run commits; the lock is released if it is still the run's own, and
\* stays if Redis does not answer then.
Finish(r) ==
  /\ job[r].status = "handling" /\ job[r].todo = {}
  /\ LET j == job[r]
         errors == {e \in Charged(r) : reversal[e].reason = "automation_error"}
     IN
     /\ example' = [e \in Entry |-> IF e \in j.fresh THEN example[e] + 1 ELSE example[e]]
     /\ rule' = [state |-> Lowered(rule.state, Cardinality(errors)),
                 contradictions |-> rule.contradictions + Cardinality(Charged(r))]
     /\ review' = [e \in Entry |-> IF e \in Charged(r) /\ review[e] = "open"
                                    THEN "closed" ELSE review[e]]
     /\ bank' = [t \in Transaction |-> IF t \in j.reopened
                                        THEN [bank[t] EXCEPT !.status = "new"] ELSE bank[t]]
     /\ watermark' = [at |-> reversal[j.last].at, last |-> j.last]
     /\ fate' = [e \in Entry |-> IF e \in j.handled THEN "handled"
                                 ELSE IF e \in j.failed /\ fate[e] = "pending" THEN "failed"
                                 ELSE fate[e]]
     /\ \/ /\ lock' = IF j.locked THEN "free" ELSE lock
           /\ UNCHANGED faults
        \/ /\ j.locked /\ faults < MaxFaults /\ faults' = faults + 1
           /\ lock' = "left"
  /\ job' = [job EXCEPT ![r] = Idle]
  /\ UNCHANGED <<now, moves, entry, reversal, runner, unlocked>>

\* The run ends in the middle: its transaction is rolled back. If the worker was killed, or
\* Redis was away when the lock was to be released, the lock stays.
Kill(r) ==
  /\ job[r].status # "idle" /\ faults < MaxFaults /\ faults' = faults + 1
  /\ job' = [job EXCEPT ![r] = Idle]
  /\ lock' \in IF job[r].locked THEN {"free", "left"} ELSE {lock}
  /\ UNCHANGED <<now, userVars, reversal, example, rule, runner, watermark, fate, unlocked>>

ExpireEarly ==                                        \* mutant of Expire
  /\ lock # "free" /\ lock' = "free"
  /\ UNCHANGED <<now, userVars, reversal, example, rule, runner, watermark, job, fate,
                 faults, unlocked>>

\* The time to live is longer than the hard time limit of a run.
Expire ==
  /\ lock = "left" /\ lock' = "free"
  /\ UNCHANGED <<now, userVars, reversal, example, rule, runner, watermark, job, fate,
                 faults, unlocked>>

Tick ==
  /\ now < LastMoment /\ now' = now + 1
  /\ \A e \in Entry : reversal[e].status = "open" => now - reversal[e].at < Longest
  /\ UNCHANGED <<userVars, reversal, example, rule, runner, jobVars>>

-----------------------------------------------------------------------------
User ==
  \/ \E t \in Transaction : Import(t)
  \/ \E t \in Transaction, e \in Entry : Book(t, e)
  \/ \E t \in Transaction, reason \in Reason : BeginCorrect(t, reason)
  \/ \E e \in Entry, reason \in Reason : BeginReverse(e, reason)
  \/ \E e \in Entry : Decide(e)
  \/ Activate \/ Disable

RunnerWorks ==
  \/ \E t \in Transaction : RunnerChoose(t)
  \/ \E t \in Transaction, e \in Automatic : RunnerPost(t, e)
  \/ RunnerRefuse
RunnerEnds == RunnerCommit \/ RunnerRollback

Commit(e) == CommitReverse(e) \/ Rollback(e) \/ \E new \in Entry : CommitCorrect(e, new)
Job == FirstRun \/ Expire \/ \E r \in Run : Start(r) \/ Look(r) \/ Handle(r) \/ Finish(r)
Fault(r) == StartUnlocked(r) \/ Fail(r) \/ Kill(r)

Next ==
  \/ User \/ RunnerWorks \/ RunnerEnds \/ Tick \/ Job
  \/ \E e \in Entry : Commit(e)
  \/ \E r \in Run : Fault(r)

\* The clock goes on, database transactions end, and the job works: the beat starts a run every
\* minute, a lock left behind expires, and a run that waits for a row gets it in its turn, even
\* if others take it again and again. Nobody has to book, reverse or decide anything.
Fairness ==
  /\ WF_vars(Tick) /\ WF_vars(Job) /\ WF_vars(RunnerEnds)
  /\ SF_vars(\E r \in Run : Handle(r))
  /\ \A e \in Entry : WF_vars(Commit(e))

Spec == Init /\ [][Next]_vars /\ Fairness

-----------------------------------------------------------------------------
(* Properties *)

\* No bank movement has a second effect, however late the job hears of a reversal and whatever
\* was booked in the meantime: a transaction offered for booking carries no posting in force, and
\* two postings in force on the halves of a transfer move no bank account both.
OpenNotInForce == \A t \in Transaction : bank[t].status = "new" => ~InForce(t)
MovedOnce ==
  \A t \in Transaction : \A s \in Group[t] :
    InForce(s) /\ InForce(t) /\ bank[s].entry # bank[t].entry
      => moves[bank[s].entry] \cap moves[bank[t].entry] = {}
NoSecondEffect == OpenNotInForce /\ MovedOnce

\* A reversal the job has handled left no trace of the posting: every transaction that still
\* carries it is open again, and no review waits for it.
HandledIsUndone ==
  \A e \in Entry : fate[e] = "handled" =>
    Carriers(e) = {} /\ review[e] # "open" /\ entry[e] = "reversed"

\* The watermark passes no reversal unhandled, but for one that failed, and one whose
\* database transaction lasted longer than the lag.
NoneSkipped ==
  \A e \in Entry :
    reversal[e].status = "committed" /\ ~reversal[e].late /\ Behind(e) => fate[e] # "pending"

\* As long as Redis answers, a reversal is counted once, whatever fails or is killed.
CountedOnce ==
  ~unlocked => /\ \A e \in Entry : example[e] <= 1
               /\ rule.contradictions = Cardinality({e \in Reviewed : example[e] = 1})

\* A disabled rule stays disabled, and posts at most the one transaction for which the runner
\* had read it as active: none is chosen any more, and a posting uses up the one chosen.
DisabledForGood ==
  [][rule.state = "disabled" =>
       /\ rule'.state = "disabled"
       /\ runner'.chosen \subseteq runner.chosen
       /\ ~(Made' \subseteq Made) => runner.chosen # {} /\ runner'.chosen = {}]_vars

\* Every reversal whose event comes in time is handled, or has failed, in the end.
EachReversalHandled ==
  \A e \in Entry :
    reversal[e].status = "committed" /\ ~reversal[e].late ~> fate[e] # "pending"

\* "jeder Storno einer Automatikbuchung zaehlt contradiction_count"
\* (docs/rules/M12-06-gelernte-bankregeln.md:41). The code finds the rule by the review item
\* of the posting; a posting the sample has not drawn has none.
EveryReversalCounts ==
  Cardinality({e \in Automatic : fate[e] = "handled"}) <= rule.contradictions
=============================================================================
