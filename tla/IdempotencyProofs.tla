-------------------------- MODULE IdempotencyProofs --------------------------
(***************************************************************************)
(* Theorems about the calls behind one Idempotency-Key, for any number of  *)
(* calls, faults and expiries.  The argument rests on one fact: a call     *)
(* whose endpoint runs, or that has answered and not yet written back,     *)
(* owns the record of the key, and the record is in progress.              *)
(***************************************************************************)
EXTENDS Idempotency, FiniteSetTheorems, TLAPS

\* The record in progress belongs to the call that runs, and to it alone.
Owned ==
  \A c \in Call : step[c] \in {"running", "answered"} =>
    record.state = "in_progress" /\ record.owner = c

\* The call that could be replayed: its client got the answer, its changes stand.
Replayable(b) ==
  step[b] = "over" /\ answer[b] = "own" /\ outcome[b] \in {"done", "refused"}

\* The record tells who wrote it, and what is stored can be replayed.
RecordStands ==
  /\ record.state = "none" => record = NoRecord
  /\ record.state # "none" =>
       record.owner \in Call /\ record.print = Fingerprint[record.owner]
  /\ record.state = "done" => Replayable(record.owner)

\* An answer that was sent is the answer of the endpoint.
AnswersStand ==
  \A c \in Call : step[c] = "answered" =>
    /\ outcome[c] \notin Raises \cup {"none"}
    /\ outcome[c] # "failed" => answer[c] = "own"

ReplaysStand ==
  \A c \in Call : answer[c] = "replay" =>
    blamed[c] \in Call /\ Fingerprint[blamed[c]] = Fingerprint[c] /\ Replayable(blamed[c])

\* One change is still covered by the record, all others by an expiry or by a
\* release after a commit.
Covered == record # NoRecord /\ outcome[record.owner] \in Commits

Counted ==
  /\ IsFiniteSet(effects)
  /\ Cardinality(effects) <= expired + repeats + (IF Covered THEN 1 ELSE 0)

-----------------------------------------------------------------------------
(* Types.                                                                  *)

LEMMA RecordType ==
  ASSUME NEW c \in Call, NEW s \in {"in_progress", "done"}
  PROVE  Record(s, c) \in [state: {"none", "in_progress", "done"},
                           print: {0} \cup {Fingerprint[b] : b \in Call},
                           owner: Call \cup {NoCall}]
BY DEF Record

LEMMA TypeInit == Init => TypeOK
BY FaultAssumption DEF Init, TypeOK, NoRecord, Step, Outcome, Answer

LEMMA TypeNext == TypeOK /\ [Next]_vars => TypeOK'
<1> SUFFICES ASSUME TypeOK, [Next]_vars PROVE TypeOK'
  OBVIOUS
<1> USE DEF TypeOK
<1>none. NoRecord \in [state: {"none", "in_progress", "done"},
                       print: {0} \cup {Fingerprint[b] : b \in Call},
                       owner: Call \cup {NoCall}]
  BY DEF NoRecord
<1>take. ASSUME NEW c \in Call, NEW s \in Step, TakeOr(c, s)
         PROVE  /\ record' \in [state: {"none", "in_progress", "done"},
                                print: {0} \cup {Fingerprint[b] : b \in Call},
                                owner: Call \cup {NoCall}]
                /\ step' \in [Call -> Step]
  BY <1>take, RecordType DEF TakeOr, Goto, Step
<1>goto. ASSUME NEW c \in Call, NEW s \in Step, Goto(c, s) PROVE step' \in [Call -> Step]
  BY <1>goto DEF Goto
<1>reply. ASSUME NEW c \in Call, NEW a \in Answer, Reply(c, a) PROVE answer' \in [Call -> Answer]
  BY <1>reply DEF Reply
<1>blame. ASSUME NEW c \in Call, replay_or_conflict(c, record)
          PROVE  /\ step' \in [Call -> Step] /\ answer' \in [Call -> Answer]
                 /\ blamed' \in [Call -> Call \cup {NoCall}]
  BY <1>blame DEF replay_or_conflict, Goto, Reply, Step, Answer
<1>count. repeats \in Nat => repeats + 1 \in Nat
  OBVIOUS
<1>1. CASE UNCHANGED vars
  BY <1>1 DEF vars
<1>2. CASE expire
  BY <1>2, <1>none, FaultAssumption DEF expire
<1>3. ASSUME NEW c \in Call, send(c) PROVE TypeOK'
  BY <1>3, <1>take, "load" \in Step DEF send, Unstarted, Step
<1>4. ASSUME NEW c \in Call, load(c) PROVE TypeOK'
  BY <1>4, <1>blame, <1>goto, "retake" \in Step DEF load, Unstarted, Step
<1>5. ASSUME NEW c \in Call, retake(c) PROVE TypeOK'
  BY <1>5, <1>take, "reload" \in Step DEF retake, Unstarted, Step
<1>6. ASSUME NEW c \in Call, reload(c) PROVE TypeOK'
  <2>1. /\ UNCHANGED <<record, outcome, effects, faults, expired, repeats>>
        /\ replay_or_conflict(c, record)
    BY <1>6 DEF reload, Unstarted
  <2>2. /\ step' \in [Call -> Step] /\ answer' \in [Call -> Answer]
        /\ blamed' \in [Call -> Call \cup {NoCall}]
    BY <2>1, <1>blame
  <2> HIDE DEF TypeOK
  <2>3. TypeOK
    OBVIOUS
  <2> QED BY <2>1, <2>2, <2>3 DEF TypeOK
<1>7. ASSUME NEW c \in Call, execute(c) PROVE TypeOK'
  <2>1. PICK o \in Possible :
          /\ outcome' = [outcome EXCEPT ![c] = o]
          /\ effects' = IF o \in Commits THEN effects \cup {c} ELSE effects
    BY <1>7 DEF execute
  <2>2. o \in Outcome
    BY DEF Possible, Outcome
  <2>3. outcome' \in [Call -> Outcome] /\ effects' \subseteq Call
    BY <2>1, <2>2
  <2> QED BY <1>7, <2>3 DEF execute
<1>8. ASSUME NEW c \in Call, respond(c) PROVE TypeOK'
  BY <1>8, <1>goto, <1>reply DEF respond, Step, Answer
<1>9. ASSUME NEW c \in Call, store(c) PROVE TypeOK'
  <2>1. step' \in [Call -> Step]
    BY <1>9, <1>goto DEF store, Step
  <2>2. CASE Releases(outcome[c]) /\ Release(c)
    BY <1>9, <2>1, <2>2, <1>none DEF store, Release
  <2>3. CASE record' = Record("done", c) /\ UNCHANGED repeats
    BY <1>9, <2>1, <2>3, RecordType DEF store
  <2> QED BY <1>9, <2>2, <2>3 DEF store
<1>10. ASSUME NEW c \in Call, abort(c) PROVE TypeOK'
  <2>1. step' \in [Call -> Step]
    BY <1>10, <1>goto DEF abort, Step
  <2>2. answer' \in [Call -> Answer]
    BY <1>10, <1>reply DEF abort, Answer
  <2> QED BY <1>10, <2>1, <2>2, <1>none DEF abort, Release
<1>11. ASSUME NEW c \in Call, fault(c) PROVE TypeOK'
  <2>1. step' \in [Call -> Step]
    BY <1>11, <1>goto DEF fault, Step
  <2>2. answer' \in [Call -> Answer]
    BY <1>11, <1>reply DEF fault, Answer
  <2> QED BY <1>11, <2>1, <2>2, FaultAssumption DEF fault
<1> QED
  BY <1>1, <1>2, <1>3, <1>4, <1>5, <1>6, <1>7, <1>8, <1>9, <1>10, <1>11 DEF Next

\* Type correctness of the calls and of the record, for any calls and faults.
THEOREM TypeCorrect == Spec => []TypeOK
BY TypeInit, TypeNext, PTL DEF Spec

-----------------------------------------------------------------------------
(* One call at a time.                                                     *)

\* The parts of the record the argument reads.
LEMMA RecordFields ==
  ASSUME NEW c \in Call, NEW s \in {"in_progress", "done"}
  PROVE  /\ Record(s, c).state = s /\ Record(s, c).owner = c
         /\ Record(s, c).print = Fingerprint[c] /\ Record(s, c) # NoRecord
         /\ NoRecord.state = "none"
BY DEF Record, NoRecord

\* A step of a call that does not touch what others own.
LEMMA OwnedNext == TypeOK /\ Owned /\ [Next]_vars => Owned'
<1> SUFFICES ASSUME TypeOK, Owned, [Next]_vars PROVE Owned'
  OBVIOUS
<1> USE DEF Owned
<1>type. step \in [Call -> Step]
  BY DEF TypeOK
<1>take. ASSUME NEW c \in Call, NEW s \in {"load", "reload"}, TakeOr(c, s) PROVE Owned'
  <2>1. CASE record = NoRecord
    BY <1>type, <1>take, <2>1, RecordFields DEF TakeOr, Goto
  <2>2. CASE record # NoRecord
    BY <1>type, <1>take, <2>2 DEF TakeOr, Goto
  <2> QED BY <2>1, <2>2
<1>leave. ASSUME NEW c \in Call, NEW s \in {"retake", "over"}, Goto(c, s), UNCHANGED record
          PROVE Owned'
  BY <1>type, <1>leave DEF Goto
<1>close. ASSUME NEW c \in Call, step[c] \in {"running", "answered"}, Goto(c, "over")
          PROVE Owned'
  BY <1>type, <1>close DEF Goto
<1>1. CASE UNCHANGED vars
  BY <1>1 DEF vars
<1>2. CASE expire
  BY <1>2 DEF expire
<1>3. ASSUME NEW c \in Call, send(c) PROVE Owned'
  BY <1>3, <1>take DEF send
<1>4. ASSUME NEW c \in Call, load(c) PROVE Owned'
  BY <1>4, <1>leave DEF load, replay_or_conflict
<1>5. ASSUME NEW c \in Call, retake(c) PROVE Owned'
  BY <1>5, <1>take DEF retake
<1>6. ASSUME NEW c \in Call, reload(c) PROVE Owned'
  BY <1>6, <1>leave DEF reload, replay_or_conflict
<1>7. ASSUME NEW c \in Call, execute(c) PROVE Owned'
  BY <1>7 DEF execute
<1>8. ASSUME NEW c \in Call, respond(c) PROVE Owned'
  BY <1>type, <1>8 DEF respond, Goto
<1>9. ASSUME NEW c \in Call, store(c) PROVE Owned'
  BY <1>9, <1>close DEF store
<1>10. ASSUME NEW c \in Call, abort(c) PROVE Owned'
  BY <1>10, <1>close DEF abort
<1>11. ASSUME NEW c \in Call, fault(c) PROVE Owned'
  BY <1>11, <1>leave DEF fault
<1> QED
  BY <1>1, <1>2, <1>3, <1>4, <1>5, <1>6, <1>7, <1>8, <1>9, <1>10, <1>11 DEF Next

\* Two calls never run the endpoint at the same time: each took the record with
\* SET NX, and nothing but the call itself ends a record in progress (the code's
\* middleware; a lost process leaves its record, and 24 hours outlast a call).
THEOREM OneCallRuns == Spec => []OneRuns
<1>1. Init => Owned
  BY DEF Init, Owned
<1>2. TypeOK /\ Owned => OneRuns
  BY DEF Owned, OneRuns
<1> QED BY <1>1, <1>2, OwnedNext, TypeCorrect, PTL DEF Spec

-----------------------------------------------------------------------------
(* What a replay shows.                                                    *)

LEMMA ReplayNext ==
  TypeOK /\ Owned /\ RecordStands /\ AnswersStand /\ ReplaysStand /\ [Next]_vars
    => RecordStands' /\ AnswersStand' /\ ReplaysStand'
<1> SUFFICES ASSUME TypeOK, Owned, RecordStands, AnswersStand, ReplaysStand, [Next]_vars
             PROVE  RecordStands' /\ AnswersStand' /\ ReplaysStand'
  OBVIOUS
<1> DEFINE Stands == RecordStands' /\ AnswersStand' /\ ReplaysStand'
<1>type. /\ step \in [Call -> Step] /\ outcome \in [Call -> Outcome]
         /\ answer \in [Call -> Answer] /\ blamed \in [Call -> Call \cup {NoCall}]
  BY DEF TypeOK
\* What can be replayed stays so while its call is over.
<1>keep. ASSUME NEW c \in Call, step[c] # "over",
                \A b \in Call : b # c => step'[b] = step[b] /\ answer'[b] = answer[b]
                                         /\ outcome'[b] = outcome[b]
         PROVE  \A b \in Call : Replayable(b) => Replayable(b)'
  BY <1>keep DEF Replayable
<1>take. ASSUME NEW c \in Call, NEW s \in {"load", "reload"}, step[c] \in {"new", "retake"},
                TakeOr(c, s), UNCHANGED <<answer, blamed, Unstarted>>
         PROVE  Stands
  <2>1. \A b \in Call : b # c => step'[b] = step[b] /\ answer'[b] = answer[b]
                                 /\ outcome'[b] = outcome[b]
    BY <1>type, <1>take DEF TakeOr, Goto, Unstarted
  <2>2. \A b \in Call : Replayable(b) => Replayable(b)'
    BY <1>take, <1>keep, <2>1
  <2>3. RecordStands'
    <3>1. CASE record = NoRecord
      BY <1>take, <3>1, RecordFields DEF TakeOr, RecordStands
    <3>2. CASE record # NoRecord
      BY <1>take, <2>2, <3>2 DEF TakeOr, RecordStands
    <3> QED BY <3>1, <3>2
  <2>4. AnswersStand'
    BY <1>type, <1>take DEF TakeOr, Goto, Unstarted, AnswersStand
  <2>5. ReplaysStand'
    BY <1>take, <2>2 DEF Unstarted, ReplaysStand
  <2> QED BY <2>3, <2>4, <2>5
<1>blame. ASSUME NEW c \in Call, step[c] \in {"load", "reload"},
                 replay_or_conflict(c, record), UNCHANGED <<record, Unstarted>>
          PROVE  Stands
  <2>1. \A b \in Call : Replayable(b) => Replayable(b)'
    BY <1>type, <1>blame, <1>keep DEF replay_or_conflict, Goto, Reply, Unstarted
  <2>2. RecordStands'
    BY <1>blame, <2>1 DEF RecordStands
  <2>3. AnswersStand'
    BY <1>type, <1>blame DEF replay_or_conflict, Goto, Reply, Unstarted, AnswersStand
  <2>4. ReplaysStand'
    <3>1. ASSUME NEW b \in Call, b # c, answer'[b] = "replay"
          PROVE  \E x \in Call : /\ blamed'[b] = x /\ Fingerprint[x] = Fingerprint[b]
                                 /\ Replayable(x)'
      <4>1. answer[b] = "replay" /\ blamed'[b] = blamed[b]
        BY <1>type, <1>blame, <3>1 DEF replay_or_conflict, Reply
      <4> QED BY <2>1, <4>1 DEF ReplaysStand
    <3>2. ASSUME answer'[c] = "replay"
          PROVE  \E x \in Call : /\ blamed'[c] = x /\ Fingerprint[x] = Fingerprint[c]
                                 /\ Replayable(x)'
      <4>1. /\ record # NoRecord /\ record.print = Fingerprint[c]
            /\ record.state # "in_progress" /\ blamed'[c] = record.owner
        BY <1>type, <1>blame, <3>2 DEF replay_or_conflict, Reply
      <4>2. record.state = "done" /\ record.owner \in Call
        BY <4>1 DEF RecordStands, TypeOK
      <4> QED BY <2>1, <4>1, <4>2 DEF RecordStands
    <3> QED BY <3>1, <3>2 DEF ReplaysStand, Replayable
  <2> QED BY <2>2, <2>3, <2>4
<1>1. CASE UNCHANGED vars
  BY <1>1 DEF vars, RecordStands, AnswersStand, ReplaysStand, Replayable
<1>2. CASE expire
  <2>1. \A b \in Call : Replayable(b)' <=> Replayable(b)
    BY <1>2 DEF expire, Replayable
  <2>2. RecordStands'
    BY <1>2, RecordFields DEF expire, RecordStands, NoRecord
  <2> QED BY <1>2, <2>1, <2>2 DEF expire, AnswersStand, ReplaysStand
<1>3. ASSUME NEW c \in Call, send(c) PROVE Stands
  BY <1>3, <1>take DEF send
<1>4. ASSUME NEW c \in Call, load(c) PROVE Stands
  <2>1. CASE record # NoRecord /\ replay_or_conflict(c, record)
    BY <1>4, <2>1, <1>blame DEF load
  <2>2. CASE Goto(c, "retake") /\ UNCHANGED <<answer, blamed>>
    <3>1. \A b \in Call : Replayable(b) => Replayable(b)'
      BY <1>type, <1>4, <2>2, <1>keep DEF load, Goto, Unstarted
    <3>2. RecordStands'
      BY <1>4, <3>1 DEF load, RecordStands
    <3>3. AnswersStand'
      BY <1>type, <1>4, <2>2 DEF load, Goto, Unstarted, AnswersStand
    <3> QED BY <2>2, <3>1, <3>2, <3>3 DEF ReplaysStand
  <2> QED BY <1>4, <2>1, <2>2 DEF load
<1>5. ASSUME NEW c \in Call, retake(c) PROVE Stands
  BY <1>5, <1>take DEF retake
<1>6. ASSUME NEW c \in Call, reload(c) PROVE Stands
  BY <1>6, <1>blame DEF reload
<1>7. ASSUME NEW c \in Call, execute(c) PROVE Stands
  <2>1. \A b \in Call : Replayable(b) => Replayable(b)'
    BY <1>type, <1>7, <1>keep DEF execute
  <2>2. RecordStands'
    BY <1>7, <2>1 DEF execute, RecordStands
  <2>3. AnswersStand'
    BY <1>type, <1>7 DEF execute, AnswersStand
  <2> QED BY <1>7, <2>1, <2>2, <2>3 DEF execute, ReplaysStand
<1>8. ASSUME NEW c \in Call, respond(c) PROVE Stands
  <2>1. \A b \in Call : Replayable(b) => Replayable(b)'
    BY <1>type, <1>8, <1>keep DEF respond, Goto, Reply
  <2>2. RecordStands'
    BY <1>8, <2>1 DEF respond, RecordStands
  <2>3. AnswersStand'
    BY <1>type, <1>8 DEF respond, Goto, Reply, AnswersStand
  <2>4. ReplaysStand'
    BY <1>type, <1>8, <2>1 DEF respond, Reply, ReplaysStand
  <2> QED BY <2>2, <2>3, <2>4
<1>9. ASSUME NEW c \in Call, store(c) PROVE Stands
  <2>1. \A b \in Call : Replayable(b) => Replayable(b)'
    BY <1>type, <1>9, <1>keep DEF store, Goto
  <2>2. RecordStands'
    <3>1. CASE Releases(outcome[c]) /\ Release(c)
      BY <3>1, RecordFields DEF Release, RecordStands, NoRecord
    <3>2. CASE ~Releases(outcome[c]) /\ record' = Record("done", c)
      <4>1. outcome[c] \in {"done", "refused"}
        BY <1>type, <1>9, <3>2 DEF store, AnswersStand, Releases, Raises, Outcome
      <4>2. answer[c] = "own"
        BY <1>9, <4>1 DEF store, AnswersStand
      <4>3. Replayable(c)'
        BY <1>type, <1>9, <4>1, <4>2 DEF store, Goto, Replayable
      <4> QED BY <3>2, <4>3, RecordFields DEF RecordStands
    <3> QED BY <1>9, <3>1, <3>2 DEF store
  <2>3. AnswersStand'
    BY <1>type, <1>9 DEF store, Goto, AnswersStand
  <2> QED BY <1>9, <2>1, <2>2, <2>3 DEF store, ReplaysStand
<1>10. ASSUME NEW c \in Call, abort(c) PROVE Stands
  <2>1. \A b \in Call : Replayable(b) => Replayable(b)'
    BY <1>type, <1>10, <1>keep DEF abort, Goto, Reply
  <2>2. RecordStands'
    BY <1>10, RecordFields DEF abort, Release, RecordStands, NoRecord
  <2>3. AnswersStand'
    BY <1>type, <1>10 DEF abort, Goto, Reply, AnswersStand
  <2>4. ReplaysStand'
    BY <1>type, <1>10, <2>1 DEF abort, Reply, ReplaysStand
  <2> QED BY <2>2, <2>3, <2>4
<1>11. ASSUME NEW c \in Call, fault(c) PROVE Stands
  <2>1. \A b \in Call : Replayable(b) => Replayable(b)'
    BY <1>type, <1>11, <1>keep DEF fault, Goto, Reply
  <2>2. RecordStands'
    BY <1>11, <2>1 DEF fault, RecordStands
  <2>3. AnswersStand'
    BY <1>type, <1>11 DEF fault, Goto, Reply, AnswersStand
  <2>4. ReplaysStand'
    BY <1>type, <1>11, <2>1 DEF fault, Reply, ReplaysStand
  <2> QED BY <2>2, <2>3, <2>4
<1> QED
  BY <1>1, <1>2, <1>3, <1>4, <1>5, <1>6, <1>7, <1>8, <1>9, <1>10, <1>11 DEF Next

LEMMA OwnedAlways == Spec => []Owned
<1>1. Init => Owned
  BY DEF Init, Owned
<1> QED BY <1>1, OwnedNext, TypeCorrect, PTL DEF Spec

-----------------------------------------------------------------------------
(* How often the changes are made.                                         *)

\* The sum in Counted is one of natural numbers.
LEMMA CountType == TypeOK => expired \in Nat /\ repeats \in Nat
BY FaultAssumption DEF TypeOK

LEMMA EffectsFinite == TypeOK => IsFiniteSet(effects) /\ Cardinality(effects) \in Nat
BY CallAssumption, FS_Subset, FS_CardinalityType DEF TypeOK

LEMMA CountNext ==
  TypeOK /\ Owned /\ RecordStands /\ Counted /\ [Next]_vars => Counted'
<1> SUFFICES ASSUME TypeOK, Owned, RecordStands, Counted, [Next]_vars PROVE Counted'
  OBVIOUS
<1>type. /\ step \in [Call -> Step] /\ outcome \in [Call -> Outcome]
         /\ expired \in Nat /\ repeats \in Nat
         /\ IsFiniteSet(effects) /\ Cardinality(effects) \in Nat
  BY CountType, EffectsFinite DEF TypeOK
\* Steps that neither change effects nor uncover one.
<1>same. ASSUME UNCHANGED <<effects, expired, repeats>>, Covered => Covered' PROVE Counted'
  BY <1>type, <1>same DEF Counted
<1>take. ASSUME NEW c \in Call, NEW s \in {"load", "reload"}, TakeOr(c, s), UNCHANGED Unstarted
         PROVE  Counted'
  <2>1. Covered => Covered'
    BY <1>take DEF TakeOr, Unstarted, Covered
  <2> QED BY <1>take, <1>same, <2>1 DEF Unstarted
<1>1. CASE UNCHANGED <<record, outcome, effects, expired, repeats>>
  BY <1>1, <1>same DEF Covered
<1>2. CASE expire
  BY <1>2, <1>type DEF expire, Counted, Covered
<1>3. ASSUME NEW c \in Call, send(c) PROVE Counted'
  BY <1>3, <1>take DEF send
<1>4. ASSUME NEW c \in Call, load(c) PROVE Counted'
  BY <1>4, <1>1 DEF load, Unstarted
<1>5. ASSUME NEW c \in Call, retake(c) PROVE Counted'
  BY <1>5, <1>take DEF retake
<1>6. ASSUME NEW c \in Call, reload(c) PROVE Counted'
  BY <1>6, <1>1 DEF reload, Unstarted
<1>7. ASSUME NEW c \in Call, execute(c) PROVE Counted'
  <2>1. record # NoRecord /\ record.owner = c /\ ~Covered
    BY <1>7, RecordFields DEF execute, Owned, Covered, Commits
  <2>2. PICK o \in Possible :
          /\ outcome' = [outcome EXCEPT ![c] = o]
          /\ effects' = IF o \in Commits THEN effects \cup {c} ELSE effects
    BY <1>7 DEF execute
  <2>3. UNCHANGED <<record, expired, repeats>>
    BY <1>7 DEF execute
  <2>4. CASE o \in Commits
    <3>1. Covered'
      BY <1>type, <2>1, <2>2, <2>3, <2>4 DEF Covered
    <3>2. /\ IsFiniteSet(effects \cup {c})
          /\ Cardinality(effects \cup {c}) <= Cardinality(effects) + 1
      <4>1. Cardinality(effects \cup {c}) =
              IF c \in effects THEN Cardinality(effects) ELSE Cardinality(effects) + 1
        BY <1>type, FS_AddElement
      <4>2. IsFiniteSet(effects \cup {c})
        BY <1>type, FS_AddElement
      <4> QED BY <4>1, <4>2, EffectsFinite
    <3>3. Cardinality(effects \cup {c}) \in Nat
      BY <3>2, FS_CardinalityType
    <3>4. effects' = effects \cup {c}
      BY <2>2, <2>4
    <3>5. Cardinality(effects) <= expired + repeats
      BY <1>type, <2>1 DEF Counted
    <3>6. Cardinality(effects \cup {c}) <= expired + repeats + 1
      BY <1>type, <3>2, <3>3, <3>5
    <3> QED BY <2>3, <3>1, <3>2, <3>4, <3>6 DEF Counted
  <2>5. CASE o \notin Commits
    BY <1>type, <2>1, <2>2, <2>3, <2>5, <1>same
  <2> QED BY <2>4, <2>5
<1>8. ASSUME NEW c \in Call, respond(c) PROVE Counted'
  BY <1>8, <1>1 DEF respond
<1>release. ASSUME NEW c \in Call, step[c] \in {"running", "answered"}, Release(c),
                   UNCHANGED <<outcome, effects, expired>>
            PROVE  Counted'
  <2>1. record.owner = c /\ ~Covered'
    BY <1>release DEF Owned, Release, Covered
  <2>2. Covered => repeats' = repeats + 1
    BY <1>release, <2>1 DEF Covered, Release
  <2>3. repeats' \in {repeats, repeats + 1}
    BY <1>release DEF Release
  <2> QED BY <1>type, <1>release, <2>1, <2>2, <2>3 DEF Counted
<1>9. ASSUME NEW c \in Call, store(c) PROVE Counted'
  <2>1. CASE Release(c)
    <3>1. UNCHANGED <<outcome, effects, expired>> /\ step[c] \in {"running", "answered"}
      BY <1>9 DEF store
    <3> QED BY <2>1, <3>1, <1>release
  <2>2. CASE record' = Record("done", c) /\ UNCHANGED repeats
    <3>1. Covered => Covered'
      BY <1>9, <2>2, RecordFields DEF store, Owned, Covered
    <3> QED BY <1>9, <2>2, <3>1, <1>same DEF store
  <2> QED BY <1>9, <2>1, <2>2 DEF store
<1>10. ASSUME NEW c \in Call, abort(c) PROVE Counted'
  <2>1. UNCHANGED <<outcome, effects, expired>> /\ step[c] \in {"running", "answered"}
    BY <1>10 DEF abort
  <2> QED BY <1>10, <2>1, <1>release DEF abort
<1>11. ASSUME NEW c \in Call, fault(c) PROVE Counted'
  BY <1>11, <1>1 DEF fault
<1>12. CASE UNCHANGED vars
  BY <1>12, <1>1 DEF vars
<1> QED
  BY <1>2, <1>3, <1>4, <1>5, <1>6, <1>7, <1>8, <1>9, <1>10, <1>11, <1>12 DEF Next

LEMMA StandsAlways == Spec => [](RecordStands /\ AnswersStand /\ ReplaysStand)
<1> DEFINE Stand == RecordStands /\ AnswersStand /\ ReplaysStand
<1>1. Init => Stand
  BY RecordFields DEF Init, RecordStands, AnswersStand, ReplaysStand, NoRecord
<1>2. TypeOK /\ Owned /\ Stand /\ [Next]_vars => Stand'
  BY ReplayNext
<1> QED BY <1>1, <1>2, TypeCorrect, OwnedAlways, PTL DEF Spec

\* A replayed answer is the answer a call with the same fingerprint gave to its
\* client, and its changes stand: what store keeps and _replay_or_conflict
\* hands out, whatever failed, expired or was retaken in between.
THEOREM ReplaysAreTrue == Spec => []ReplayIsTrue
<1>1. ReplaysStand => ReplayIsTrue
  BY CallAssumption DEF ReplaysStand, ReplayIsTrue, Replayable
<1> QED BY <1>1, StandsAlways, PTL

\* The changes behind a key are made once; each repetition has its own expiry or
\* its own call that failed after its commit (the release in store and abort).
THEOREM ChangesAreMadeOnce == Spec => []MadeOnce
<1>1. Init => Counted
  BY FS_EmptySet DEF Init, Counted, Covered
<1>2. TypeOK /\ Counted => MadeOnce
  BY CountType, EffectsFinite DEF Counted, MadeOnce
<1> QED BY <1>1, <1>2, CountNext, StandsAlways, TypeCorrect, OwnedAlways, PTL DEF Spec
-----------------------------------------------------------------------------
(* The calls keep the promise of OnceOnly.                                 *)

Trying == {"new", "load", "retake", "reload"}

\* A client hears of its call when the call ends; changes are what the endpoint
\* has committed; only a call that ran can own the record.
InOrder ==
  /\ \A c \in Call :
       /\ step[c] \in Trying => outcome[c] = "none"
       /\ step[c] \in Trying \cup {"running"} <=> answer[c] = "none"
       /\ c \in effects <=> outcome[c] \in Commits
  /\ record.state # "none" => step[record.owner] \notin Trying

LEMMA InOrderInit == Init => InOrder
BY DEF Init, InOrder, Trying, Commits, NoRecord

LEMMA InOrderNext == TypeOK /\ Owned /\ RecordStands /\ InOrder /\ [Next]_vars => InOrder'
<1> SUFFICES ASSUME TypeOK, Owned, RecordStands, InOrder, [Next]_vars PROVE InOrder'
  OBVIOUS
<1>type. /\ step \in [Call -> Step] /\ answer \in [Call -> Answer]
         /\ outcome \in [Call -> Outcome] /\ effects \subseteq Call
  BY DEF TypeOK
<1>owner. record.state # "none" => record.owner \in Call
  BY DEF RecordStands
<1>none. "none" \notin Commits
  BY DEF Commits
<1>take. ASSUME NEW c \in Call, NEW s \in {"load", "reload"}, step[c] \in Trying, TakeOr(c, s),
                UNCHANGED <<answer, outcome, effects>>
         PROVE  InOrder'
  <2>1. CASE record = NoRecord
    BY <1>type, <1>take, <2>1, RecordFields DEF TakeOr, Goto, InOrder, Trying
  <2>2. CASE record # NoRecord
    <3>1. record' = record /\ step' = [step EXCEPT ![c] = s]
      BY <1>take, <2>2 DEF TakeOr, Goto
    <3>2. record.state # "none" => record.owner # c
      BY <1>take DEF InOrder
    <3> QED
      BY <1>type, <1>take, <1>owner, <3>1, <3>2 DEF InOrder, Trying
  <2> QED
    BY <2>1, <2>2
<1>turn. ASSUME NEW c \in Call, step[c] \in Trying, replay_or_conflict(c, record),
                UNCHANGED <<record, outcome, effects>>
         PROVE  InOrder'
  <2>1. answer'[c] # "none" /\ step' = [step EXCEPT ![c] = "over"]
    BY <1>type, <1>turn DEF replay_or_conflict, Reply, Goto
  <2>2. \A b \in Call : b # c => answer'[b] = answer[b]
    BY <1>type, <1>turn DEF replay_or_conflict, Reply
  <2> QED
    BY <1>type, <1>turn, <1>owner, <2>1, <2>2 DEF InOrder, Trying
<1>end. ASSUME NEW c \in Call, NEW s \in {"answered", "over"}, NEW a \in Answer \ {"none"},
               step' = [step EXCEPT ![c] = s], answer' = [answer EXCEPT ![c] = a],
               UNCHANGED <<outcome, effects>>,
               record' = record \/ record'.state = "none"
        PROVE  InOrder'
  BY <1>type, <1>end, <1>owner DEF InOrder, Trying
<1>1. CASE UNCHANGED vars
  BY <1>1 DEF vars, InOrder
<1>2. CASE expire
  BY <1>2, RecordFields DEF expire, InOrder, NoRecord
<1>3. ASSUME NEW c \in Call, send(c) PROVE InOrder'
  BY <1>3, <1>take DEF send, Unstarted, Trying
<1>4. ASSUME NEW c \in Call, load(c) PROVE InOrder'
  <2>1. CASE record = NoRecord
    BY <1>type, <1>4, <2>1, RecordFields DEF load, Goto, Unstarted, InOrder, Trying
  <2>2. CASE record # NoRecord
    BY <1>4, <1>turn, <2>2 DEF load, Unstarted, Trying
  <2> QED
    BY <2>1, <2>2
<1>5. ASSUME NEW c \in Call, retake(c) PROVE InOrder'
  BY <1>5, <1>take DEF retake, Unstarted, Trying
<1>6. ASSUME NEW c \in Call, reload(c) PROVE InOrder'
  BY <1>6, <1>turn DEF reload, Unstarted, Trying
<1>7. ASSUME NEW c \in Call, execute(c) PROVE InOrder'
  <2>1. PICK o \in Possible :
          /\ outcome' = [outcome EXCEPT ![c] = o]
          /\ effects' = IF o \in Commits THEN effects \cup {c} ELSE effects
    BY <1>7 DEF execute
  <2>2. step[c] = "running" /\ outcome[c] = "none" /\ UNCHANGED <<record, step, answer>>
    BY <1>7 DEF execute
  <2>3. c \notin effects
    BY <1>none, <2>2 DEF InOrder
  <2> QED
    BY <1>type, <2>1, <2>2, <2>3 DEF InOrder, Trying
<1>8. ASSUME NEW c \in Call, respond(c) PROVE InOrder'
  <2>1. PICK a \in {"error", "own"} : answer' = [answer EXCEPT ![c] = a]
    BY <1>8 DEF respond, Reply
  <2> QED
    BY <1>8, <1>end, <2>1 DEF respond, Goto, Answer
<1>9. ASSUME NEW c \in Call, store(c) PROVE InOrder'
  <2>1. step[c] = "answered" /\ step' = [step EXCEPT ![c] = "over"]
        /\ UNCHANGED <<outcome, answer, effects>>
    BY <1>9 DEF store, Goto
  <2>2. record'.state = "none" \/ record'.owner = c
    BY <1>9, RecordFields DEF store, Release
  <2> QED
    BY <1>type, <2>1, <2>2 DEF InOrder, Trying
<1>10. ASSUME NEW c \in Call, abort(c) PROVE InOrder'
  BY <1>10, <1>end, RecordFields DEF abort, Release, Goto, Reply, Answer
<1>11. ASSUME NEW c \in Call, fault(c) PROVE InOrder'
  <2> DEFINE a == IF answer[c] = "none" THEN "error" ELSE answer[c]
  <2>1. a \in Answer \ {"none"} /\ answer' = [answer EXCEPT ![c] = a]
    BY <1>type, <1>11 DEF fault, Reply, Answer
  <2> HIDE DEF a
  <2> QED
    BY <1>11, <1>end, <2>1 DEF fault, Goto
<1> QED
  BY <1>1, <1>2, <1>3, <1>4, <1>5, <1>6, <1>7, <1>8, <1>9, <1>10, <1>11 DEF Next

LEMMA InOrderAlways == Spec => []InOrder
BY InOrderInit, InOrderNext, TypeCorrect, OwnedAlways, StandsAlways, PTL DEF Spec

Running == {c \in Call : step[c] = "running"}

LEMMA PromiseInit == Init => Once!Init
BY CallAssumption DEF Init, Once!Init, Holder

\* Every step is one of OnceOnly, or nothing a client could tell.
LEMMA PromiseNext ==
  TypeOK /\ Owned /\ RecordStands /\ InOrder /\ [Next]_vars => [Once!Next]_Once!vars
<1> SUFFICES ASSUME TypeOK, Owned, RecordStands, InOrder, [Next]_vars
             PROVE  [Once!Next]_Once!vars
  OBVIOUS
<1>type. /\ step \in [Call -> Step] /\ answer \in [Call -> Answer]
         /\ blamed \in [Call -> Call \cup {NoCall}] /\ effects \subseteq Call
  BY DEF TypeOK
<1>noone. NoCall \notin effects /\ NoRecord.owner = NoCall /\ NoRecord.state = "none"
  BY <1>type, CallAssumption DEF NoRecord
<1>owner. record.state # "none" => record.owner \in Call
  BY DEF RecordStands
<1>free. record = NoRecord => Holder = NoCall /\ Running = {}
  BY <1>noone DEF Holder, Owned, Running
<1>untouched. \A c \in Call : step[c] \in Trying => Once!Waiting(c)
  BY DEF InOrder, Once!Waiting, Trying, Commits
<1>alone. \A c \in Call : step[c] = "running" => Running = {c} /\ record.owner = c
  BY DEF Owned, Running
<1>unseen. ASSUME UNCHANGED <<answer, effects, blamed>>, Holder' = Holder, Running' = Running
           PROVE  [Once!Next]_Once!vars
  BY <1>unseen DEF Once!vars, Running
<1>take. ASSUME NEW c \in Call, NEW s \in {"load", "reload"}, step[c] \in Trying, TakeOr(c, s),
                UNCHANGED <<answer, effects, blamed>>
         PROVE  [Once!Next]_Once!vars
  <2>1. CASE record = NoRecord
    <3>1. Running' = {c}
      BY <1>type, <1>free, <1>take, <2>1 DEF TakeOr, Goto, Running
    <3>2. Holder' = Holder
      <4>1. c \notin effects /\ record'.owner = c
        BY <1>take, <2>1, <1>untouched, RecordFields DEF TakeOr, Once!Waiting
      <4> QED
        BY <1>free, <1>take, <2>1, <4>1 DEF Holder
    <3>3. Once!Start(c)
      BY <1>take, <1>free, <1>untouched, <2>1, <3>1, <3>2 DEF Once!Start, Running
    <3> QED
      BY <3>3 DEF Once!Next
  <2>2. CASE record # NoRecord
    <3>1. record' = record /\ step' = [step EXCEPT ![c] = s]
      BY <1>take, <2>2 DEF TakeOr, Goto
    <3>2. Running' = Running /\ Holder' = Holder
      BY <1>type, <1>take, <3>1 DEF Running, Holder, Trying
    <3> QED
      BY <1>take, <1>unseen, <3>2
  <2> QED
    BY <2>1, <2>2
<1>turn. ASSUME NEW c \in Call, step[c] \in Trying, replay_or_conflict(c, record),
                UNCHANGED <<record, outcome, effects>>
         PROVE  [Once!Next]_Once!vars
  <2>1. /\ step' = [step EXCEPT ![c] = "over"]
        /\ blamed' = [blamed EXCEPT ![c] = record.owner]
    BY <1>turn DEF replay_or_conflict, Goto
  <2>2. Running' = Running /\ Holder' = Holder
    BY <1>type, <1>turn, <2>1 DEF Running, Holder, Trying
  <2>3. answer[c] = "none" /\ Once!Waiting(c)
    BY <1>turn, <1>untouched DEF InOrder
  <2>4. CASE record = NoRecord
    <3>1. answer' = [answer EXCEPT ![c] = "mismatch"] /\ record.owner = NoCall
      BY <1>turn, <1>noone, <2>4 DEF replay_or_conflict, Reply
    <3>2. Once!Missed(c)
      BY <1>turn, <2>1, <2>2, <2>3, <3>1 DEF Once!Missed, Once!TurnAway, Once!Tell, Running
    <3> QED
      BY <3>2 DEF Once!Next
  <2>5. CASE record # NoRecord
    <3> DEFINE b == record.owner
    <3>1. b \in Call /\ b # c /\ record.print = Fingerprint[b]
      BY <1>turn, <2>5 DEF RecordStands, InOrder
    <3>2. CASE record.print # Fingerprint[c]
      <4>1. answer' = [answer EXCEPT ![c] = "mismatch"]
        BY <1>turn, <3>2 DEF replay_or_conflict, Reply
      <4>2. Once!Mismatch(c, b)
        BY <1>turn, <2>1, <2>2, <2>3, <3>1, <3>2, <4>1
           DEF Once!Mismatch, Once!TurnAway, Once!Tell, Running
      <4> QED
        BY <3>1, <4>2 DEF Once!Next
    <3>3. CASE record.print = Fingerprint[c] /\ record.state = "in_progress"
      <4>1. answer' = [answer EXCEPT ![c] = "in progress"]
        BY <1>turn, <2>5, <3>3 DEF replay_or_conflict, Reply
      <4>2. Once!InProgress(c, b)
        BY <1>turn, <2>1, <2>2, <2>3, <3>1, <3>3, <4>1
           DEF Once!InProgress, Once!TurnAway, Once!Tell, Running
      <4> QED
        BY <3>1, <4>2 DEF Once!Next
    <3>4. CASE record.print = Fingerprint[c] /\ record.state # "in_progress"
      <4>1. answer' = [answer EXCEPT ![c] = "replay"]
        BY <1>turn, <2>5, <3>4 DEF replay_or_conflict, Reply
      <4>2. answer[b] = "own"
        BY <2>5, <3>4 DEF RecordStands, Replayable, TypeOK
      <4>3. Once!Replay(c, b)
        BY <1>turn, <2>1, <2>2, <2>3, <3>1, <3>4, <4>1, <4>2
           DEF Once!Replay, Once!Tell, Running
      <4> QED
        BY <3>1, <4>3 DEF Once!Next
    <3> QED
      BY <3>2, <3>3, <3>4
  <2> QED
    BY <2>4, <2>5
<1>1. CASE UNCHANGED vars
  BY <1>1, <1>unseen DEF vars, Holder, Running
<1>2. CASE expire
  <2>1. /\ record # NoRecord /\ record' = NoRecord /\ step[record.owner] = "over"
        /\ UNCHANGED <<step, answer, effects, blamed>>
    BY <1>2 DEF expire
  <2>2. Running' = Running /\ Holder' = NoCall
    BY <1>noone, <2>1 DEF Running, Holder
  <2>3. CASE Holder = NoCall
    BY <1>unseen, <2>1, <2>2, <2>3
  <2>4. CASE Holder # NoCall
    <3>1. Holder \in Call /\ answer[Holder] # "none"
      BY <1>type, <2>1, <2>4 DEF Holder, InOrder, Trying
    <3>2. Once!GiveUp
      BY <2>1, <2>2, <2>4, <3>1 DEF Once!GiveUp, Running
    <3> QED
      BY <3>2 DEF Once!Next
  <2> QED
    BY <2>3, <2>4
<1>3. ASSUME NEW c \in Call, send(c) PROVE [Once!Next]_Once!vars
  BY <1>3, <1>take DEF send, Unstarted, Trying
<1>4. ASSUME NEW c \in Call, load(c) PROVE [Once!Next]_Once!vars
  <2>1. CASE record = NoRecord
    <3>1. /\ step' = [step EXCEPT ![c] = "retake"] /\ step[c] = "load"
          /\ UNCHANGED <<record, answer, blamed, effects>>
      BY <1>4, <2>1 DEF load, Goto, Unstarted
    <3>2. Running' = Running /\ Holder' = Holder
      BY <1>type, <3>1 DEF Running, Holder
    <3> QED
      BY <1>unseen, <3>1, <3>2
  <2>2. CASE record # NoRecord
    BY <1>4, <1>turn, <2>2 DEF load, Unstarted, Trying
  <2> QED
    BY <2>1, <2>2
<1>5. ASSUME NEW c \in Call, retake(c) PROVE [Once!Next]_Once!vars
  BY <1>5, <1>take DEF retake, Unstarted, Trying
<1>6. ASSUME NEW c \in Call, reload(c) PROVE [Once!Next]_Once!vars
  BY <1>6, <1>turn DEF reload, Unstarted, Trying
<1>7. ASSUME NEW c \in Call, execute(c) PROVE [Once!Next]_Once!vars
  <2>1. PICK o \in Possible : effects' = IF o \in Commits THEN effects \cup {c} ELSE effects
    BY <1>7 DEF execute
  <2>2. step[c] = "running" /\ outcome[c] = "none" /\ UNCHANGED <<record, step, answer, blamed>>
    BY <1>7 DEF execute
  <2>3. c \notin effects /\ record.owner = c /\ Running = {c} /\ Running' = Running
    BY <1>alone, <2>2 DEF InOrder, Commits, Running
  <2>4. CASE o \in Commits
    <3>1. Holder = NoCall /\ Holder' = c
      BY <2>1, <2>2, <2>3, <2>4 DEF Holder
    <3>2. Once!Change(c)
      BY <2>1, <2>2, <2>3, <2>4, <3>1 DEF Once!Change, Running
    <3> QED
      BY <3>2 DEF Once!Next
  <2>5. CASE o \notin Commits
    BY <1>unseen, <2>1, <2>2, <2>3, <2>5 DEF Holder
  <2> QED
    BY <2>4, <2>5
<1>8. ASSUME NEW c \in Call, respond(c) PROVE [Once!Next]_Once!vars
  <2>1. /\ step[c] = "running" /\ step' = [step EXCEPT ![c] = "answered"]
        /\ answer' = [answer EXCEPT ![c] = IF outcome[c] = "failed" THEN "error" ELSE "own"]
        /\ UNCHANGED <<record, effects, blamed>>
    BY <1>8 DEF respond, Goto, Reply
  <2>2. Running = {c} /\ Running' = {} /\ Holder' = Holder /\ answer[c] = "none"
    <3>1. Running = {c} /\ answer[c] = "none"
      BY <1>alone, <2>1 DEF InOrder
    <3>2. Running' = {}
      BY <1>type, <2>1, <3>1 DEF Running
    <3> QED
      BY <2>1, <3>1, <3>2 DEF Holder
  <2>3. CASE outcome[c] = "failed"
    <3>1. Once!Error(c)
      BY <2>1, <2>2, <2>3 DEF Once!Error, Once!Tell, Running
    <3> QED
      BY <3>1 DEF Once!Next
  <2>4. CASE outcome[c] # "failed"
    <3>1. Once!Answer(c)
      BY <2>1, <2>2, <2>4 DEF Once!Answer, Once!Tell, Running
    <3> QED
      BY <3>1 DEF Once!Next
  <2> QED
    BY <2>3, <2>4
<1>9. ASSUME NEW c \in Call, store(c) PROVE [Once!Next]_Once!vars
  <2>1. /\ step[c] = "answered" /\ step' = [step EXCEPT ![c] = "over"]
        /\ record' \in {NoRecord, Record("done", c)}
        /\ UNCHANGED <<answer, effects, blamed>>
    BY <1>9 DEF store, Release, Goto
  <2>2. Running' = Running /\ record.owner = c /\ answer[c] # "none"
    BY <1>type, <2>1 DEF Running, Owned, InOrder, Trying
  <2>3. CASE Holder' = Holder
    BY <1>unseen, <2>1, <2>2, <2>3
  <2>4. CASE Holder' # Holder
    <3>1. Holder = c /\ Holder' = NoCall
      BY <1>noone, <2>1, <2>2, <2>4, RecordFields DEF Holder
    <3>2. Once!GiveUp
      BY <2>1, <2>2, <2>4, <3>1 DEF Once!GiveUp, Running
    <3> QED
      BY <3>2 DEF Once!Next
  <2> QED
    BY <2>3, <2>4
<1>10. ASSUME NEW c \in Call, abort(c) PROVE [Once!Next]_Once!vars
  <2>1. /\ step[c] = "running" /\ step' = [step EXCEPT ![c] = "over"] /\ record' = NoRecord
        /\ answer' = [answer EXCEPT ![c] = "error"] /\ UNCHANGED <<effects, blamed>>
    BY <1>10 DEF abort, Release, Goto, Reply
  <2>2. record.owner = c /\ answer[c] = "none"
    BY <1>alone, <2>1 DEF InOrder
  <2>3. Running' = Running \ {c}
    BY <1>type, <2>1 DEF Running
  <2>4. Holder' = IF Holder = c THEN NoCall ELSE Holder
    BY <1>noone, <2>1, <2>2 DEF Holder
  <2>5. Once!Error(c)
    BY <2>1, <2>2, <2>3, <2>4 DEF Once!Error, Once!Tell, Running
  <2> QED
    BY <2>5 DEF Once!Next
<1>11. ASSUME NEW c \in Call, fault(c) PROVE [Once!Next]_Once!vars
  <2>1. /\ step' = [step EXCEPT ![c] = "over"]
        /\ answer' = [answer EXCEPT ![c] = IF answer[c] = "none" THEN "error" ELSE answer[c]]
        /\ UNCHANGED <<record, effects, blamed>>
    BY <1>11 DEF fault, Goto, Reply
  <2>2. Running' = Running \ {c} /\ Holder' = Holder
    BY <1>type, <2>1 DEF Running, Holder
  <2>3. CASE answer[c] = "none"
    <3>1. Once!Error(c)
      BY <2>1, <2>2, <2>3 DEF Once!Error, Once!Tell, Running
    <3> QED
      BY <3>1 DEF Once!Next
  <2>4. CASE answer[c] # "none"
    <3>1. step[c] # "running" /\ answer' = answer
      BY <1>type, <2>1, <2>4 DEF InOrder
    <3> QED
      BY <1>unseen, <2>1, <2>2, <3>1 DEF Running
  <2> QED
    BY <2>3, <2>4
<1> QED
  BY <1>1, <1>2, <1>3, <1>4, <1>5, <1>6, <1>7, <1>8, <1>9, <1>10, <1>11 DEF Next

\* The middleware with its five accesses to Redis implements OnceOnly: whatever
\* calls, faults and expiries interleave, each step is a step a client may rely
\* on or one it cannot see (IdempotencyMiddleware, _execute_and_store).
THEOREM ImplementsOnceOnly == Spec => KeepsPromise
BY PromiseInit, PromiseNext, InOrderAlways, TypeCorrect, OwnedAlways, StandsAlways, PTL
   DEF Spec, KeepsPromise, Once!Spec
=============================================================================
