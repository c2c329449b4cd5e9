----------------------- MODULE PostingReversalsProofs -----------------------
(***************************************************************************)
(* Proofs about module PostingReversals, for any transactions, entries,    *)
(* runs, lag and batch, and any number of faults.                          *)
(***************************************************************************)
EXTENDS PostingReversals, FiniteSetTheorems, TLAPS

-----------------------------------------------------------------------------
(* The inductive invariant. *)

\* An entry is reversed exactly when its event is visible.
EventsTellTheTruth ==
  \A e \in Entry :
    /\ reversal[e].status = "open" => entry[e] = "posted"
    /\ reversal[e].status = "committed" <=> entry[e] = "reversed"

\* Nothing refers to an entry that does not exist yet; what was counted or handled is reversed.
NothingAhead ==
  /\ \A t \in Transaction : bank[t].entry # NoEntry => entry[bank[t].entry] # "unused"
  /\ \A e \in Entry :
       /\ review[e] = "open" => e \in Reviewed /\ entry[e] # "unused"
       /\ example[e] > 0 => entry[e] = "reversed" /\ review[e] # "open"

\* What a run has read and will commit.
Batch(r) == job[r].todo \cup job[r].handled \cup job[r].failed

RunIsSound(r) ==
  /\ job[r].status = "idle" => job[r] = Idle
  /\ \A e \in Batch(r) : entry[e] = "reversed"
  /\ job[r].fresh \subseteq job[r].handled
  /\ job[r].status = "looked" =>
       /\ job[r].event \in job[r].todo
       /\ job[r].seen => example[job[r].event] > 0
  /\ \A e \in job[r].handled :
       /\ e \in job[r].fresh \/ example[e] > 0
       /\ Carriers(e) \subseteq job[r].reopened
  /\ \A t \in job[r].reopened :
       bank[t].entry # NoEntry /\ entry[bank[t].entry] = "reversed"

\* A run that commits moves the watermark over its batch and over nothing else that counts.
RunSkipsNothing(r) ==
  job[r].status # "idle" =>
    /\ job[r].last \in Entry
    /\ reversal[job[r].last].status = "committed"
    /\ reversal[job[r].last].at <= Cutoff
    /\ \A e \in Entry :
         reversal[e].status = "committed" /\ ~reversal[e].late /\ Precedes(e, job[r].last)
           => e \in Batch(r) \/ fate[e] # "pending"

\* What is not imported carries nothing; one entry is carried within one pair only.
CarriedTogether ==
  \A t \in Transaction :
    /\ bank[t].status = "absent" => bank[t].entry = NoEntry
    /\ \A s \in Transaction :
         bank[s].entry = bank[t].entry /\ bank[t].entry # NoEntry => s \in Group[t]

\* No row is held twice.
RowsApart ==
  \A t \in Transaction :
    /\ HeldByJob(t) => ~HeldByPerson(t) /\ ~HeldByRunner(t)
    /\ HeldByPerson(t) => ~HeldByRunner(t)

\* What the runner will commit is not in use yet, and settles all of a pair that is imported
\* and carries no posting in force.
RunnerIsSound ==
  \A t \in Made :
    /\ entry[runner.made[t]] = "unused" /\ bank[t].status # "absent"
    /\ \A s \in Group[t] : /\ ~InForce(s)
                           /\ runner.made[s] = runner.made[t] \/ bank[s].status = "absent"
    /\ \A s \in Transaction : runner.made[s] = runner.made[t] => s \in Group[t]

IInv ==
  /\ TypeOK
  /\ EventsTellTheTruth
  /\ NothingAhead
  /\ CarriedTogether
  /\ RowsApart
  /\ RunnerIsSound
  /\ \A r \in Run : RunIsSound(r)
  /\ \A r \in Run : RunSkipsNothing(r)
  /\ watermark.at <= Cutoff
  /\ NoSecondEffect
  /\ HandledIsUndone
  /\ NoneSkipped

-----------------------------------------------------------------------------
(* Types. *)

LEMMA ChargedIsFinite ==
  ASSUME TypeOK, NEW r \in Run
  PROVE  Charged(r) \subseteq Entry /\ IsFiniteSet(Charged(r)) /\ Cardinality(Charged(r)) \in Nat
<1>1. Charged(r) \subseteq Entry
  BY DEF TypeOK, JobRow, Charged
<1>2. IsFiniteSet(Charged(r))
  BY <1>1, ReversalsAssumption, FS_Subset
<1> QED
  BY <1>1, <1>2, FS_CardinalityType

LEMMA LoweredState ==
  ASSUME NEW state \in {"approved", "active", "disabled"}, NEW n
  PROVE  Lowered(state, n) \in {"approved", "active", "disabled"}
BY DEF Lowered

LEMMA Published ==
  ASSUME TypeOK, NEW e \in Entry, Publish(e)
  PROVE  reversal' \in [Entry -> [status : {"none", "open", "committed"}, at : Moment,
                                 reason : Reason, of : BOOLEAN, late : BOOLEAN]]
<1> DEFINE row == [reversal[e] EXCEPT !.status = "committed", !.of = FALSE,
                                      !.late = now - reversal[e].at >= Lag]
<1>1. row \in [status : {"none", "open", "committed"}, at : Moment,
               reason : Reason, of : BOOLEAN, late : BOOLEAN]
  <2>1. reversal[e] \in [status : {"none", "open", "committed"}, at : Moment,
                         reason : Reason, of : BOOLEAN, late : BOOLEAN]
    BY DEF TypeOK
  <2>2. (now - reversal[e].at >= Lag) \in BOOLEAN
    OBVIOUS
  <2> QED
    BY <2>1, <2>2
<1>2. reversal' = [reversal EXCEPT ![e] = row]
  BY DEF Publish
<1> QED
  BY <1>1, <1>2 DEF TypeOK

LEMMA IdleIsRow == Idle \in JobRow
BY DEF Idle, JobRow, NoEntry

LEMMA TypeInit == Init => TypeOK
<1> SUFFICES ASSUME Init PROVE TypeOK
  OBVIOUS
<1> USE ReversalsAssumption DEF Init
<1>1. job \in [Run -> JobRow]
  BY IdleIsRow
<1>2. reversal \in [Entry -> [status : {"none", "open", "committed"}, at : Moment,
                              reason : Reason, of : BOOLEAN, late : BOOLEAN]]
  BY DEF NoReversal, Moment, Reason
<1>3. watermark \in [at : -1..LastMoment, last : Entry \cup {NoEntry}] /\ now \in Moment
  BY DEF Moment
<1>4. bank \in [Transaction -> [status : {"absent", "new", "booked"}, entry : Entry \cup {NoEntry}]]
  OBVIOUS
<1>5. /\ entry \in [Entry -> {"unused", "posted", "reversed"}]
      /\ review \in [Entry -> {"none", "open", "closed"}] /\ moves \in [Entry -> SUBSET Transaction]
      /\ example \in [Entry -> Nat]
      /\ fate \in [Entry -> {"pending", "handled", "failed", "history"}]
  OBVIOUS
<1>6. rule \in [state : {"approved", "active", "disabled"}, contradictions : Nat]
  OBVIOUS
<1>7. lock \in {"free", "held", "left"} /\ unlocked \in BOOLEAN
  OBVIOUS
<1>8. faults \in 0..MaxFaults
  OBVIOUS
<1>9. runner \in [chosen : SUBSET Transaction, made : [Transaction -> Automatic \cup {NoEntry}]]
  BY DEF NoRun
<1> QED
  BY <1>1, <1>2, <1>3, <1>4, <1>5, <1>6, <1>7, <1>8, <1>9 DEF TypeOK

LEMMA MovedIsPart ==
  ASSUME NEW t \in Transaction, NEW e, NEW M \in Moved(t, e)
  PROVE  M \in SUBSET Transaction
BY ReversalsAssumption DEF Moved, Settled, Imported

LEMMA NoRunIsRow ==
  NoRun \in [chosen : SUBSET Transaction, made : [Transaction -> Automatic \cup {NoEntry}]]
BY DEF NoRun

\* Every row of bank, ledger, review, rule and job stays within its columns.
LEMMA TypeStep == IInv /\ [Next]_vars => TypeOK'
<1> SUFFICES ASSUME IInv, [Next]_vars PROVE TypeOK'
  OBVIOUS
<1>0. TypeOK /\ \A r \in Run : RunIsSound(r) /\ RunSkipsNothing(r)
  BY DEF IInv
<1> USE DEF Moment, Reason
<1>1. ASSUME NEW t \in Transaction, NEW e \in Entry, Book(t, e) PROVE TypeOK'
  <2>1. bank' \in [Transaction ->
                     [status : {"absent", "new", "booked"}, entry : Entry \cup {NoEntry}]]
    BY <1>0, <1>1 DEF TypeOK, Book, Carry
  <2>2. moves' \in [Entry -> SUBSET Transaction]
    BY <1>0, <1>1, MovedIsPart DEF TypeOK, Book
  <2>3. entry' \in [Entry -> {"unused", "posted", "reversed"}]
    BY <1>0, <1>1 DEF TypeOK, Book
  <2> QED
    BY <1>0, <1>1, <2>1, <2>2, <2>3 DEF TypeOK, Book, jobVars
<1>2. ASSUME NEW e \in Entry, NEW reason \in Reason, NEW of \in BOOLEAN, Begin(e, reason, of)
      PROVE  TypeOK'
  BY <1>0, <1>2 DEF TypeOK, Begin, jobVars, userVars
<1>3. ASSUME NEW e \in Entry, Commit(e) PROVE TypeOK'
  <2>1. CASE CommitReverse(e)
    <3>1. reversal' \in [Entry -> [status : {"none", "open", "committed"}, at : Moment,
                                   reason : Reason, of : BOOLEAN, late : BOOLEAN]]
      BY <1>0, <2>1, Published DEF TypeOK, CommitReverse
    <3> QED
      BY <1>0, <2>1, <3>1 DEF TypeOK, CommitReverse, jobVars
  <2>2. CASE Rollback(e)
    BY <1>0, <2>2, ReversalsAssumption DEF TypeOK, Rollback, NoReversal, jobVars, userVars
  <2>3. ASSUME NEW new \in Entry, CommitCorrect(e, new) PROVE TypeOK'
    <3>1. reversal' \in [Entry -> [status : {"none", "open", "committed"}, at : Moment,
                                   reason : Reason, of : BOOLEAN, late : BOOLEAN]]
      BY <1>0, <2>3, Published DEF TypeOK, CommitCorrect
    <3>2. bank' \in [Transaction ->
                     [status : {"absent", "new", "booked"}, entry : Entry \cup {NoEntry}]]
      BY <1>0, <2>3 DEF TypeOK, CommitCorrect, Carry
    <3>3. moves' \in [Entry -> SUBSET Transaction]
      BY <1>0, <2>3, MovedIsPart DEF TypeOK, CommitCorrect
    <3>4. /\ entry' \in [Entry -> {"unused", "posted", "reversed"}]
          /\ review' \in [Entry -> {"none", "open", "closed"}]
      BY <1>0, <2>3 DEF TypeOK, CommitCorrect
    <3> QED
      BY <1>0, <2>3, <3>1, <3>2, <3>3, <3>4 DEF TypeOK, CommitCorrect, jobVars
  <2> QED
    BY <1>3, <2>1, <2>2, <2>3 DEF Commit
<1>4. ASSUME NEW e \in Entry, Decide(e) PROVE TypeOK'
  BY <1>0, <1>4 DEF TypeOK, Decide, jobVars
<1>5. ASSUME NEW t \in Transaction, Import(t) PROVE TypeOK'
  <2>1. bank' \in [Transaction ->
                     [status : {"absent", "new", "booked"}, entry : Entry \cup {NoEntry}]]
    <3>1. bank \in [Transaction ->
                      [status : {"absent", "new", "booked"}, entry : Entry \cup {NoEntry}]]
      BY <1>0 DEF TypeOK
    <3>2. bank' = [bank EXCEPT ![t].status = "new"]
      BY <1>5 DEF Import
    <3> QED
      BY <3>1, <3>2
  <2>2. UNCHANGED <<now, moves, entry, review, reversal, example, rule, runner, jobVars>>
    BY <1>5 DEF Import
  <2> QED
    BY <1>0, <2>1, <2>2 DEF TypeOK, jobVars
<1>6. CASE Activate \/ Disable
  <2>1. rule' \in [state : {"approved", "active", "disabled"}, contradictions : Nat]
    BY <1>0, <1>6 DEF TypeOK, Activate, Disable
  <2> QED
    BY <1>0, <1>6, <2>1 DEF TypeOK, Activate, Disable, jobVars, userVars
<1>7. CASE FirstRun
  BY <1>0, <1>7, ReversalsAssumption DEF TypeOK, FirstRun, Cutoff, userVars
<1>8. ASSUME NEW r \in Run, NEW locked \in BOOLEAN, Read(r, locked),
             lock' \in {"free", "held", "left"}, faults' \in 0..MaxFaults, unlocked' \in BOOLEAN
      PROVE  TypeOK'
  <2>1. PICK S \in SUBSET Due, last \in Due :
          job' = [job EXCEPT ![r] = [Idle EXCEPT !.status = "handling", !.locked = locked,
                                                 !.todo = S, !.last = last]]
    BY <1>8 DEF Read
  <2>2. S \subseteq Entry /\ last \in Entry
    BY DEF Due
  <2>3. [Idle EXCEPT !.status = "handling", !.locked = locked, !.todo = S, !.last = last]
          \in JobRow
    BY <2>2 DEF Idle, JobRow
  <2>4. job' \in [Run -> JobRow]
    BY <1>0, <2>1, <2>3 DEF TypeOK
  <2> QED
    BY <1>0, <1>8, <2>4 DEF TypeOK, Read, userVars
<1>9. ASSUME NEW r \in Run, Look(r) PROVE TypeOK'
  <2>1. PICK e \in Entry :
          job' = [job EXCEPT ![r].status = "looked", ![r].event = e, ![r].seen = example[e] > 0]
    BY <1>9 DEF Look
  <2>0. job[r] \in JobRow /\ (example[e] > 0) \in BOOLEAN
    BY <1>0 DEF TypeOK
  <2>2. [job[r] EXCEPT !.status = "looked", !.event = e, !.seen = example[e] > 0] \in JobRow
    BY <2>0 DEF JobRow
  <2>3. job' \in [Run -> JobRow]
    BY <1>0, <2>1, <2>2 DEF TypeOK
  <2> QED
    BY <1>0, <1>9, <2>3 DEF TypeOK, Look, userVars
<1>10. ASSUME NEW r \in Run, Handle(r) \/ Fail(r) PROVE TypeOK'
  <2>1. job[r].event \in Entry
    BY <1>0, <1>10 DEF TypeOK, JobRow, RunIsSound, Batch, Handle, Fail
  <2>2. CASE Handle(r)
    <3>1. Carriers(job[r].event) \subseteq Transaction
      BY DEF Carriers
    <3> DEFINE e == job[r].event
               row == [job[r] EXCEPT !.status = "handling", !.todo = @ \ {e},
                                     !.handled = @ \cup {e},
                                     !.fresh = IF job[r].seen THEN @ ELSE @ \cup {e},
                                     !.reopened = @ \cup Carriers(e)]
    <3>0. job[r] \in JobRow
      BY <1>0 DEF TypeOK
    <3>2. row \in JobRow
      BY <2>1, <3>0, <3>1 DEF JobRow
    <3>3. job' = [job EXCEPT ![r] = row]
      BY <2>2 DEF Handle
    <3> HIDE DEF row
    <3>4. job' \in [Run -> JobRow]
      BY <1>0, <3>2, <3>3 DEF TypeOK
    <3> QED
      BY <1>0, <2>2, <3>4 DEF TypeOK, Handle, userVars
  <2>3. CASE Fail(r)
    <3> DEFINE row == [job[r] EXCEPT !.status = "handling", !.todo = @ \ {job[r].event},
                                     !.failed = @ \cup {job[r].event}]
    <3>0. job[r] \in JobRow
      BY <1>0 DEF TypeOK
    <3>1. row \in JobRow
      BY <2>1, <3>0 DEF JobRow
    <3>2. job' = [job EXCEPT ![r] = row]
      BY <2>3 DEF Fail
    <3> HIDE DEF row
    <3>3. job' \in [Run -> JobRow]
      BY <1>0, <3>1, <3>2 DEF TypeOK
    <3>4. faults' \in 0..MaxFaults
      BY <1>0, <2>3, ReversalsAssumption DEF TypeOK, Fail
    <3> QED
      BY <1>0, <2>3, <3>3, <3>4 DEF TypeOK, Fail, userVars
  <2> QED
    BY <1>10, <2>2, <2>3
<1>11. ASSUME NEW r \in Run, Finish(r) PROVE TypeOK'
  <2>1. job[r].last \in Entry
    BY <1>0, <1>11 DEF RunSkipsNothing, Finish
  <2>2. bank' \in [Transaction ->
                     [status : {"absent", "new", "booked"}, entry : Entry \cup {NoEntry}]]
    <3>1. ASSUME NEW t \in Transaction
          PROVE  /\ bank[t] \in [status : {"absent", "new", "booked"}, entry : Entry \cup {NoEntry}]
                 /\ [bank[t] EXCEPT !.status = "new"]
                      \in [status : {"absent", "new", "booked"}, entry : Entry \cup {NoEntry}]
      <4>1. bank[t] \in [status : {"absent", "new", "booked"}, entry : Entry \cup {NoEntry}]
        BY <1>0 DEF TypeOK
      <4> QED
        BY <4>1
    <3>2. bank' = [t \in Transaction |-> IF t \in job[r].reopened
                                         THEN [bank[t] EXCEPT !.status = "new"] ELSE bank[t]]
      BY <1>11 DEF Finish
    <3> QED
      BY <3>1, <3>2
  <2>3. rule' \in [state : {"approved", "active", "disabled"}, contradictions : Nat]
    <3>1. rule.state \in {"approved", "active", "disabled"} /\ rule.contradictions \in Nat
      BY <1>0 DEF TypeOK
    <3>2. Cardinality(Charged(r)) \in Nat
      BY <1>0, ChargedIsFinite
    <3> QED
      BY <1>11, <3>1, <3>2, LoweredState DEF Finish
  <2>4. watermark' \in [at : -1..LastMoment, last : Entry \cup {NoEntry}]
    BY <1>0, <1>11, <2>1, ReversalsAssumption DEF TypeOK, Finish
  <2>5. example' \in [Entry -> Nat] /\ review' \in [Entry -> {"none", "open", "closed"}]
    BY <1>0, <1>11 DEF TypeOK, Finish
  <2>6. fate' \in [Entry -> {"pending", "handled", "failed", "history"}]
    BY <1>0, <1>11 DEF TypeOK, Finish
  <2>7. lock' \in {"free", "held", "left"}
    BY <1>0, <1>11 DEF TypeOK, Finish
  <2>8. job' \in [Run -> JobRow]
    BY <1>0, <1>11, IdleIsRow DEF TypeOK, Finish
  <2>9. faults' \in 0..MaxFaults
    BY <1>0, <1>11, ReversalsAssumption DEF TypeOK, Finish
  <2> QED
    BY <1>0, <1>11, <2>2, <2>3, <2>4, <2>5, <2>6, <2>7, <2>8, <2>9 DEF TypeOK, Finish
<1>12. ASSUME NEW r \in Run, Kill(r) PROVE TypeOK'
  <2>1. job' \in [Run -> JobRow]
    BY <1>0, <1>12, IdleIsRow DEF TypeOK, Kill
  <2>2. lock' \in {"free", "held", "left"}
    BY <1>0, <1>12 DEF TypeOK, Kill
  <2>3. faults' \in 0..MaxFaults
    BY <1>0, <1>12, ReversalsAssumption DEF TypeOK, Kill
  <2> QED
    BY <1>0, <1>12, <2>1, <2>2, <2>3 DEF TypeOK, Kill, userVars
<1>13. CASE Expire \/ Tick
  <2>1. CASE Expire
    BY <1>0, <2>1 DEF TypeOK, Expire, userVars
  <2>2. CASE Tick
    <3>1. now' \in Lag..LastMoment
      BY <1>0, <2>2, ReversalsAssumption DEF TypeOK, Tick
    <3> QED
      BY <1>0, <2>2, <3>1 DEF TypeOK, Tick, jobVars, userVars
  <2> QED
    BY <1>13, <2>1, <2>2
<1>14. CASE UNCHANGED vars
  BY <1>0, <1>14 DEF TypeOK, vars, userVars, jobVars
<1>15. ASSUME NEW t \in Transaction, NEW reason \in Reason, BeginCorrect(t, reason) PROVE TypeOK'
  <2>0. bank[t].entry \in Entry \cup {NoEntry}
    BY <1>0 DEF TypeOK
  <2>1. bank[t].entry \in Entry /\ Begin(bank[t].entry, reason, TRUE)
    BY <2>0, <1>15 DEF BeginCorrect, InForce
  <2> QED
    BY <1>2, <2>1
<1>16. ASSUME NEW r \in Run, Start(r) \/ StartUnlocked(r) PROVE TypeOK'
  <2>1. CASE Start(r)
    BY <1>0, <1>8, <2>1 DEF Start, TypeOK
  <2>2. CASE StartUnlocked(r)
    <3>1. faults' \in 0..MaxFaults
      BY <1>0, <2>2, ReversalsAssumption DEF TypeOK, StartUnlocked
    <3> QED
      BY <1>0, <1>8, <2>2, <3>1 DEF StartUnlocked, TypeOK
  <2> QED
    BY <1>16, <2>1, <2>2
<1>17. CASE RunnerWorks \/ RunnerEnds
  <2> DEFINE Row == [chosen : SUBSET Transaction, made : [Transaction -> Automatic \cup {NoEntry}]]
  <2>0. runner \in Row
    BY <1>0 DEF TypeOK
  <2>1. ASSUME NEW t \in Transaction, RunnerChoose(t) PROVE TypeOK'
    <3>1. runner' \in Row
      BY <2>0, <2>1 DEF RunnerChoose
    <3> QED
      BY <1>0, <2>1, <3>1 DEF TypeOK, RunnerChoose, jobVars, userVars
  <2>2. ASSUME NEW t \in Transaction, NEW e \in Automatic, RunnerPost(t, e) PROVE TypeOK'
    <3>1. [s \in Transaction |-> IF s \in Imported(Group[t]) THEN e ELSE runner.made[s]]
            \in [Transaction -> Automatic \cup {NoEntry}]
      BY <2>0
    <3>2. runner' \in Row
      BY <2>2, <3>1 DEF RunnerPost
    <3> QED
      BY <1>0, <2>2, <3>2 DEF TypeOK, RunnerPost, jobVars, userVars
  <2>3. CASE RunnerRefuse
    <3>1. runner' \in Row
      BY <2>0, <2>3 DEF RunnerRefuse
    <3> QED
      BY <1>0, <2>3, <3>1 DEF TypeOK, RunnerRefuse, jobVars, userVars
  <2>4. CASE RunnerRollback
    BY <1>0, <2>4, NoRunIsRow DEF TypeOK, RunnerRollback, jobVars, userVars
  <2>5. CASE RunnerCommit
    <3>1. bank' \in [Transaction ->
                       [status : {"absent", "new", "booked"}, entry : Entry \cup {NoEntry}]]
      BY <1>0, <2>0, <2>5, ReversalsAssumption DEF TypeOK, RunnerCommit
    <3>2. /\ moves' \in [Entry -> SUBSET Transaction]
          /\ entry' \in [Entry -> {"unused", "posted", "reversed"}]
          /\ review' \in [Entry -> {"none", "open", "closed"}]
      BY <1>0, <2>5 DEF TypeOK, RunnerCommit, Made
    <3> QED
      BY <1>0, <2>5, <3>1, <3>2, NoRunIsRow DEF TypeOK, RunnerCommit, jobVars
  <2> QED
    BY <1>17, <2>1, <2>2, <2>3, <2>4, <2>5 DEF RunnerWorks, RunnerEnds
<1> QED
  BY <1>1, <1>2, <1>3, <1>4, <1>5, <1>6, <1>7, <1>9, <1>10, <1>11, <1>12, <1>13, <1>14, <1>15,
     <1>16, <1>17 DEF Next, User, Job, Fault, BeginReverse

LEMMA Times ==
  ASSUME TypeOK
  PROVE  /\ \A e \in Entry : reversal[e].at \in Int
         /\ now \in Int /\ Cutoff \in Int /\ watermark.at \in Int
<1>1. \A e \in Entry : reversal[e].at \in Moment
  BY DEF TypeOK
<1>2. Moment \subseteq Int
  BY ReversalsAssumption DEF Moment
<1> QED
  BY <1>1, <1>2, ReversalsAssumption DEF TypeOK, Cutoff, Moment

-----------------------------------------------------------------------------
(* Pairs and the rows held. *)

LEMMA Pairs ==
  ASSUME NEW t \in Transaction
  PROVE  /\ t \in Group[t] /\ Group[t] \subseteq Transaction
         /\ \A s \in Group[t] : Group[s] = Group[t] /\ t \in Group[s]
BY ReversalsAssumption

LEMMA HeldTogether ==
  ASSUME NEW t \in Transaction, NEW s \in Group[t]
  PROVE  /\ HeldByPerson(s) <=> HeldByPerson(t)
         /\ HeldByRunner(s) <=> HeldByRunner(t)
BY Pairs DEF HeldByPerson, HeldByRunner

LEMMA CarriedEntries ==
  ASSUME IInv, NEW t \in Transaction
  PROVE  /\ bank[t].entry \in Entry \cup {NoEntry} /\ NoEntry \notin Entry
         /\ bank[t].entry # NoEntry => /\ bank[t].entry \in Entry
                                       /\ entry[bank[t].entry] # "unused"
BY ReversalsAssumption DEF IInv, TypeOK, NothingAhead, NoEntry

\* A step that takes no further row.
LEMMA NoRowTaken ==
  ASSUME IInv,
         \A t \in Transaction : /\ HeldByPerson(t)' => HeldByPerson(t)
                                /\ HeldByRunner(t)' => HeldByRunner(t)
                                /\ HeldByJob(t)' => HeldByJob(t)
  PROVE  RowsApart'
BY DEF IInv, RowsApart

\* A step that leaves the pairs alone for which the runner has posted.
LEMMA RunnerStands ==
  ASSUME IInv, runner' = runner,
         \A t \in Made : \A s \in Group[t] :
           /\ bank'[s].entry = bank[s].entry
           /\ bank'[s].status = "absent" <=> bank[s].status = "absent",
         \A e \in Automatic : entry[e] = "unused" => entry'[e] = "unused",
         \A e \in Entry : entry'[e] = "posted" => entry[e] # "reversed"
  PROVE  RunnerIsSound'
<1>1. SUFFICES ASSUME NEW t \in Made
               PROVE  /\ entry'[runner.made[t]] = "unused" /\ bank'[t].status # "absent"
                      /\ \A s \in Group[t] :
                           /\ ~InForce(s)'
                           /\ runner.made[s] = runner.made[t] \/ bank'[s].status = "absent"
                      /\ \A s \in Transaction : runner.made[s] = runner.made[t] => s \in Group[t]
  BY DEF RunnerIsSound, Made
<1>2. t \in Transaction /\ t \in Group[t] /\ Group[t] \subseteq Transaction
  BY Pairs DEF Made
<1>3. runner.made[t] \in Automatic
  BY <1>2 DEF IInv, TypeOK, Made
<1>4. ASSUME NEW s \in Group[t] PROVE ~InForce(s)'
  <2>0. RunnerIsSound
    BY DEF IInv
  <2>1. /\ ~InForce(s)
        /\ bank'[s].entry = bank[s].entry
    BY <1>1, <1>2, <2>0 DEF RunnerIsSound
  <2>2. bank[s].entry # NoEntry => bank[s].entry \in Entry /\ entry[bank[s].entry] # "unused"
    BY <1>2, CarriedEntries
  <2>3. bank[s].entry # NoEntry => entry[bank[s].entry] = "reversed"
    BY <1>2, <2>1, <2>2 DEF IInv, TypeOK, InForce
  <2> QED
    BY <2>1, <2>2, <2>3 DEF InForce
<1> QED
  BY <1>1, <1>2, <1>3, <1>4 DEF IInv, RunnerIsSound

\* A transaction takes a new posting, after e was reversed if it carried that: alone if the
\* other half is booked elsewhere, and otherwise for both.
LEMMA Taken ==
  ASSUME IInv, NEW t \in Transaction, NEW e \in Entry \cup {NoEntry}, NEW new \in Entry,
         entry[new] = "unused", e # new, Bookable(t, e),
         bank' = Carry(Settled(t, e), new),
         NEW M \in Moved(t, e), moves' = [moves EXCEPT ![new] = M],
         \A f \in Entry : entry'[f] = IF f = e THEN "reversed"
                                      ELSE IF f = new THEN "posted" ELSE entry[f]
  PROVE  /\ Settled(t, e) \subseteq Group[t]
         /\ \A s \in Transaction :
              IF s \in Settled(t, e) THEN bank'[s].status = "booked" /\ bank'[s].entry = new
                                     ELSE bank'[s] = bank[s]
         /\ \A s \in Transaction : bank'[s].entry # NoEntry => entry'[bank'[s].entry] # "unused"
         /\ CarriedTogether' /\ NoSecondEffect'
<1> DEFINE S == Settled(t, e)
<1>1. S \subseteq Group[t] /\ t \in S
  BY Pairs DEF Settled, Imported, Bookable
<1>2. \A s \in Transaction : IF s \in S THEN bank'[s].status = "booked" /\ bank'[s].entry = new
                             ELSE bank'[s] = bank[s]
  BY DEF Carry
<1>3. \A s \in Transaction : bank[s].entry # NoEntry =>
        bank[s].entry \in Entry /\ bank[s].entry # new /\ entry[bank[s].entry] # "unused"
  BY CarriedEntries
<1>4. \A s \in Transaction : bank'[s].entry # NoEntry => entry'[bank'[s].entry] # "unused"
  BY <1>2, <1>3
<1>5. \A s \in Transaction : InForce(s)' <=> s \in S \/ Stands(s, e)
  <2>1. new # NoEntry /\ entry'[new] = "posted"
    BY ReversalsAssumption DEF NoEntry
  <2>2. \A s \in S : InForce(s)'
    BY <1>1, <1>2, <2>1, Pairs DEF InForce
  <2>3. ASSUME NEW s \in Transaction, s \notin S PROVE InForce(s)' <=> Stands(s, e)
    <3>1. bank'[s] = bank[s]
      BY <1>2, <2>3
    <3> QED
      BY <1>3, <3>1 DEF InForce, Stands
  <2> QED
    BY <2>2, <2>3
<1>6. CarriedTogether'
  <2>1. \A s \in Transaction : bank'[s].status = "absent" => bank'[s].entry = NoEntry
    BY <1>2 DEF IInv, CarriedTogether
  <2>2. ASSUME NEW s \in Transaction, NEW p \in Transaction,
               bank'[s].entry = bank'[p].entry, bank'[p].entry # NoEntry
        PROVE  s \in Group[p]
    <3>1. CASE p \in S
      <4>1. s \in S
        BY <1>2, <1>3, <2>2, <3>1
      <4> QED
        BY <1>1, <3>1, <4>1, Pairs
    <3>2. CASE p \notin S
      <4>1. s \notin S /\ bank[s].entry = bank[p].entry /\ bank[p].entry # NoEntry
        BY <1>2, <1>3, <2>2, <3>2
      <4> QED
        BY <4>1 DEF IInv, CarriedTogether
    <3> QED
      BY <3>1, <3>2
  <2> QED
    BY <2>1, <2>2 DEF CarriedTogether
<1>7. OpenNotInForce'
  <2>1. SUFFICES ASSUME NEW s \in Transaction, bank'[s].status = "new" PROVE ~InForce(s)'
    BY DEF OpenNotInForce
  <2>2. s \notin S /\ bank[s].status = "new"
    BY <1>2, <2>1
  <2> QED
    BY <1>5, <2>2 DEF Stands, IInv, NoSecondEffect, OpenNotInForce
<1>8. MovedOnce'
  <2>1. SUFFICES ASSUME NEW p \in Transaction, NEW s \in Group[p], InForce(s)', InForce(p)',
                        bank'[s].entry # bank'[p].entry
                 PROVE  moves'[bank'[s].entry] \cap moves'[bank'[p].entry] = {}
    BY DEF MovedOnce
  <2>2. /\ s \in Transaction /\ p \in Group[s]
        /\ s \in S \/ Stands(s, e)
        /\ p \in S \/ Stands(p, e)
    BY <1>5, <2>1, Pairs
  <2>3. moves'[new] = M /\ \A f \in Entry : f # new => moves'[f] = moves[f]
    BY DEF IInv, TypeOK
  <2>4. ASSUME NEW q \in Transaction, NEW x \in Transaction, q \in S, x \notin S, x \in Group[q],
               Stands(x, e)
        PROVE  M \cap moves'[bank'[x].entry] = {}
    <3>1. x \in Group[t]
      BY <1>1, <2>4, Pairs
    <3>2. S = {t}
      BY <3>1, <2>4 DEF Settled
    <3>3. bank[x].status # "absent"
      BY <2>4 DEF Stands, InForce, IInv, CarriedTogether
    <3>4. Imported(Group[t]) # {t}
      BY <2>4, <3>1, <3>2, <3>3 DEF Imported
    <3>5. M = {t}
      BY <3>2, <3>4 DEF Moved
    <3>6. t \notin moves[bank[x].entry]
      BY <2>4, <3>1 DEF Bookable
    <3>7. moves'[bank'[x].entry] = moves[bank[x].entry]
      BY <1>2, <1>3, <2>3, <2>4 DEF Stands, InForce
    <3> QED
      BY <3>5, <3>6, <3>7
  <2>5. CASE s \in S /\ p \in S
    BY <1>2, <2>1, <2>2, <2>5
  <2>6. CASE s \in S /\ p \notin S
    BY <1>2, <2>2, <2>3, <2>4, <2>6
  <2>7. CASE s \notin S /\ p \in S
    BY <1>2, <2>1, <2>2, <2>3, <2>4, <2>7
  <2>8. CASE s \notin S /\ p \notin S
    <3>1. Stands(s, e) /\ Stands(p, e) /\ bank'[s] = bank[s] /\ bank'[p] = bank[p]
      BY <1>2, <2>2, <2>8
    <3>2. moves[bank[s].entry] \cap moves[bank[p].entry] = {}
      BY <2>1, <3>1 DEF Stands, IInv, NoSecondEffect, MovedOnce
    <3>3. moves'[bank[s].entry] = moves[bank[s].entry] /\ moves'[bank[p].entry] = moves[bank[p].entry]
      BY <1>3, <2>2, <2>3, <3>1 DEF Stands, InForce
    <3> QED
      BY <3>1, <3>2, <3>3
  <2> QED
    BY <2>5, <2>6, <2>7, <2>8
<1> QED
  BY <1>1, <1>2, <1>4, <1>6, <1>7, <1>8 DEF NoSecondEffect

-----------------------------------------------------------------------------
(* Steps of persons and of the runner: the job does not move. *)

\* What such a step must keep for the invariant: nothing reversed comes back, no run loses
\* what it has read, and no event appears at or before the time the job may have read.
LEMMA OutsideTheJob ==
  ASSUME IInv, TypeOK', UNCHANGED <<now, example, watermark, job, fate>>,
         \A f \in Entry : entry[f] = "reversed" =>
           /\ entry'[f] = "reversed"
           /\ Carriers(f)' \subseteq Carriers(f)
           /\ review'[f] = "open" => review[f] = "open",
         \A r \in Run : \A t \in job[r].reopened : bank'[t].entry = bank[t].entry,
         \A f \in Entry : reversal[f].status = "committed" => reversal'[f] = reversal[f],
         \A f \in Entry : reversal'[f].status = "committed" /\ reversal[f].status # "committed"
           => reversal'[f].late \/ reversal'[f].at > Cutoff,
         \A t \in Transaction : bank'[t].entry # NoEntry => entry'[bank'[t].entry] # "unused",
         \A f \in Entry : review'[f] = "open" => f \in Reviewed /\ entry'[f] # "unused",
         EventsTellTheTruth', NoSecondEffect', CarriedTogether', RowsApart', RunnerIsSound'
  PROVE  IInv'
<1>1. NothingAhead'
  BY DEF IInv, NothingAhead
<1>2. ASSUME NEW r \in Run PROVE RunIsSound(r)'
  <2>1. job[r] \in JobRow /\ RunIsSound(r)
    BY DEF IInv, TypeOK
  <2>2. Batch(r) \subseteq Entry /\ job[r].reopened \subseteq Transaction
    BY <2>1 DEF JobRow, Batch
  <2>3. Batch(r)' = Batch(r)
    BY DEF Batch
  <2>4. \A e \in Batch(r) : entry'[e] = "reversed"
    BY <2>1, <2>2 DEF RunIsSound
  <2>5. \A e \in job[r].handled : Carriers(e)' \subseteq job[r].reopened
    BY <2>1, <2>2 DEF RunIsSound, Batch
  <2>6. \A t \in job[r].reopened :
          bank'[t].entry # NoEntry /\ entry'[bank'[t].entry] = "reversed"
    <3>1. SUFFICES ASSUME NEW t \in job[r].reopened
                   PROVE  bank'[t].entry # NoEntry /\ entry'[bank'[t].entry] = "reversed"
      OBVIOUS
    <3>2. bank[t].entry \in Entry \cup {NoEntry}
      BY <2>2 DEF IInv, TypeOK
    <3> QED
      BY <2>1, <3>2 DEF RunIsSound
  <2> QED
    BY <2>1, <2>3, <2>4, <2>5, <2>6 DEF RunIsSound
<1>3. Cutoff' = Cutoff /\ Cutoff \in Int
  BY ReversalsAssumption DEF IInv, TypeOK, Moment, Cutoff
<1>8. \A e \in Entry : reversal[e].at \in Int
  BY Times DEF IInv
<1>9. \A e \in Entry : reversal'[e].at \in Int
  <2>1. \A e \in Entry : reversal'[e].at \in Moment
    BY DEF TypeOK, Moment
  <2>2. Moment \subseteq Int
    BY ReversalsAssumption DEF Moment
  <2> QED
    BY <2>1, <2>2
<1>4. ASSUME NEW r \in Run PROVE RunSkipsNothing(r)'
  <2>1. SUFFICES ASSUME job[r].status # "idle" PROVE RunSkipsNothing(r)'
    BY DEF RunSkipsNothing
  <2>2. /\ RunSkipsNothing(r) /\ job[r].last \in Entry
        /\ reversal[job[r].last].status = "committed" /\ reversal[job[r].last].at <= Cutoff
        /\ reversal'[job[r].last] = reversal[job[r].last]
    BY <2>1 DEF IInv, RunSkipsNothing
  <2>3. ASSUME NEW e \in Entry, reversal'[e].status = "committed", ~reversal'[e].late,
               Precedes(e, job[r].last)'
        PROVE  e \in Batch(r) \/ fate[e] # "pending"
    <3>1. reversal'[e].at <= reversal[job[r].last].at
      BY <1>8, <1>9, <2>2, <2>3 DEF Precedes
    <3>2. reversal'[e].at \in Int /\ reversal[job[r].last].at \in Int /\ Cutoff \in Int
      BY <1>3, <1>8, <1>9, <2>2
    <3>3. reversal[e].status = "committed" /\ reversal'[e] = reversal[e]
      BY <2>2, <2>3, <3>1, <3>2
    <3>4. Precedes(e, job[r].last)
      BY <2>2, <2>3, <3>3 DEF Precedes
    <3> QED
      BY <2>1, <2>2, <2>3, <3>3, <3>4 DEF RunSkipsNothing
  <2> QED
    BY <1>3, <2>1, <2>2, <2>3 DEF RunSkipsNothing, Batch
<1>5. HandledIsUndone'
  BY DEF IInv, HandledIsUndone
<1>6. NoneSkipped'
  <2>1. SUFFICES ASSUME NEW e \in Entry, reversal'[e].status = "committed",
                        ~reversal'[e].late, Behind(e)'
                 PROVE  fate[e] # "pending"
    BY DEF NoneSkipped
  <2>2. reversal'[e].at \in Int /\ watermark.at \in Int /\ Cutoff \in Int
    BY <2>1, ReversalsAssumption DEF IInv, TypeOK, Moment, Cutoff
  <2>3. reversal'[e].at <= Cutoff
    BY <2>1, <2>2 DEF IInv, Behind
  <2>4. reversal[e].status = "committed" /\ reversal'[e] = reversal[e]
    BY <2>1, <2>2, <2>3
  <2>5. Behind(e)
    BY <2>1, <2>4 DEF Behind
  <2> QED
    BY <2>1, <2>4, <2>5 DEF IInv, NoneSkipped
<1>7. watermark'.at <= Cutoff'
  BY <1>3 DEF IInv
<1> QED
  BY <1>1, <1>2, <1>4, <1>5, <1>6, <1>7 DEF IInv

LEMMA BookStep ==
  ASSUME IInv, TypeOK', NEW t \in Transaction, NEW e \in Entry, Book(t, e)
  PROVE  IInv'
<1>1. /\ UNCHANGED <<now, example, watermark, job, fate, reversal, review, runner>>
      /\ entry[e] = "unused" /\ e \notin Automatic
      /\ entry' = [entry EXCEPT ![e] = "posted"]
      /\ BankFree(Group[t]) /\ Bookable(t, NoEntry) /\ bank' = Carry(Settled(t, NoEntry), e)
  BY DEF Book, jobVars
<1>2. PICK M \in Moved(t, NoEntry) : moves' = [moves EXCEPT ![e] = M]
  BY DEF Book
<1>3. \A f \in Entry : entry'[f] = IF f = e THEN "posted" ELSE entry[f]
  BY <1>1 DEF IInv, TypeOK
<1> DEFINE S == Settled(t, NoEntry)
<1>4. /\ S \subseteq Group[t]
      /\ \A s \in Transaction : IF s \in S THEN bank'[s].status = "booked" /\ bank'[s].entry = e
                                 ELSE bank'[s] = bank[s]
      /\ \A s \in Transaction : bank'[s].entry # NoEntry => entry'[bank'[s].entry] # "unused"
      /\ CarriedTogether' /\ NoSecondEffect'
  <2>1. NoEntry \notin Entry
    BY CarriedEntries
  <2>2. \A f \in Entry : entry'[f] = IF f = NoEntry THEN "reversed"
                                    ELSE IF f = e THEN "posted" ELSE entry[f]
    BY <1>3, <2>1
  <2>3. NoEntry # e /\ NoEntry \in Entry \cup {NoEntry}
    BY <2>1
  <2> QED
    BY <1>1, <1>2, <2>2, <2>3, Taken
<1> HIDE DEF S
<1>5. /\ \A s \in Group[t] : ~HeldByRunner(s) /\ ~HeldByJob(s)
      /\ Group[t] \subseteq Transaction
  BY <1>1, Pairs DEF BankFree
<1>6. \A f \in Entry : entry[f] = "reversed" =>
        entry'[f] = "reversed" /\ Carriers(f)' \subseteq Carriers(f)
  BY <1>1, <1>3, <1>4 DEF Carriers
<1>7. \A r \in Run : \A s \in job[r].reopened : bank'[s].entry = bank[s].entry
  <2>1. \A r \in Run : job[r].reopened \subseteq Transaction
    BY DEF IInv, TypeOK, JobRow
  <2> QED
    BY <1>4, <1>5, <2>1 DEF HeldByJob
<1>8. \A f \in Entry : review'[f] = "open" => f \in Reviewed /\ entry'[f] # "unused"
  BY <1>1, <1>3 DEF IInv, TypeOK, NothingAhead
<1>9. EventsTellTheTruth'
  BY <1>1, <1>3 DEF IInv, EventsTellTheTruth
<1>10. RowsApart'
  <2>0. EventsTellTheTruth
    BY DEF IInv
  <2>1. ~Correcting(e)
    BY <1>1, <2>0 DEF EventsTellTheTruth, Correcting
  <2>2. ASSUME NEW s \in Transaction, HeldByPerson(s)' PROVE HeldByPerson(s)
    <3>1. PICK p \in Group[s] : /\ bank'[p].entry # NoEntry
                               /\ reversal'[bank'[p].entry].status = "open"
                               /\ reversal'[bank'[p].entry].of
      BY <2>2 DEF HeldByPerson, Correcting
    <3>2. p \in Transaction /\ Correcting(bank'[p].entry)
      BY <1>1, <3>1, Pairs DEF Correcting
    <3>3. bank'[p] = bank[p]
      BY <1>4, <2>1, <3>1, <3>2
    <3> QED
      BY <3>1, <3>2, <3>3 DEF HeldByPerson
  <2>3. \A s \in Transaction : HeldByRunner(s)' = HeldByRunner(s) /\ HeldByJob(s)' = HeldByJob(s)
    BY <1>1 DEF HeldByRunner, Made, HeldByJob
  <2> QED
    BY <2>2, <2>3, NoRowTaken
<1>11. RunnerIsSound'
  <2>1. \A q \in Made : \A s \in Group[q] : s \in Transaction /\ s \notin S
    <3>1. \A q \in Made : q \notin Group[t] /\ Group[q] \subseteq Transaction
      BY <1>5, Pairs DEF HeldByRunner, Made
    <3> QED
      BY <1>4, <3>1, Pairs DEF Made
  <2>2. \A q \in Made : \A s \in Group[q] : bank'[s] = bank[s]
    BY <1>4, <2>1
  <2>3. \A f \in Automatic : entry[f] = "unused" => entry'[f] = "unused"
    BY <1>1, <1>3, ReversalsAssumption
  <2>4. \A f \in Entry : entry'[f] = "posted" => entry[f] # "reversed"
    BY <1>1, <1>3
  <2> QED
    BY <1>1, <2>2, <2>3, <2>4, RunnerStands
<1> QED
  BY <1>1, <1>4, <1>6, <1>7, <1>8, <1>9, <1>10, <1>11, OutsideTheJob

\* A reversal that begins, ends or is withdrawn, a review that is closed, and what the runner
\* does before it commits.
LEMMA EntriesStand ==
  ASSUME IInv, TypeOK', UNCHANGED <<now, bank, entry, moves, example, watermark, job, fate>>,
         \A f \in Entry : review'[f] = "open" => review[f] = "open",
         \A f \in Entry : reversal'[f] = reversal[f] \/
           /\ reversal[f].status # "committed" /\ reversal'[f].status # "committed"
           /\ reversal'[f].status = "open" => entry[f] = "posted",
         RowsApart', RunnerIsSound'
  PROVE  IInv'
<1>1. \A f \in Entry : Carriers(f)' = Carriers(f)
  BY DEF Carriers
<1>2. EventsTellTheTruth'
  BY DEF IInv, EventsTellTheTruth
<1>3. NoSecondEffect' /\ CarriedTogether'
  BY DEF IInv, NoSecondEffect, OpenNotInForce, MovedOnce, InForce, CarriedTogether
<1>4. \A t \in Transaction : bank'[t].entry # NoEntry => entry'[bank'[t].entry] # "unused"
  BY DEF IInv, NothingAhead
<1>5. \A f \in Entry : review'[f] = "open" => f \in Reviewed /\ entry'[f] # "unused"
  BY DEF IInv, NothingAhead
<1> QED
  BY <1>1, <1>2, <1>3, <1>4, <1>5, OutsideTheJob

LEMMA RunnerIdles ==
  ASSUME IInv, UNCHANGED <<bank, entry, runner>>
  PROVE  RunnerIsSound'
BY DEF IInv, RunnerIsSound, Made, InForce

\* No correction begins.
LEMMA NoneCorrects ==
  ASSUME IInv, UNCHANGED <<bank, runner, job>>, \A e \in Entry : Correcting(e)' => Correcting(e)
  PROVE  RowsApart'
<1>1. ASSUME NEW t \in Transaction, HeldByPerson(t)' PROVE HeldByPerson(t)
  <2>1. PICK s \in Group[t] : bank[s].entry # NoEntry /\ Correcting(bank[s].entry)'
    BY <1>1 DEF HeldByPerson
  <2>2. bank[s].entry \in Entry
    BY <2>1, Pairs, CarriedEntries
  <2> QED
    BY <2>1, <2>2 DEF HeldByPerson
<1>2. \A t \in Transaction : HeldByRunner(t)' = HeldByRunner(t) /\ HeldByJob(t)' = HeldByJob(t)
  BY DEF HeldByRunner, Made, HeldByJob
<1> QED
  BY <1>1, <1>2, NoRowTaken

LEMMA BeginChanges ==
  ASSUME IInv, NEW e \in Entry, NEW reason, NEW of, Begin(e, reason, of)
  PROVE  /\ UNCHANGED <<now, bank, entry, moves, review, example, rule, runner, watermark, lock,
                        job, fate>>
         /\ entry[e] = "posted" /\ reversal[e].status = "none"
         /\ reversal'[e].status = "open" /\ reversal'[e].of = of
         /\ \A f \in Entry : f # e => reversal'[f] = reversal[f]
BY DEF Begin, userVars, jobVars, IInv, TypeOK

LEMMA BeginReverseStep ==
  ASSUME IInv, TypeOK', NEW e \in Entry, NEW reason, BeginReverse(e, reason)
  PROVE  IInv'
<1>1. Begin(e, reason, FALSE)
  BY DEF BeginReverse
<1>2. RowsApart'
  BY <1>1, BeginChanges, NoneCorrects DEF Correcting
<1> QED
  BY <1>1, <1>2, BeginChanges, EntriesStand, RunnerIdles

\* A correction takes the rows of one pair, which nobody holds.
LEMMA BeginCorrectStep ==
  ASSUME IInv, TypeOK', NEW t \in Transaction, NEW reason, BeginCorrect(t, reason)
  PROVE  IInv'
<1> DEFINE e == bank[t].entry
<1>1. e \in Entry /\ Begin(e, reason, TRUE) /\ BankFree(Group[t])
  BY CarriedEntries DEF BeginCorrect, InForce
<1>2. RowsApart'
  <2>1. \A s \in Transaction : HeldByRunner(s)' = HeldByRunner(s) /\ HeldByJob(s)' = HeldByJob(s)
    <3>1. UNCHANGED <<runner, job>>
      BY <1>1, BeginChanges
    <3> QED
      BY <3>1 DEF HeldByRunner, Made, HeldByJob
  <2>2. ASSUME NEW s \in Transaction, HeldByPerson(s)', ~HeldByPerson(s)
        PROVE  ~HeldByRunner(s) /\ ~HeldByJob(s)
    <3>0. bank' = bank /\ \A f \in Entry : f # e => reversal'[f] = reversal[f]
      BY <1>1, BeginChanges
    <3>1. PICK p \in Group[s] : /\ bank[p].entry # NoEntry
                               /\ reversal'[bank[p].entry].status = "open"
                               /\ reversal'[bank[p].entry].of
      BY <2>2, <3>0 DEF HeldByPerson, Correcting
    <3>2. p \in Transaction /\ bank[p].entry \in Entry
      BY <3>1, Pairs, CarriedEntries
    <3>3. bank[p].entry = e
      BY <2>2, <3>0, <3>1, <3>2 DEF HeldByPerson, Correcting
    <3>4. p \in Group[t]
      BY <3>1, <3>2, <3>3 DEF IInv, CarriedTogether
    <3>5. s \in Group[t]
      BY <3>1, <3>4, Pairs
    <3> QED
      BY <1>1, <3>5 DEF BankFree
  <2> QED
    BY <2>1, <2>2 DEF IInv, RowsApart
<1> QED
  BY <1>1, <1>2, BeginChanges, EntriesStand, RunnerIdles

LEMMA RollbackStep ==
  ASSUME IInv, TypeOK', NEW e \in Entry, Rollback(e)
  PROVE  IInv'
<1>1. /\ UNCHANGED <<now, bank, entry, moves, review, example, runner, watermark, job, fate>>
      /\ reversal[e].status = "open" /\ reversal'[e] = NoReversal
      /\ \A f \in Entry : f # e => reversal'[f] = reversal[f]
  BY DEF Rollback, userVars, jobVars, IInv, TypeOK
<1>2. RowsApart'
  BY <1>1, NoneCorrects DEF Correcting, NoReversal
<1> QED
  BY <1>1, <1>2, EntriesStand, RunnerIdles DEF NoReversal

LEMMA DecideStep ==
  ASSUME IInv, TypeOK', NEW e \in Entry, Decide(e)
  PROVE  IInv'
<1>1. /\ UNCHANGED <<now, bank, entry, moves, reversal, example, runner, watermark, job, fate>>
      /\ \A f \in Entry : review'[f] = "open" => review[f] = "open"
  BY DEF Decide, jobVars, IInv, TypeOK
<1>2. RowsApart'
  BY <1>1, NoneCorrects DEF Correcting
<1> QED
  BY <1>1, <1>2, EntriesStand, RunnerIdles

\* A step that leaves bank, ledger, events, runs and the runner as they are.
LEMMA OtherStep ==
  ASSUME IInv, TypeOK',
         UNCHANGED <<now, userVars, reversal, example, runner, watermark, job, fate>>
  PROVE  IInv'
<1>1. RowsApart'
  BY NoneCorrects DEF Correcting, userVars
<1> QED
  BY <1>1, EntriesStand, RunnerIdles DEF userVars

\* The other half arrives; nobody holds the pair.
LEMMA ImportStep ==
  ASSUME IInv, TypeOK', NEW t \in Transaction, Import(t)
  PROVE  IInv'
<1>1. /\ UNCHANGED <<now, moves, entry, review, reversal, example, runner, watermark, job, fate>>
      /\ bank[t].status = "absent" /\ BankFree(Group[t])
      /\ bank' = [bank EXCEPT ![t].status = "new"]
  BY DEF Import, jobVars
<1>2. /\ bank'[t].status = "new"
      /\ \A s \in Transaction : bank'[s].entry = bank[s].entry /\ (s # t => bank'[s] = bank[s])
  BY <1>1 DEF IInv, TypeOK
<1>3. bank[t].entry = NoEntry
  BY <1>1 DEF IInv, CarriedTogether
<1>4. \A s \in Transaction : InForce(s)' <=> InForce(s)
  BY <1>1, <1>2 DEF InForce
<1>5. \A f \in Entry : Carriers(f)' = Carriers(f)
  <2>1. NoEntry \notin Entry
    BY CarriedEntries
  <2> QED
    BY <1>2, <1>3, <2>1 DEF Carriers
<1>6. NoSecondEffect'
  <2>1. OpenNotInForce'
    BY <1>2, <1>3, <1>4 DEF IInv, NoSecondEffect, OpenNotInForce, InForce
  <2>2. MovedOnce'
    BY <1>1, <1>2, <1>4, Pairs DEF IInv, NoSecondEffect, MovedOnce
  <2> QED
    BY <2>1, <2>2 DEF NoSecondEffect
<1>7. CarriedTogether'
  BY <1>2 DEF IInv, CarriedTogether
<1>8. RowsApart'
  <2>1. \A s \in Transaction : HeldByPerson(s)' => HeldByPerson(s)
    BY <1>1, <1>2, Pairs DEF HeldByPerson, Correcting
  <2>2. \A s \in Transaction : HeldByRunner(s)' = HeldByRunner(s) /\ HeldByJob(s)' = HeldByJob(s)
    BY <1>1 DEF HeldByRunner, Made, HeldByJob
  <2> QED
    BY <2>1, <2>2, NoRowTaken
<1>9. RunnerIsSound'
  <2>1. \A q \in Made : Group[q] \subseteq Transaction /\ t \notin Group[q]
    <3>1. Group[t] \cap Made = {}
      BY <1>1, Pairs DEF BankFree, HeldByRunner
    <3> QED
      BY <3>1, Pairs DEF Made
  <2>2. \A q \in Made : \A s \in Group[q] : bank'[s] = bank[s]
    BY <1>2, <2>1
  <2> QED
    BY <1>1, <2>2, RunnerStands
<1>10. EventsTellTheTruth'
  BY <1>1 DEF IInv, EventsTellTheTruth
<1>11. /\ \A s \in Transaction : bank'[s].entry # NoEntry => entry'[bank'[s].entry] # "unused"
       /\ \A f \in Entry : review'[f] = "open" => f \in Reviewed /\ entry'[f] # "unused"
  BY <1>1, <1>2 DEF IInv, NothingAhead
<1>12. \A r \in Run : \A s \in job[r].reopened : bank'[s].entry = bank[s].entry
  BY <1>2 DEF IInv, TypeOK, JobRow
<1> QED
  BY <1>1, <1>5, <1>6, <1>7, <1>8, <1>9, <1>10, <1>11, <1>12, OutsideTheJob

\* A commit publishes the event of one reversal; it is late or after the time read.
LEMMA CommitPublishes ==
  ASSUME IInv, NEW e \in Entry, Publish(e), reversal[e].status = "open"
  PROVE  /\ reversal'[e].status = "committed"
         /\ \A f \in Entry : f # e => reversal'[f] = reversal[f]
         /\ \A f \in Entry : reversal[f].status = "committed" => reversal'[f] = reversal[f]
         /\ \A f \in Entry :
              reversal'[f].status = "committed" /\ reversal[f].status # "committed"
                => reversal'[f].late \/ reversal'[f].at > Cutoff
<1> DEFINE row == [reversal[e] EXCEPT !.status = "committed", !.of = FALSE,
                                      !.late = now - reversal[e].at >= Lag]
<1>1. reversal[e] \in [status : {"none", "open", "committed"}, at : Moment, reason : Reason,
                       of : BOOLEAN, late : BOOLEAN]
  BY DEF IInv, TypeOK
<1>2. /\ row.status = "committed" /\ row.at = reversal[e].at
      /\ row.late <=> now - reversal[e].at >= Lag
  BY <1>1
<1>3. reversal' = [reversal EXCEPT ![e] = row]
  BY DEF Publish
<1> HIDE DEF row
<1>4. reversal'[e] = row /\ \A f \in Entry : f # e => reversal'[f] = reversal[f]
  BY <1>3 DEF IInv, TypeOK
<1>5. now \in Int /\ Lag \in Int /\ reversal[e].at \in Int
  BY <1>1, ReversalsAssumption DEF IInv, TypeOK, Moment
<1>6. row.late \/ row.at > Cutoff
  BY <1>2, <1>5 DEF Cutoff
<1> QED
  BY <1>2, <1>4, <1>6


LEMMA CommitReverseStep ==
  ASSUME IInv, TypeOK', NEW e \in Entry, CommitReverse(e)
  PROVE  IInv'
<1>1. /\ UNCHANGED <<now, bank, moves, review, example, runner, watermark, job, fate>>
      /\ reversal[e].status = "open" /\ ~reversal[e].of /\ Publish(e)
      /\ entry' = [entry EXCEPT ![e] = "reversed"]
  BY DEF CommitReverse, jobVars
<1>2. \A f \in Entry : entry'[f] = IF f = e THEN "reversed" ELSE entry[f]
  BY <1>1 DEF IInv, TypeOK
<1>3. \A f \in Entry : Carriers(f)' = Carriers(f)
  BY <1>1 DEF Carriers
<1>4. EventsTellTheTruth'
  BY <1>1, <1>2, CommitPublishes DEF IInv, EventsTellTheTruth
<1>5. \A t \in Transaction : /\ bank[t].entry # NoEntry => bank[t].entry \in Entry
                             /\ InForce(t)' => InForce(t)
  BY <1>1, <1>2, CarriedEntries DEF InForce
<1>6. NoSecondEffect'
  <2>1. NoSecondEffect /\ \A t \in Transaction : Group[t] \subseteq Transaction
    BY Pairs DEF IInv
  <2> QED
    BY <1>1, <1>5, <2>1 DEF NoSecondEffect, OpenNotInForce, MovedOnce
<1>7. \A t \in Transaction : bank'[t].entry # NoEntry => entry'[bank'[t].entry] # "unused"
  BY <1>1, <1>2, <1>5 DEF IInv, NothingAhead
<1>8. \A f \in Entry : review'[f] = "open" => f \in Reviewed /\ entry'[f] # "unused"
  BY <1>1, <1>2 DEF IInv, NothingAhead
<1>9. CarriedTogether'
  BY <1>1 DEF IInv, CarriedTogether
<1>10. RowsApart'
  <2>1. /\ reversal'[e].status = "committed"
        /\ \A f \in Entry : f # e => reversal'[f] = reversal[f]
    BY <1>1, CommitPublishes
  <2> QED
    BY <1>1, <2>1, NoneCorrects DEF Correcting
<1>11. RunnerIsSound'
  <2>1. entry[e] = "posted"
    BY <1>1 DEF IInv, EventsTellTheTruth
  <2>2. /\ \A f \in Automatic : entry[f] = "unused" => entry'[f] = "unused"
        /\ \A f \in Entry : entry'[f] = "posted" => entry[f] # "reversed"
    BY <1>2, <2>1, ReversalsAssumption
  <2> QED
    BY <1>1, <2>2, RunnerStands
<1> QED
  BY <1>1, <1>2, <1>3, <1>4, <1>6, <1>7, <1>8, <1>9, <1>10, <1>11, CommitPublishes, OutsideTheJob

\* The new posting takes the rows of the pair, which the correction has held since it began.
LEMMA CommitCorrectStep ==
  ASSUME IInv, TypeOK', NEW e \in Entry, NEW new \in Entry, CommitCorrect(e, new)
  PROVE  IInv'
<1>1. /\ UNCHANGED <<now, example, runner, watermark, job, fate>>
      /\ reversal[e].status = "open" /\ Publish(e) /\ entry[new] = "unused"
      /\ Correcting(e) /\ new \notin Automatic
      /\ entry' = [entry EXCEPT ![e] = "reversed", ![new] = "posted"]
      /\ review' = [review EXCEPT ![e] = IF @ = "open" THEN "closed" ELSE @]
  BY DEF CommitCorrect, Correcting, jobVars
<1>2. entry[e] = "posted" /\ e # new
  BY <1>1 DEF IInv, EventsTellTheTruth
<1>3. \A f \in Entry : entry'[f] = IF f = e THEN "reversed"
                                   ELSE IF f = new THEN "posted" ELSE entry[f]
  BY <1>1, <1>2 DEF IInv, TypeOK
<1>4. \A f \in Entry : review'[f] = "open" => review[f] = "open" /\ f # e
  BY <1>1 DEF IInv, TypeOK
<1>5. PICK t \in Transaction : /\ bank[t].entry = e /\ Bookable(t, e)
                               /\ bank' = Carry(Settled(t, e), new)
                               /\ \E M \in Moved(t, e) : moves' = [moves EXCEPT ![new] = M]
  BY DEF CommitCorrect
<1>6. PICK M \in Moved(t, e) : moves' = [moves EXCEPT ![new] = M]
  BY <1>5
<1> DEFINE S == Settled(t, e)
<1>7. /\ S \subseteq Group[t]
      /\ \A s \in Transaction : IF s \in S THEN bank'[s].status = "booked" /\ bank'[s].entry = new
                                 ELSE bank'[s] = bank[s]
      /\ \A s \in Transaction : bank'[s].entry # NoEntry => entry'[bank'[s].entry] # "unused"
      /\ CarriedTogether' /\ NoSecondEffect'
  <2>1. e \in Entry \cup {NoEntry} /\ e # new /\ entry[new] = "unused"
    BY <1>1, <1>2
  <2>2. Bookable(t, e) /\ bank' = Carry(Settled(t, e), new)
    BY <1>5
  <2> QED
    BY <1>3, <1>6, <2>1, <2>2, Taken
<1> HIDE DEF S
<1>8. /\ \A s \in Group[t] : ~HeldByRunner(s) /\ ~HeldByJob(s)
      /\ Group[t] \subseteq Transaction
  <2>1. e # NoEntry /\ t \in Group[t] /\ Group[t] \subseteq Transaction
    BY Pairs, CarriedEntries
  <2>2. HeldByPerson(t)
    BY <1>1, <1>5, <2>1 DEF HeldByPerson
  <2>3. \A s \in Group[t] : HeldByPerson(s)
    BY <2>2, HeldTogether
  <2>4. RowsApart
    BY DEF IInv
  <2> QED
    BY <2>1, <2>3, <2>4 DEF RowsApart
<1>9. \A f \in Entry : entry[f] = "reversed" =>
        entry'[f] = "reversed" /\ Carriers(f)' \subseteq Carriers(f)
  BY <1>1, <1>2, <1>3, <1>7 DEF Carriers
<1>10. \A r \in Run : \A s \in job[r].reopened : bank'[s].entry = bank[s].entry
  <2>1. \A r \in Run : job[r].reopened \subseteq Transaction
    BY DEF IInv, TypeOK, JobRow
  <2> QED
    BY <1>7, <1>8, <2>1 DEF HeldByJob
<1>11. reversal[new].status = "none" \/ reversal[new].status \notin {"open", "committed"}
  BY <1>1 DEF IInv, EventsTellTheTruth
<1>12. /\ reversal'[e].status = "committed"
       /\ \A f \in Entry : f # e => reversal'[f] = reversal[f]
  BY <1>1, CommitPublishes
<1>13. EventsTellTheTruth'
  <2>1. \A f \in Entry :
          /\ reversal[f].status = "open" => entry[f] = "posted"
          /\ reversal[f].status = "committed" <=> entry[f] = "reversed"
    BY DEF IInv, EventsTellTheTruth
  <2>2. ASSUME NEW f \in Entry
        PROVE  /\ reversal'[f].status = "open" => entry'[f] = "posted"
               /\ reversal'[f].status = "committed" <=> entry'[f] = "reversed"
    <3>1. CASE f = e
      BY <1>3, <1>12, <3>1
    <3>2. CASE f = new
      BY <1>2, <1>3, <1>11, <1>12, <3>2
    <3>3. CASE f # e /\ f # new
      BY <1>3, <1>12, <2>1, <3>3
    <3> QED
      BY <3>1, <3>2, <3>3
  <2> QED
    BY <2>2 DEF EventsTellTheTruth
<1>14. \A f \in Entry : review'[f] = "open" => f \in Reviewed /\ entry'[f] # "unused"
  BY <1>3, <1>4 DEF IInv, NothingAhead
<1>15. RowsApart'
  <2>1. ~Correcting(new)
    BY <1>11 DEF Correcting
  <2>2. ASSUME NEW s \in Transaction, HeldByPerson(s)' PROVE HeldByPerson(s)
    <3>1. PICK p \in Group[s] : /\ bank'[p].entry # NoEntry
                               /\ reversal'[bank'[p].entry].status = "open"
                               /\ reversal'[bank'[p].entry].of
      BY <2>2 DEF HeldByPerson, Correcting
    <3>2. p \in Transaction
      BY <3>1, Pairs
    <3>3. p \notin S
      BY <1>2, <1>7, <1>11, <1>12, <3>1, <3>2
    <3>4. bank'[p] = bank[p]
      BY <1>7, <3>2, <3>3
    <3>5. bank[p].entry \in Entry
      BY <3>1, <3>2, <3>4, CarriedEntries
    <3>6. Correcting(bank[p].entry)
      BY <1>12, <3>1, <3>4, <3>5 DEF Correcting
    <3> QED
      BY <3>1, <3>4, <3>6 DEF HeldByPerson
  <2>3. \A s \in Transaction : HeldByRunner(s)' = HeldByRunner(s) /\ HeldByJob(s)' = HeldByJob(s)
    BY <1>1 DEF HeldByRunner, Made, HeldByJob
  <2> QED
    BY <2>2, <2>3, NoRowTaken
<1>16. RunnerIsSound'
  <2>1. \A q \in Made : \A s \in Group[q] : s \in Transaction /\ s \notin S
    <3>1. \A q \in Made : q \notin Group[t] /\ Group[q] \subseteq Transaction
      BY <1>8, Pairs DEF HeldByRunner, Made
    <3> QED
      BY <1>7, <3>1, Pairs DEF Made
  <2>2. \A q \in Made : \A s \in Group[q] : bank'[s] = bank[s]
    BY <1>7, <2>1
  <2>3. \A f \in Automatic : entry[f] = "unused" => entry'[f] = "unused"
    BY <1>1, <1>2, <1>3, ReversalsAssumption
  <2>4. \A f \in Entry : entry'[f] = "posted" => entry[f] # "reversed"
    BY <1>1, <1>2, <1>3
  <2> QED
    BY <1>1, <2>2, <2>3, <2>4, RunnerStands
<1> QED
  BY <1>1, <1>4, <1>7, <1>9, <1>10, <1>13, <1>14, <1>15, <1>16, CommitPublishes, OutsideTheJob

\* The runner takes the rows of one pair, which nobody holds.
LEMMA RunnerChooseStep ==
  ASSUME IInv, TypeOK', NEW t \in Transaction, RunnerChoose(t)
  PROVE  IInv'
<1>1. /\ UNCHANGED <<now, bank, entry, moves, review, reversal, example, watermark, job, fate>>
      /\ \A s \in Group[t] : ~HeldByPerson(s) /\ ~HeldByJob(s)
      /\ runner.chosen = {} /\ runner' = [runner EXCEPT !.chosen = {t}]
  BY DEF RunnerChoose, userVars, jobVars
<1>2. runner'.chosen = {t} /\ runner'.made = runner.made
  BY <1>1 DEF IInv, TypeOK
<1>3. Made' = Made
  BY <1>2 DEF Made
<1>4. RowsApart'
  <2>1. \A s \in Transaction : HeldByPerson(s)' = HeldByPerson(s) /\ HeldByJob(s)' = HeldByJob(s)
    BY <1>1 DEF HeldByPerson, Correcting, HeldByJob
  <2>2. ASSUME NEW s \in Transaction, HeldByRunner(s)'
        PROVE  HeldByRunner(s) \/ s \in Group[t]
    <3>1. t \in Group[s] \/ Group[s] \cap Made # {}
      BY <1>2, <1>3, <2>2 DEF HeldByRunner
    <3> QED
      BY <3>1, Pairs DEF HeldByRunner
  <2>3. RowsApart
    BY DEF IInv
  <2> QED
    BY <1>1, <2>1, <2>2, <2>3 DEF RowsApart
<1>5. RunnerIsSound'
  <2>1. \A s \in Transaction : InForce(s)' = InForce(s)
    BY <1>1 DEF InForce
  <2>2. RunnerIsSound /\ \A s \in Transaction : Group[s] \subseteq Transaction
    BY Pairs DEF IInv
  <2> QED
    BY <1>1, <1>2, <1>3, <2>1, <2>2 DEF RunnerIsSound, Made
<1> QED
  BY <1>1, <1>4, <1>5, EntriesStand

\* It posts for a pair that carries nothing in force, with an entry of its own.
LEMMA RunnerPostStep ==
  ASSUME IInv, TypeOK', NEW t \in Transaction, NEW e \in Automatic, RunnerPost(t, e)
  PROVE  IInv'
<1>1. /\ UNCHANGED <<now, bank, entry, moves, review, reversal, example, watermark, job, fate>>
      /\ runner.chosen = {t} /\ entry[e] = "unused"
      /\ \A s \in Transaction : runner.made[s] # e
      /\ \A s \in Group[t] : ~InForce(s)
      /\ runner' = [chosen |-> {}, made |-> [s \in Transaction |->
                      IF s \in Imported(Group[t]) THEN e ELSE runner.made[s]]]
  BY DEF RunnerPost, userVars, jobVars
<1>2. /\ runner'.chosen = {}
      /\ \A s \in Transaction :
           runner'.made[s] = IF s \in Imported(Group[t]) THEN e ELSE runner.made[s]
  BY <1>1
<1>3. e # NoEntry /\ Imported(Group[t]) \subseteq Group[t] /\ Group[t] \subseteq Transaction
  BY Pairs, CarriedEntries, ReversalsAssumption DEF Imported
<1>4. Made' = Made \cup Imported(Group[t])
  BY <1>2, <1>3 DEF Made
<1>5. RowsApart'
  <2>1. \A s \in Transaction : HeldByPerson(s)' = HeldByPerson(s) /\ HeldByJob(s)' = HeldByJob(s)
    BY <1>1 DEF HeldByPerson, Correcting, HeldByJob
  <2>2. ASSUME NEW s \in Transaction, HeldByRunner(s)' PROVE HeldByRunner(s)
    <3>1. Group[s] \cap (Made \cup Imported(Group[t])) # {}
      BY <1>2, <1>4, <2>2 DEF HeldByRunner
    <3>2. Group[s] \cap Group[t] # {} => t \in Group[s]
      BY Pairs
    <3> QED
      BY <1>1, <1>3, <3>1, <3>2 DEF HeldByRunner
  <2> QED
    BY <2>1, <2>2, NoRowTaken
<1>6. RunnerIsSound'
  <2>1. \A s \in Transaction : InForce(s)' = InForce(s)
    BY <1>1 DEF InForce
  <2>2. RunnerIsSound
    BY DEF IInv
  <2>3. SUFFICES ASSUME NEW q \in Made'
        PROVE  /\ entry'[runner'.made[q]] = "unused" /\ bank'[q].status # "absent"
               /\ \A s \in Group[q] :
                    /\ ~InForce(s)'
                    /\ runner'.made[s] = runner'.made[q] \/ bank'[s].status = "absent"
               /\ \A s \in Transaction : runner'.made[s] = runner'.made[q] => s \in Group[q]
    BY DEF RunnerIsSound
  <2>4. q \in Transaction /\ Group[q] \subseteq Transaction
    BY <2>3, Pairs DEF Made
  <2>5. CASE q \in Imported(Group[t])
    <3>1. Group[q] = Group[t] /\ bank[q].status # "absent" /\ runner'.made[q] = e
      BY <1>2, <1>3, <2>4, <2>5, Pairs DEF Imported
    <3>2. \A s \in Group[t] : s \in Imported(Group[t]) \/ bank[s].status = "absent"
      BY DEF Imported
    <3>3. \A s \in Transaction : runner'.made[s] = e => s \in Group[t]
      BY <1>1, <1>2, <1>3
    <3> QED
      BY <1>1, <1>2, <1>3, <2>1, <3>1, <3>2, <3>3
  <2>6. CASE q \notin Imported(Group[t])
    <3>1. q \in Made /\ runner'.made[q] = runner.made[q] /\ runner.made[q] # e
      BY <1>1, <1>2, <1>4, <2>3, <2>4, <2>6
    <3>2. Group[q] \cap Imported(Group[t]) = {}
      <4>1. SUFFICES ASSUME NEW s \in Group[q], s \in Imported(Group[t]) PROVE FALSE
        OBVIOUS
      <4>2. q \in Group[t] /\ bank[q].status # "absent"
        BY <1>3, <2>2, <2>4, <3>1, <4>1, Pairs DEF RunnerIsSound
      <4> QED
        BY <2>6, <4>2 DEF Imported
    <3>3. \A s \in Group[q] : runner'.made[s] = runner.made[s]
      BY <1>2, <2>4, <3>2
    <3>4. \A s \in Transaction : runner'.made[s] = runner.made[q] => runner.made[s] = runner.made[q]
      BY <1>2, <3>1
    <3> QED
      BY <1>1, <2>1, <2>2, <2>4, <3>1, <3>3, <3>4 DEF RunnerIsSound
  <2> QED
    BY <2>5, <2>6
<1> QED
  BY <1>1, <1>5, <1>6, EntriesStand

LEMMA RunnerLetsGo ==
  ASSUME IInv, TypeOK', RunnerRefuse \/ RunnerRollback
  PROVE  IInv'
<1>1. UNCHANGED <<now, bank, entry, moves, review, reversal, example, watermark, job, fate>>
  BY DEF RunnerRefuse, RunnerRollback, userVars, jobVars
<1>2. runner'.chosen = {} /\ (runner'.made = runner.made \/ Made' = {})
  BY DEF RunnerRefuse, RunnerRollback, NoRun, Made, IInv, TypeOK
<1>3. Made' = Made \/ Made' = {}
  BY <1>2 DEF Made
<1>4. RowsApart'
  <2>1. \A s \in Transaction : HeldByPerson(s)' = HeldByPerson(s) /\ HeldByJob(s)' = HeldByJob(s)
    BY <1>1 DEF HeldByPerson, Correcting, HeldByJob
  <2>2. \A s \in Transaction : HeldByRunner(s)' => HeldByRunner(s)
    BY <1>2, <1>3 DEF HeldByRunner
  <2> QED
    BY <2>1, <2>2, NoRowTaken
<1>5. RunnerIsSound'
  <2>1. \A s \in Transaction : InForce(s)' = InForce(s)
    BY <1>1 DEF InForce
  <2>2. RunnerIsSound /\ \A s \in Transaction : Group[s] \subseteq Transaction
    BY Pairs DEF IInv
  <2>3. CASE Made' = {}
    BY <2>3 DEF RunnerIsSound
  <2>4. CASE runner'.made = runner.made
    BY <1>1, <2>1, <2>2, <2>4 DEF RunnerIsSound, Made
  <2> QED
    BY <1>2, <2>3, <2>4
<1> QED
  BY <1>1, <1>4, <1>5, EntriesStand

\* The postings of the runner become visible, each on the rows of one pair.
LEMMA RunnerCommitStep ==
  ASSUME IInv, TypeOK', RunnerCommit
  PROVE  IInv'
<1> DEFINE new == {runner.made[t] : t \in Made}
<1>1. /\ UNCHANGED <<now, reversal, example, watermark, job, fate>> /\ runner' = NoRun
      /\ bank' = [t \in Transaction |-> IF t \in Made
                    THEN [status |-> "booked", entry |-> runner.made[t]] ELSE bank[t]]
      /\ moves' = [e \in Entry |-> IF e \in new THEN {t \in Made : runner.made[t] = e} ELSE moves[e]]
      /\ entry' = [e \in Entry |-> IF e \in new THEN "posted" ELSE entry[e]]
      /\ review' = [e \in Entry |-> IF e \in new \cap Reviewed THEN "open" ELSE review[e]]
  BY DEF RunnerCommit, jobVars
<1>2. /\ \A e \in Entry : /\ entry'[e] = IF e \in new THEN "posted" ELSE entry[e]
                          /\ review'[e] = IF e \in new \cap Reviewed THEN "open" ELSE review[e]
                          /\ moves'[e] = IF e \in new THEN {t \in Made : runner.made[t] = e}
                                         ELSE moves[e]
      /\ \A t \in Transaction :
           IF t \in Made THEN bank'[t].status = "booked" /\ bank'[t].entry = runner.made[t]
                         ELSE bank'[t] = bank[t]
  BY <1>1
<1>3. RunnerIsSound /\ CarriedTogether /\ RowsApart /\ NoSecondEffect
  BY DEF IInv
<1>4. /\ Made \subseteq Transaction /\ new \subseteq Entry
      /\ \A e \in new : entry[e] = "unused"
      /\ \A t \in Made : runner.made[t] # NoEntry /\ runner.made[t] \in new
  <2>0. \A t \in Transaction : runner.made[t] \in Automatic \cup {NoEntry}
    BY DEF IInv, TypeOK
  <2>1. \A t \in Made : runner.made[t] \in Entry /\ runner.made[t] # NoEntry
    BY <2>0, ReversalsAssumption DEF Made
  <2> QED
    BY <1>3, <2>1 DEF Made, RunnerIsSound
<1> HIDE DEF new
<1>5. \A t \in Transaction : bank[t].entry # NoEntry =>
        /\ bank[t].entry \in Entry /\ bank[t].entry \notin new
        /\ entry'[bank[t].entry] = entry[bank[t].entry] /\ entry[bank[t].entry] # "unused"
  BY <1>2, <1>4, CarriedEntries
<1>6. \A t \in Transaction : InForce(t)' <=> t \in Made \/ InForce(t)
  <2>1. \A t \in Transaction : InForce(t)' <=> bank'[t].entry # NoEntry /\ entry'[bank'[t].entry] = "posted"
    BY DEF InForce
  <2>2. \A t \in Made : InForce(t)'
    BY <1>2, <1>4, <2>1
  <2>3. \A t \in Transaction : t \notin Made => (InForce(t)' <=> InForce(t))
    BY <1>2, <1>5, <2>1 DEF InForce
  <2> QED
    BY <2>2, <2>3, <1>3, Pairs DEF RunnerIsSound
<1>7. NoSecondEffect'
  <2>1. OpenNotInForce'
    BY <1>2, <1>3, <1>6 DEF NoSecondEffect, OpenNotInForce
  <2>2. MovedOnce'
    <3>1. SUFFICES ASSUME NEW p \in Transaction, NEW s \in Group[p], InForce(s)', InForce(p)',
                          bank'[s].entry # bank'[p].entry
                   PROVE  moves'[bank'[s].entry] \cap moves'[bank'[p].entry] = {}
      BY DEF MovedOnce
    <3>2. s \in Transaction /\ p \in Group[s] /\ Group[s] = Group[p]
      BY Pairs
    <3>3. \A x \in Transaction : \A y \in Group[x] : x \in Made /\ InForce(y)' =>
            y \in Made /\ runner.made[y] = runner.made[x]
      <4>1. SUFFICES ASSUME NEW x \in Transaction, NEW y \in Group[x], x \in Made, InForce(y)'
                     PROVE  y \in Made /\ runner.made[y] = runner.made[x]
        OBVIOUS
      <4>2. y \in Transaction /\ ~InForce(y)
        BY <1>3, <4>1, Pairs DEF RunnerIsSound
      <4>3. y \in Made
        BY <1>6, <4>1, <4>2
      <4> QED
        BY <1>3, <4>1, <4>3 DEF RunnerIsSound
    <3>4. s \notin Made /\ p \notin Made
      BY <1>2, <3>1, <3>2, <3>3
    <3>5. /\ bank'[s] = bank[s] /\ bank'[p] = bank[p] /\ InForce(s) /\ InForce(p)
          /\ moves'[bank[s].entry] = moves[bank[s].entry]
          /\ moves'[bank[p].entry] = moves[bank[p].entry]
      BY <1>2, <1>5, <1>6, <3>1, <3>2, <3>4 DEF InForce
    <3> QED
      BY <1>3, <3>1, <3>5 DEF NoSecondEffect, MovedOnce
  <2> QED
    BY <2>1, <2>2 DEF NoSecondEffect
<1>8. CarriedTogether'
  <2>1. \A t \in Transaction : bank'[t].status = "absent" => bank'[t].entry = NoEntry
    BY <1>2, <1>3 DEF CarriedTogether
  <2>2. ASSUME NEW t \in Transaction, NEW s \in Transaction,
               bank'[s].entry = bank'[t].entry, bank'[t].entry # NoEntry
        PROVE  s \in Group[t]
    <3>1. CASE t \in Made /\ s \in Made
      BY <1>2, <1>3, <2>2, <3>1 DEF RunnerIsSound
    <3>2. CASE t \notin Made /\ s \notin Made
      BY <1>2, <1>3, <2>2, <3>2 DEF CarriedTogether
    <3>3. CASE t \in Made /\ s \notin Made
      BY <1>2, <1>4, <1>5, <2>2, <3>3
    <3>4. CASE t \notin Made /\ s \in Made
      BY <1>2, <1>4, <1>5, <2>2, <3>4
    <3> QED
      BY <3>1, <3>2, <3>3, <3>4
  <2> QED
    BY <2>1, <2>2 DEF CarriedTogether
<1>9. \A t \in Made : ~HeldByPerson(t) /\ ~HeldByJob(t)
  <2>1. \A t \in Made : t \in Transaction /\ t \in Group[t] /\ HeldByRunner(t)
    BY <1>4, Pairs DEF HeldByRunner
  <2> QED
    BY <1>3, <2>1 DEF RowsApart
<1>10. Made' = {} /\ runner'.chosen = {}
  BY <1>1 DEF NoRun, Made
<1>11. RunnerIsSound'
  BY <1>10 DEF RunnerIsSound
<1>12. EventsTellTheTruth'
  <2>1. EventsTellTheTruth
    BY DEF IInv
  <2> QED
    BY <1>1, <1>2, <1>4, <2>1 DEF EventsTellTheTruth
<1>13. RowsApart'
  <2>1. ASSUME NEW s \in Transaction, HeldByPerson(s)' PROVE HeldByPerson(s)
    <3>1. PICK p \in Group[s] : bank'[p].entry # NoEntry /\ Correcting(bank'[p].entry)
      BY <1>1, <2>1 DEF HeldByPerson, Correcting
    <3>2. p \in Transaction
      BY <3>1, Pairs
    <3>3. \A e \in new : ~Correcting(e)
      <4>1. EventsTellTheTruth
        BY DEF IInv
      <4> QED
        BY <1>4, <4>1 DEF EventsTellTheTruth, Correcting
    <3>4. bank'[p] = bank[p]
      BY <1>2, <1>4, <3>1, <3>2, <3>3
    <3> QED
      BY <3>1, <3>4 DEF HeldByPerson
  <2>2. \A s \in Transaction : ~HeldByRunner(s)'
    BY <1>10 DEF HeldByRunner
  <2>3. \A s \in Transaction : HeldByJob(s)' = HeldByJob(s)
    BY <1>1 DEF HeldByJob
  <2> QED
    BY <2>1, <2>2, <2>3, NoRowTaken
<1>14. \A f \in Entry : entry[f] = "reversed" =>
         /\ entry'[f] = "reversed" /\ Carriers(f)' \subseteq Carriers(f)
         /\ review'[f] = "open" => review[f] = "open"
  BY <1>2, <1>4 DEF Carriers
<1>15. \A r \in Run : \A t \in job[r].reopened : bank'[t].entry = bank[t].entry
  <2>1. \A r \in Run : job[r].reopened \subseteq Transaction
    BY DEF IInv, TypeOK, JobRow
  <2> QED
    BY <1>2, <1>9, <2>1 DEF HeldByJob
<1>16. \A t \in Transaction : bank'[t].entry # NoEntry => entry'[bank'[t].entry] # "unused"
  <2>1. \A t \in Made : entry'[bank'[t].entry] = "posted"
    BY <1>2, <1>4
  <2>2. \A t \in Transaction : t \notin Made => bank'[t] = bank[t]
    BY <1>2
  <2> QED
    BY <1>5, <2>1, <2>2
<1>17. \A f \in Entry : review'[f] = "open" => f \in Reviewed /\ entry'[f] # "unused"
  <2>1. NothingAhead
    BY DEF IInv
  <2> QED
    BY <1>2, <2>1 DEF NothingAhead
<1> QED
  BY <1>1, <1>7, <1>8, <1>11, <1>12, <1>13, <1>14, <1>15, <1>16, <1>17, OutsideTheJob
-----------------------------------------------------------------------------
(* The clock, the first run, and steps of one run before its commit. *)

\* What only bank, ledger and the runner tell stays true while they stay.
LEMMA BankStands ==
  ASSUME IInv, UNCHANGED <<userVars, reversal, example, runner>>
  PROVE  /\ EventsTellTheTruth' /\ NothingAhead' /\ CarriedTogether' /\ RunnerIsSound'
         /\ NoSecondEffect'
         /\ \A t \in Transaction : HeldByPerson(t)' = HeldByPerson(t)
                                  /\ HeldByRunner(t)' = HeldByRunner(t)
<1> USE DEF userVars
<1>1. EventsTellTheTruth' /\ NothingAhead' /\ CarriedTogether'
  BY DEF IInv, EventsTellTheTruth, NothingAhead, CarriedTogether
<1>2. NoSecondEffect'
  BY DEF IInv, NoSecondEffect, OpenNotInForce, MovedOnce, InForce
<1>3. \A t \in Transaction : HeldByPerson(t)' = HeldByPerson(t)
                           /\ HeldByRunner(t)' = HeldByRunner(t)
  BY DEF HeldByPerson, Correcting, HeldByRunner, Made
<1> QED
  BY <1>1, <1>2, <1>3, RunnerIdles

\* The rows stay apart while the runs take none.
LEMMA RowsStand ==
  ASSUME IInv, UNCHANGED <<userVars, reversal, example, runner>>,
         \A t \in Transaction : HeldByJob(t)' => HeldByJob(t)
  PROVE  RowsApart'
BY BankStands, NoRowTaken

LEMMA TickStep ==
  ASSUME IInv, TypeOK', Tick
  PROVE  IInv'
<1>1. UNCHANGED <<userVars, reversal, example, runner, watermark, job, fate>> /\ now' = now + 1
  BY DEF Tick, jobVars
<1>6. RowsApart'
  BY <1>1, RowsStand DEF HeldByJob
<1>7. /\ EventsTellTheTruth' /\ NothingAhead' /\ CarriedTogether' /\ RunnerIsSound'
      /\ NoSecondEffect'
  BY <1>1, BankStands
<1> USE <1>1 DEF userVars
<1>2. Cutoff \in Int /\ Cutoff' = Cutoff + 1 /\ watermark.at \in Int
  <2>1. now \in Int /\ Lag \in Int /\ Cutoff \in Int /\ watermark.at \in Int
    BY Times, ReversalsAssumption DEF IInv
  <2> QED
    BY <2>1 DEF Cutoff
<1>3. ASSUME NEW r \in Run PROVE RunIsSound(r)'
  BY DEF IInv, RunIsSound, Batch, Carriers
<1>4. ASSUME NEW r \in Run PROVE RunSkipsNothing(r)'
  <2>1. SUFFICES ASSUME job[r].status # "idle" PROVE RunSkipsNothing(r)'
    BY DEF RunSkipsNothing
  <2>2. RunSkipsNothing(r) /\ job[r].last \in Entry
    BY <2>1 DEF IInv, RunSkipsNothing
  <2>3. reversal[job[r].last].at \in Int
    BY <2>2, Times DEF IInv
  <2>4. reversal[job[r].last].at <= Cutoff'
    <3>1. reversal[job[r].last].at <= Cutoff
      BY <2>1, <2>2 DEF RunSkipsNothing
    <3> QED
      BY <1>2, <2>3, <3>1
  <2>5. \A e \in Entry : Precedes(e, job[r].last)' => Precedes(e, job[r].last)
    BY DEF Precedes
  <2> QED
    BY <2>1, <2>2, <2>4, <2>5 DEF RunSkipsNothing, Batch
<1>5. HandledIsUndone' /\ NoneSkipped'
  BY DEF IInv, HandledIsUndone, Carriers, NoneSkipped, Behind
<1> QED
  BY <1>2, <1>3, <1>4, <1>5, <1>6, <1>7 DEF IInv

LEMMA FirstRunStep ==
  ASSUME IInv, TypeOK', FirstRun
  PROVE  IInv'
<1>1. /\ UNCHANGED <<now, userVars, reversal, example, runner, job>>
      /\ watermark'.at = Cutoff /\ watermark'.last = NoEntry
      /\ \A e \in Entry : fate'[e] = IF reversal[e].status # "none" /\ reversal[e].at <= Cutoff
                                     THEN "history" ELSE fate[e]
  BY DEF FirstRun
<1>7. RowsApart'
  BY <1>1, RowsStand DEF HeldByJob
<1>8. /\ EventsTellTheTruth' /\ NothingAhead' /\ CarriedTogether' /\ RunnerIsSound'
      /\ NoSecondEffect'
  BY <1>1, BankStands
<1> USE <1>1 DEF userVars
<1>2. Cutoff' = Cutoff /\ Cutoff \in Int
  BY Times DEF IInv, Cutoff
<1>3. ASSUME NEW r \in Run PROVE RunIsSound(r)'
  BY DEF IInv, RunIsSound, Batch, Carriers
<1>4. ASSUME NEW r \in Run PROVE RunSkipsNothing(r)'
  BY <1>2 DEF IInv, RunSkipsNothing, Precedes, Batch
<1>5. HandledIsUndone'
  BY DEF IInv, HandledIsUndone, Carriers
<1>6. NoneSkipped'
  <2>1. SUFFICES ASSUME NEW e \in Entry, reversal[e].status = "committed", Behind(e)'
                 PROVE  fate'[e] # "pending"
    BY DEF NoneSkipped
  <2>2. reversal[e].at \in Int
    BY Times DEF IInv
  <2>3. reversal[e].at <= Cutoff
    BY <1>2, <2>1, <2>2 DEF Behind
  <2> QED
    BY <2>1, <2>3
<1> QED
  BY <1>2, <1>3, <1>4, <1>5, <1>6, <1>7, <1>8 DEF IInv

LEMMA OneRun ==
  ASSUME IInv, TypeOK', UNCHANGED <<now, userVars, reversal, example, runner, watermark, fate>>,
         NEW r \in Run, \A q \in Run : q # r => job'[q] = job[q],
         RunIsSound(r)', RunSkipsNothing(r)',
         \A t \in job'[r].reopened : t \in job[r].reopened \/ (~HeldByPerson(t) /\ ~HeldByRunner(t))
  PROVE  IInv'
<1>5. RowsApart'
  <2>1. \A t \in Transaction : HeldByJob(t)' =>
          HeldByJob(t) \/ (~HeldByPerson(t) /\ ~HeldByRunner(t))
    <3>1. SUFFICES ASSUME NEW t \in Transaction, NEW q \in Run, t \in job'[q].reopened
                   PROVE  HeldByJob(t) \/ (~HeldByPerson(t) /\ ~HeldByRunner(t))
      BY DEF HeldByJob
    <3>2. CASE q = r
      BY <3>1, <3>2 DEF HeldByJob
    <3>3. CASE q # r
      BY <3>1, <3>3 DEF HeldByJob
    <3> QED
      BY <3>2, <3>3
  <2>2. \A t \in Transaction : HeldByPerson(t)' = HeldByPerson(t)
                             /\ HeldByRunner(t)' = HeldByRunner(t)
    BY BankStands
  <2>3. RowsApart
    BY DEF IInv
  <2> QED
    BY <2>1, <2>2, <2>3 DEF RowsApart
<1>6. /\ EventsTellTheTruth' /\ NothingAhead' /\ CarriedTogether' /\ RunnerIsSound'
      /\ NoSecondEffect'
  BY BankStands
<1> USE DEF userVars
<1>1. Cutoff' = Cutoff
  BY DEF Cutoff
<1>2. ASSUME NEW q \in Run PROVE RunIsSound(q)'
  BY DEF IInv, RunIsSound, Batch, Carriers
<1>3. ASSUME NEW q \in Run PROVE RunSkipsNothing(q)'
  BY <1>1 DEF IInv, RunSkipsNothing, Precedes, Batch
<1>4. HandledIsUndone' /\ NoneSkipped'
  BY DEF IInv, HandledIsUndone, Carriers, NoneSkipped, Behind
<1> QED
  BY <1>1, <1>2, <1>3, <1>4, <1>5, <1>6 DEF IInv

LEMMA KillStep ==
  ASSUME IInv, TypeOK', NEW r \in Run, Kill(r)
  PROVE  IInv'
<1>4. UNCHANGED <<now, userVars, reversal, example, runner, watermark, fate>>
  BY DEF Kill
<1>5. job'[r].reopened = {}
  BY DEF Kill, Idle, IInv, TypeOK
<1>1. job'[r] = Idle /\ \A q \in Run : q # r => job'[q] = job[q]
  BY DEF Kill, IInv, TypeOK
<1>2. RunIsSound(r)'
  BY <1>1 DEF RunIsSound, Batch, Idle
<1>3. RunSkipsNothing(r)'
  BY <1>1 DEF RunSkipsNothing, Idle
<1> QED
  BY <1>1, <1>2, <1>3, <1>4, <1>5, OneRun

\* A run keeps the batch it has read, whichever of its events it is at.
LEMMA SameBatch ==
  ASSUME IInv, NEW r \in Run, UNCHANGED <<now, reversal, fate>>,
         job[r].status # "idle", job'[r].status # "idle", job'[r].last = job[r].last,
         Batch(r)' = Batch(r)
  PROVE  RunSkipsNothing(r)'
<1>1. RunSkipsNothing(r) /\ Cutoff' = Cutoff
  BY DEF IInv, Cutoff
<1> QED
  BY <1>1 DEF RunSkipsNothing, Precedes

\* A run looks at the first event it has left, and at nothing else.
LEMMA LookChanges ==
  ASSUME TypeOK, NEW r \in Run, Look(r)
  PROVE  /\ job[r].status = "handling"
         /\ UNCHANGED <<now, userVars, reversal, example, rule, runner, watermark, lock, fate,
                        unlocked>>
         /\ \A q \in Run : q # r => job'[q] = job[q]
         /\ job'[r].status = "looked" /\ job'[r].event \in job[r].todo
         /\ job'[r].seen => example[job'[r].event] > 0
         /\ job'[r].locked = job[r].locked /\ job'[r].last = job[r].last
         /\ job'[r].todo = job[r].todo /\ job'[r].handled = job[r].handled
         /\ job'[r].failed = job[r].failed /\ job'[r].fresh = job[r].fresh
         /\ job'[r].reopened = job[r].reopened
<1>1. PICK e \in Entry : /\ IsFirst(e, job[r].todo)
                        /\ job' = [job EXCEPT ![r].status = "looked", ![r].event = e,
                                              ![r].seen = example[e] > 0]
  BY Zenon DEF Look
<1>2. /\ job[r].status = "handling"
      /\ UNCHANGED <<now, userVars, reversal, example, rule, runner, watermark, lock, fate,
                     unlocked>>
  BY Zenon DEF Look
<1>3. job[r] \in JobRow
  BY DEF TypeOK
<1>4. /\ job'[r] = [job[r] EXCEPT !.status = "looked", !.event = e, !.seen = example[e] > 0]
      /\ \A q \in Run : q # r => job'[q] = job[q]
  BY <1>1 DEF TypeOK
<1>5. /\ job'[r].status = "looked" /\ job'[r].event = e
      /\ job'[r].seen = (example[e] > 0)
      /\ job'[r].locked = job[r].locked /\ job'[r].last = job[r].last
      /\ job'[r].todo = job[r].todo /\ job'[r].handled = job[r].handled
      /\ job'[r].failed = job[r].failed /\ job'[r].fresh = job[r].fresh
      /\ job'[r].reopened = job[r].reopened
  BY <1>3, <1>4 DEF JobRow
<1> QED
  BY <1>1, <1>2, <1>4, <1>5 DEF IsFirst

LEMMA LookStep ==
  ASSUME IInv, TypeOK', NEW r \in Run, Look(r)
  PROVE  IInv'
<1>1. TypeOK /\ RunIsSound(r)
  BY DEF IInv
<1>2. Batch(r)' = Batch(r)
  BY <1>1, LookChanges DEF Batch
<1>3. RunIsSound(r)'
  BY <1>1, <1>2, LookChanges DEF RunIsSound, Carriers, userVars
<1>4. RunSkipsNothing(r)'
  BY <1>1, <1>2, LookChanges, SameBatch
<1> QED
  BY <1>1, <1>3, <1>4, LookChanges, OneRun

LEMMA HandleStep ==
  ASSUME IInv, TypeOK', NEW r \in Run, Handle(r)
  PROVE  IInv'
<1> DEFINE e == job[r].event
           row == [job[r] EXCEPT !.status = "handling", !.todo = @ \ {e},
                                 !.handled = @ \cup {e},
                                 !.fresh = IF job[r].seen THEN @ ELSE @ \cup {e},
                                 !.reopened = @ \cup Carriers(e)]
<1>1. job' = [job EXCEPT ![r] = row] /\ job[r].status = "looked"
  BY DEF Handle
<1>2. job[r] \in JobRow /\ RunIsSound(r)
  BY DEF IInv, TypeOK
<1>3. /\ row.status = "handling" /\ row.todo = job[r].todo \ {e}
      /\ row.handled = job[r].handled \cup {e} /\ row.failed = job[r].failed
      /\ row.fresh = IF job[r].seen THEN job[r].fresh ELSE job[r].fresh \cup {e}
      /\ row.reopened = job[r].reopened \cup Carriers(e) /\ row.last = job[r].last
  BY <1>2 DEF JobRow
<1> HIDE DEF row
<1>4. job'[r] = row /\ \A q \in Run : q # r => job'[q] = job[q]
  BY <1>1 DEF IInv, TypeOK
<1>5. UNCHANGED <<now, userVars, reversal, example, runner, watermark, fate>>
  BY DEF Handle
<1>6. e \in job[r].todo /\ e \in Entry /\ entry[e] = "reversed"
  BY <1>1, <1>2 DEF RunIsSound, Batch, JobRow
<1>7. Batch(r)' = Batch(r)
  BY <1>3, <1>4, <1>6 DEF Batch
<1>8. \A f \in Entry : Carriers(f)' = Carriers(f)
  BY <1>5 DEF Carriers, userVars
<1>9. RunIsSound(r)'
  <2>1. job[r].handled \subseteq Entry
    BY <1>2 DEF JobRow
  <2>2. \A f \in row.handled : f \in row.fresh \/ example[f] > 0
    BY <1>1, <1>2, <1>3 DEF RunIsSound
  <2>3. \A f \in row.handled : Carriers(f)' \subseteq row.reopened
    BY <1>2, <1>3, <1>6, <1>8, <2>1 DEF RunIsSound
  <2>4. \A t \in row.reopened : bank[t].entry # NoEntry /\ entry[bank[t].entry] = "reversed"
    BY <1>2, <1>3, <1>6, ReversalsAssumption DEF RunIsSound, Carriers, NoEntry
  <2>5. row.fresh \subseteq row.handled
    BY <1>2, <1>3 DEF RunIsSound
  <2>6. \A f \in Batch(r)' : entry'[f] = "reversed"
    BY <1>2, <1>5, <1>7 DEF RunIsSound, userVars
  <2> QED
    BY <1>3, <1>4, <1>5, <2>2, <2>3, <2>4, <2>5, <2>6 DEF RunIsSound, userVars
<1>10. RunSkipsNothing(r)'
  BY <1>1, <1>3, <1>4, <1>5, <1>7, SameBatch
<1>11. \A t \in Carriers(e) : ~HeldByPerson(t) /\ ~HeldByRunner(t)
  BY DEF Handle, Blocked
<1>12. \A t \in job'[r].reopened :
         t \in job[r].reopened \/ (~HeldByPerson(t) /\ ~HeldByRunner(t))
  <2>1. job'[r].reopened = job[r].reopened \cup Carriers(e)
    BY <1>3, <1>4
  <2> QED
    BY <1>11, <2>1
<1> QED
  BY <1>4, <1>5, <1>9, <1>10, <1>12, OneRun

LEMMA FailStep ==
  ASSUME IInv, TypeOK', NEW r \in Run, Fail(r)
  PROVE  IInv'
<1> DEFINE row == [job[r] EXCEPT !.status = "handling", !.todo = @ \ {job[r].event},
                                 !.failed = @ \cup {job[r].event}]
<1>1. job' = [job EXCEPT ![r] = row] /\ job[r].status = "looked"
  BY DEF Fail
<1>2. job[r] \in JobRow /\ RunIsSound(r)
  BY DEF IInv, TypeOK
<1>3. /\ row.status = "handling" /\ row.todo = job[r].todo \ {job[r].event}
      /\ row.failed = job[r].failed \cup {job[r].event}
      /\ row.handled = job[r].handled /\ row.fresh = job[r].fresh
      /\ row.reopened = job[r].reopened /\ row.last = job[r].last
  BY <1>2 DEF JobRow
<1> HIDE DEF row
<1>4. job'[r] = row /\ \A q \in Run : q # r => job'[q] = job[q]
  BY <1>1 DEF IInv, TypeOK
<1>5. UNCHANGED <<now, userVars, reversal, example, runner, watermark, fate>>
  BY DEF Fail
<1>6. Batch(r)' = Batch(r)
  BY <1>1, <1>2, <1>3, <1>4 DEF RunIsSound, Batch
<1>7. RunIsSound(r)'
  BY <1>2, <1>3, <1>4, <1>5, <1>6 DEF RunIsSound, Carriers, userVars
<1>8. RunSkipsNothing(r)'
  BY <1>1, <1>3, <1>4, <1>5, <1>6, SameBatch
<1>9. \A t \in job'[r].reopened : t \in job[r].reopened
  BY <1>3, <1>4
<1> QED
  BY <1>4, <1>5, <1>7, <1>8, <1>9, OneRun

\* What is read ends where the batch is full: no event before its last one is left out.
LEMMA ReadStep ==
  ASSUME IInv, TypeOK', NEW r \in Run, NEW locked \in BOOLEAN, Read(r, locked)
  PROVE  IInv'
<1>1. PICK S \in SUBSET Due, last \in Due :
        /\ IsLast(last, S) /\ \A f \in Due \ S : Precedes(last, f)
        /\ job' = [job EXCEPT ![r] = [Idle EXCEPT !.status = "handling", !.locked = locked,
                                                  !.todo = S, !.last = last]]
  BY ZenonT(30) DEF Read
<1>2. \A q \in Run : q # r => job'[q] = job[q]
  BY <1>1 DEF IInv, TypeOK
<1>3. /\ job'[r].status = "handling" /\ job'[r].todo = S /\ job'[r].last = last
      /\ job'[r].handled = {} /\ job'[r].failed = {} /\ job'[r].fresh = {}
      /\ job'[r].reopened = {}
  BY <1>1 DEF IInv, TypeOK, Idle
<1>4. UNCHANGED <<now, userVars, reversal, example, runner, watermark, fate>>
  BY DEF Read
<1>5. Batch(r)' = S
  BY <1>3 DEF Batch
<1>6. RunIsSound(r)'
  <2>1. \A e \in S : entry[e] = "reversed"
    BY DEF IInv, EventsTellTheTruth, Due
  <2> QED
    BY <1>3, <1>4, <1>5, <2>1 DEF RunIsSound, userVars
<1>7. RunSkipsNothing(r)'
  <2>1. /\ last \in Entry /\ reversal[last].status = "committed"
        /\ reversal[last].at <= Cutoff /\ Cutoff' = Cutoff
    BY <1>4 DEF Due, Cutoff
  <2>2. ASSUME NEW e \in Entry, reversal[e].status = "committed", ~reversal[e].late,
               Precedes(e, last)
        PROVE  e \in S \/ fate[e] # "pending"
    <3>1. /\ reversal[e].at \in Int /\ reversal[last].at \in Int /\ Cutoff \in Int
          /\ e \in Int /\ last \in Int
      <4>1. TypeOK /\ \A f \in Entry : f \in Int
        BY ReversalsAssumption DEF IInv
      <4> QED
        BY <2>1, <4>1, Times
    <3>2. CASE e \in Due
      BY <1>1, <2>2, <3>1, <3>2 DEF Precedes, IsLast
    <3>3. CASE e \notin Due
      <4>1. reversal[e].at <= Cutoff
        BY <2>1, <2>2, <3>1 DEF Precedes
      <4>2. Behind(e)
        BY <2>2, <3>3, <4>1 DEF Due
      <4> QED
        BY <2>2, <4>2 DEF IInv, NoneSkipped
    <3> QED
      BY <3>2, <3>3
  <2> QED
    BY <1>3, <1>4, <1>5, <2>1, <2>2 DEF RunSkipsNothing, Precedes
<1> QED
  BY <1>2, <1>3, <1>4, <1>6, <1>7, OneRun

-----------------------------------------------------------------------------
(* The commit of a run. *)

LEMMA FinishStep ==
  ASSUME IInv, TypeOK', NEW r \in Run, Finish(r)
  PROVE  IInv'
<1>1. /\ UNCHANGED <<now, moves, entry, reversal, runner>> /\ job[r].status = "handling" /\ job[r].todo = {}
      /\ watermark'.at = reversal[job[r].last].at /\ watermark'.last = job[r].last
  BY DEF Finish
<1>2. \A e \in Entry : example'[e] = IF e \in job[r].fresh THEN example[e] + 1 ELSE example[e]
  BY DEF Finish
<1>3. \A e \in Entry : review'[e] = IF e \in Charged(r) /\ review[e] = "open"
                                    THEN "closed" ELSE review[e]
  BY DEF Finish
<1>4. \A t \in Transaction : bank'[t] = IF t \in job[r].reopened
                                        THEN [bank[t] EXCEPT !.status = "new"] ELSE bank[t]
  BY DEF Finish
<1>5. \A e \in Entry : fate'[e] = IF e \in job[r].handled THEN "handled"
                                  ELSE IF e \in job[r].failed /\ fate[e] = "pending" THEN "failed"
                                  ELSE fate[e]
  BY DEF Finish
<1>6. job'[r] = Idle /\ \A q \in Run : q # r => job'[q] = job[q]
  BY DEF Finish, IInv, TypeOK
<1>7. /\ RunIsSound(r) /\ RunSkipsNothing(r)
      /\ job[r].handled \subseteq Entry /\ job[r].reopened \subseteq Transaction
  BY DEF IInv, TypeOK, JobRow
<1>8. \A t \in Transaction : /\ bank'[t].entry = bank[t].entry
                             /\ bank[t].entry \in Entry \cup {NoEntry}
                             /\ bank'[t].status = IF t \in job[r].reopened THEN "new"
                                                  ELSE bank[t].status
  <2>1. \A t \in Transaction :
          bank[t] \in [status : {"absent", "new", "booked"}, entry : Entry \cup {NoEntry}]
    BY DEF IInv, TypeOK
  <2> QED
    BY <1>4, <2>1
<1>9. \A e \in Entry : Carriers(e)' = Carriers(e) \ job[r].reopened
  BY <1>8 DEF Carriers
<1>10. \A e \in Entry : example[e] \in Nat /\ (review'[e] = "open" => review[e] = "open")
  BY <1>3 DEF IInv, TypeOK
<1>11. \A e \in job[r].handled :
         entry[e] = "reversed" /\ Carriers(e)' = {} /\ review'[e] # "open"
  <2>1. SUFFICES ASSUME NEW e \in job[r].handled
                 PROVE  entry[e] = "reversed" /\ Carriers(e)' = {} /\ review'[e] # "open"
    OBVIOUS
  <2>2. e \in Entry /\ entry[e] = "reversed" /\ Carriers(e) \subseteq job[r].reopened
    BY <1>7 DEF RunIsSound, Batch
  <2>3. CASE e \in job[r].fresh
    <3>1. review[e] = "open" => e \in Charged(r)
      BY <2>2, <2>3 DEF IInv, NothingAhead, Charged
    <3> QED
      BY <1>3, <1>9, <2>2, <3>1
  <2>4. CASE e \notin job[r].fresh
    <3>1. review[e] # "open"
      BY <1>7, <2>2, <2>4 DEF RunIsSound, IInv, NothingAhead
    <3> QED
      BY <1>9, <1>10, <2>2, <3>1
  <2> QED
    BY <2>3, <2>4
<1>12. EventsTellTheTruth'
  BY <1>1 DEF IInv, EventsTellTheTruth
<1>13. NothingAhead'
  <2>1. \A t \in Transaction : bank'[t].entry # NoEntry => entry'[bank'[t].entry] # "unused"
    BY <1>1, <1>8 DEF IInv, NothingAhead
  <2>2. ASSUME NEW e \in Entry, review'[e] = "open" PROVE e \in Reviewed /\ entry'[e] # "unused"
    BY <1>1, <1>10, <2>2 DEF IInv, NothingAhead
  <2>3. ASSUME NEW e \in Entry, example'[e] > 0
        PROVE  entry'[e] = "reversed" /\ review'[e] # "open"
    <3>1. CASE e \in job[r].fresh
      BY <1>1, <1>7, <1>11, <3>1 DEF RunIsSound
    <3>2. CASE e \notin job[r].fresh
      BY <1>1, <1>2, <1>10, <2>3, <3>2 DEF IInv, NothingAhead
    <3> QED
      BY <3>1, <3>2
  <2> QED
    BY <2>1, <2>2, <2>3 DEF NothingAhead
<1>14. ASSUME NEW q \in Run PROVE RunIsSound(q)'
  <2>1. CASE q = r
    BY <1>6, <2>1 DEF RunIsSound, Batch, Idle
  <2>2. CASE q # r
    <3>1. /\ job'[q] = job[q] /\ RunIsSound(q)
          /\ Batch(q) \subseteq Entry /\ job[q].handled \subseteq Entry
          /\ job[q].reopened \subseteq Transaction
      BY <1>6, <2>2 DEF IInv, TypeOK, JobRow, Batch
    <3>2. \A e \in Entry : example[e] > 0 => example'[e] > 0
      BY <1>2, <1>10
    <3>3. \A e \in Batch(q)' : entry'[e] = "reversed"
      BY <1>1, <3>1 DEF RunIsSound, Batch
    <3>4. \A e \in job'[q].handled : /\ e \in job'[q].fresh \/ example'[e] > 0
                                     /\ Carriers(e)' \subseteq job'[q].reopened
      BY <1>9, <3>1, <3>2 DEF RunIsSound
    <3>5. \A t \in job'[q].reopened :
            bank'[t].entry # NoEntry /\ entry'[bank'[t].entry] = "reversed"
      BY <1>1, <1>8, <3>1 DEF RunIsSound
    <3>6. job'[q].status = "looked" => /\ job'[q].event \in job'[q].todo
                                       /\ job'[q].seen => example'[job'[q].event] > 0
      BY <3>1, <3>2 DEF RunIsSound, Batch
    <3> QED
      BY <3>1, <3>3, <3>4, <3>5, <3>6 DEF RunIsSound
  <2> QED
    BY <2>1, <2>2
<1>15. \A e \in Entry : fate[e] # "pending" => fate'[e] # "pending"
  BY <1>5
<1>16. ASSUME NEW q \in Run PROVE RunSkipsNothing(q)'
  <2>1. CASE q = r
    BY <1>6, <2>1 DEF RunSkipsNothing, Idle
  <2>2. CASE q # r
    <3>1. job'[q] = job[q] /\ RunSkipsNothing(q) /\ Cutoff' = Cutoff
      BY <1>1, <1>6, <2>2 DEF IInv, Cutoff
    <3> QED
      BY <1>1, <1>15, <3>1 DEF RunSkipsNothing, Precedes, Batch
  <2> QED
    BY <2>1, <2>2
<1>17. watermark'.at <= Cutoff'
  BY <1>1, <1>7 DEF RunSkipsNothing, Cutoff
<1>21. \A t \in Transaction : InForce(t)' <=> InForce(t)
  BY <1>1, <1>8 DEF InForce
<1>18. OpenNotInForce'
  <2>1. SUFFICES ASSUME NEW t \in Transaction, bank'[t].status = "new", bank'[t].entry # NoEntry
                 PROVE  entry'[bank'[t].entry] # "posted"
    BY DEF OpenNotInForce, InForce
  <2>2. CASE t \in job[r].reopened
    BY <1>1, <1>7, <1>8, <2>2 DEF RunIsSound
  <2>3. CASE t \notin job[r].reopened
    BY <1>1, <1>8, <2>1, <2>3 DEF IInv, NoSecondEffect, OpenNotInForce, InForce
  <2> QED
    BY <2>2, <2>3
<1>19. HandledIsUndone'
  <2>1. SUFFICES ASSUME NEW e \in Entry, fate'[e] = "handled"
                 PROVE  Carriers(e)' = {} /\ review'[e] # "open" /\ entry'[e] = "reversed"
    BY DEF HandledIsUndone
  <2>2. CASE e \in job[r].handled
    BY <1>1, <1>11, <2>2
  <2>3. CASE e \notin job[r].handled
    <3>1. fate[e] = "handled"
      BY <1>5, <2>1, <2>3
    <3> QED
      BY <1>1, <1>9, <1>10, <3>1 DEF IInv, HandledIsUndone
  <2> QED
    BY <2>2, <2>3
<1>20. NoneSkipped'
  <2>1. SUFFICES ASSUME NEW e \in Entry, reversal[e].status = "committed", ~reversal[e].late,
                        Behind(e)'
                 PROVE  fate'[e] # "pending"
    BY <1>1 DEF NoneSkipped
  <2>2. job[r].last \in Entry
    BY <1>1, <1>7 DEF RunSkipsNothing
  <2>3. job[r].last # NoEntry
    BY <2>2, ReversalsAssumption DEF NoEntry
  <2>4. Precedes(e, job[r].last)
    BY <1>1, <2>1, <2>3 DEF Behind, Precedes
  <2>5. e \in Batch(r) \/ fate[e] # "pending"
    BY <1>1, <1>7, <2>1, <2>4 DEF RunSkipsNothing
  <2> QED
    BY <1>1, <1>5, <2>5 DEF Batch
<1>22. NoSecondEffect'
  <2>1. MovedOnce
    BY DEF IInv, NoSecondEffect
  <2>2. MovedOnce'
    BY <1>1, <1>8, <1>21, <2>1, Pairs DEF MovedOnce
  <2> QED
    BY <1>18, <2>2 DEF NoSecondEffect
<1>23. \A t \in job[r].reopened : bank[t].status # "absent"
  BY <1>7 DEF IInv, CarriedTogether, RunIsSound
<1>24. \A t \in Transaction : bank'[t].status = "absent" <=> bank[t].status = "absent"
  BY <1>8, <1>23
<1>25. CarriedTogether'
  BY <1>8, <1>24 DEF IInv, CarriedTogether
<1>26. RowsApart'
  <2>1. \A t \in Transaction : HeldByPerson(t)' => HeldByPerson(t)
    BY <1>1, <1>8, Pairs DEF HeldByPerson, Correcting
  <2>2. \A t \in Transaction : HeldByRunner(t)' = HeldByRunner(t)
    BY <1>1 DEF HeldByRunner, Made
  <2>3. \A t \in Transaction : HeldByJob(t)' => HeldByJob(t)
    BY <1>6 DEF HeldByJob, Idle
  <2> QED
    BY <2>1, <2>2, <2>3, NoRowTaken
<1>27. RunnerIsSound'
  <2>1. \A t \in Made : t \in Transaction /\ Group[t] \subseteq Transaction
    BY Pairs DEF Made
  <2>2. \A t \in Made : \A s \in Group[t] :
          /\ bank'[s].entry = bank[s].entry
          /\ bank'[s].status = "absent" <=> bank[s].status = "absent"
    BY <1>8, <1>24, <2>1
  <2>3. \A e \in Entry : entry'[e] = "posted" => entry[e] # "reversed"
    BY <1>1
  <2> QED
    BY <1>1, <2>2, <2>3, RunnerStands
<1> QED
  BY <1>12, <1>13, <1>14, <1>16, <1>17, <1>19, <1>20, <1>22, <1>25, <1>26, <1>27 DEF IInv

-----------------------------------------------------------------------------
(* Counted once: as long as every run holds the lock, runs do not overlap, and what one run
   counts lies behind the watermark of the next. *)

Busy(r) == job[r].status # "idle"

\* While runs take the lock, at most one is under way, and it holds the lock.
Apart ==
  /\ \A r \in Run : Busy(r) => lock = "held" /\ job[r].locked
  /\ \A r, q \in Run : Busy(r) /\ Busy(q) => r = q

Counts ==
  /\ \A e \in Entry : example[e] <= 1
  /\ rule.contradictions = Cardinality({e \in Reviewed : example[e] = 1})

\* What was counted is behind the watermark, what a run has read is ahead of it.
CountedIsBehind == \A e \in Entry : example[e] > 0 => Behind(e)
ReadsAhead(r) ==
  Busy(r) => /\ ~Behind(job[r].last)
             /\ \A e \in Batch(r) : ~Behind(e) /\ Precedes(e, job[r].last)

CountInv == Apart /\ Counts /\ CountedIsBehind /\ \A r \in Run : ReadsAhead(r)

LEMMA BehindComesFirst ==
  ASSUME TypeOK, NEW e \in Entry, NEW f \in Entry, Behind(e), ~Behind(f)
  PROVE  Precedes(e, f)
<1>1. \A g \in Entry : g \in Int
  BY ReversalsAssumption
<1>2. reversal[e].at \in Int /\ reversal[f].at \in Int /\ watermark.at \in Int
  BY Times
<1>3. watermark.last \in Int
  <2>1. watermark.last \in Entry \/ watermark.last = 0
    BY DEF TypeOK, NoEntry
  <2> QED
    BY <1>1, <2>1
<1> QED
  BY <1>1, <1>2, <1>3 DEF Behind, Precedes

\* What was counted and what was read is reversed, and its event does not change any more.
LEMMA CountedIsCommitted ==
  ASSUME IInv
  PROVE  /\ \A e \in Entry : example[e] > 0 => reversal[e].status = "committed"
         /\ \A r \in Run : Batch(r) \subseteq Entry
         /\ \A r \in Run : \A e \in Batch(r) : reversal[e].status = "committed"
<1>1. \A e \in Entry : example[e] > 0 => reversal[e].status = "committed"
  BY DEF IInv, NothingAhead, EventsTellTheTruth
<1>2. \A r \in Run : job[r] \in JobRow
  BY DEF IInv, TypeOK
<1>3. \A r \in Run : Batch(r) \subseteq Entry
  BY <1>2 DEF JobRow, Batch
<1>4. \A r \in Run : \A e \in Batch(r) : reversal[e].status = "committed"
  BY <1>3 DEF IInv, RunIsSound, EventsTellTheTruth
<1> QED
  BY <1>1, <1>3, <1>4

\* A step outside the job.
LEMMA CountsStand ==
  ASSUME IInv, CountInv, UNCHANGED <<example, watermark, lock, job>>,
         rule'.contradictions = rule.contradictions,
         \A f \in Entry : reversal[f].status = "committed" => reversal'[f] = reversal[f]
  PROVE  CountInv'
<1>1. Apart' /\ Counts'
  BY DEF CountInv, Apart, Busy, Counts
<1>2. CountedIsBehind'
  BY CountedIsCommitted DEF CountInv, CountedIsBehind, Behind
<1>3. ASSUME NEW r \in Run PROVE ReadsAhead(r)'
  <2>1. SUFFICES ASSUME Busy(r) PROVE ReadsAhead(r)'
    BY DEF ReadsAhead, Busy
  <2>2. ReadsAhead(r) /\ RunSkipsNothing(r)
    BY DEF IInv, CountInv
  <2>3. job[r].last \in Entry /\ reversal'[job[r].last] = reversal[job[r].last]
    BY <2>1, <2>2 DEF RunSkipsNothing, Busy
  <2>4. \A e \in Batch(r) : reversal'[e] = reversal[e]
    BY CountedIsCommitted
  <2> QED
    BY <2>1, <2>2, <2>3, <2>4 DEF ReadsAhead, Busy, Batch, Behind, Precedes
<1> QED
  BY <1>1, <1>2, <1>3 DEF CountInv

\* A step of the run under way, before it commits.
LEMMA RunGoesOn ==
  ASSUME IInv, CountInv, NEW r \in Run,
         UNCHANGED <<example, watermark, lock, reversal, rule>>,
         Busy(r), Busy(r)', job'[r].locked = job[r].locked, job'[r].last = job[r].last,
         Batch(r)' \subseteq Batch(r), \A q \in Run : q # r => job'[q] = job[q]
  PROVE  CountInv'
<1>1. \A q \in Run : Busy(q)' <=> Busy(q)
  BY DEF Busy
<1>2. Apart'
  <2>1. \A q \in Run : Busy(q)' => lock' = "held" /\ job'[q].locked
    BY <1>1 DEF CountInv, Apart
  <2>2. \A q, p \in Run : Busy(q)' /\ Busy(p)' => q = p
    BY <1>1 DEF CountInv, Apart
  <2> QED
    BY <2>1, <2>2 DEF Apart
<1>3. Counts' /\ CountedIsBehind'
  BY DEF CountInv, Counts, CountedIsBehind, Behind
<1>4. ASSUME NEW q \in Run PROVE ReadsAhead(q)'
  <2>1. ReadsAhead(q) /\ (Busy(q) => q = r)
    BY DEF CountInv, Apart
  <2> QED
    BY <1>1, <2>1 DEF ReadsAhead, Behind, Precedes
<1> QED
  BY <1>2, <1>3, <1>4 DEF CountInv

\* A run takes the lock, which no other run holds, and reads what is ahead of the watermark.
LEMMA StartCounts ==
  ASSUME IInv, CountInv, NEW r \in Run, Start(r)
  PROVE  CountInv'
<1>1. PICK S \in SUBSET Due, last \in Due :
        /\ IsLast(last, S)
        /\ job' = [job EXCEPT ![r] = [Idle EXCEPT !.status = "handling", !.locked = TRUE,
                                                  !.todo = S, !.last = last]]
  BY ZenonT(30) DEF Start, Read
<1>2. \A q \in Run : q # r => job'[q] = job[q]
  BY <1>1 DEF IInv, TypeOK
<1>3. /\ job'[r].status = "handling" /\ job'[r].locked /\ job'[r].last = last
      /\ job'[r].todo = S /\ job'[r].handled = {} /\ job'[r].failed = {}
  BY <1>1 DEF IInv, TypeOK, Idle
<1>4. /\ lock = "free" /\ lock' = "held"
      /\ UNCHANGED <<example, watermark, reversal, rule>>
  BY DEF Start, Read
<1>5. \A q \in Run : ~Busy(q)
  BY <1>4 DEF CountInv, Apart
<1>6. \A q \in Run : Busy(q)' => q = r
  BY <1>2, <1>5 DEF Busy
<1>7. Apart'
  <2>1. \A q \in Run : Busy(q)' => lock' = "held" /\ job'[q].locked
    BY <1>3, <1>4, <1>6
  <2>2. \A q, p \in Run : Busy(q)' /\ Busy(p)' => q = p
    BY <1>6
  <2> QED
    BY <2>1, <2>2 DEF Apart
<1>8. Counts' /\ CountedIsBehind'
  BY <1>4 DEF CountInv, Counts, CountedIsBehind, Behind
<1>9. Batch(r)' = S
  BY <1>3 DEF Batch
<1>10. ReadsAhead(r)'
  BY <1>1, <1>3, <1>4, <1>9 DEF ReadsAhead, Due, Behind, Precedes, IsLast
<1>11. \A q \in Run : ReadsAhead(q)'
  BY <1>6, <1>10 DEF ReadsAhead
<1> QED
  BY <1>7, <1>8, <1>11 DEF CountInv

\* The run commits: what it counts anew was ahead of the watermark and is behind it now.
LEMMA FinishCounts ==
  ASSUME IInv, CountInv, NEW r \in Run, Finish(r)
  PROVE  CountInv'
<1>1. /\ UNCHANGED reversal /\ job[r].status = "handling"
      /\ watermark'.at = reversal[job[r].last].at /\ watermark'.last = job[r].last
      /\ rule'.contradictions = rule.contradictions + Cardinality(Charged(r))
  BY DEF Finish
<1>2. \A e \in Entry : example'[e] = IF e \in job[r].fresh THEN example[e] + 1 ELSE example[e]
  BY DEF Finish
<1>3. job'[r] = Idle /\ \A q \in Run : q # r => job'[q] = job[q]
  BY DEF Finish, IInv, TypeOK
<1>4. Busy(r) /\ RunIsSound(r) /\ RunSkipsNothing(r) /\ ReadsAhead(r)
  BY <1>1 DEF IInv, CountInv, Busy
<1>5. /\ job[r].last \in Entry /\ job[r].last # NoEntry
      /\ job[r].fresh \subseteq Batch(r) /\ Batch(r) \subseteq Entry
  BY <1>4, CountedIsCommitted, ReversalsAssumption
     DEF RunSkipsNothing, RunIsSound, Batch, Busy, NoEntry
<1>6. \A e \in Entry : example[e] \in Nat
  BY DEF IInv, TypeOK
<1>7. \A e \in job[r].fresh : example[e] = 0
  <2>1. \A e \in job[r].fresh : ~(example[e] > 0)
    BY <1>4, <1>5 DEF CountInv, CountedIsBehind, ReadsAhead
  <2> QED
    BY <1>5, <1>6, <2>1
<1>8. \A q \in Run : ~Busy(q)'
  <2>1. \A q \in Run : q # r => ~Busy(q)
    BY <1>4 DEF CountInv, Apart
  <2> QED
    BY <1>3, <2>1 DEF Busy, Idle
<1>9. Apart' /\ \A q \in Run : ReadsAhead(q)'
  BY <1>8 DEF Apart, ReadsAhead
<1>10. CountedIsBehind'
  <2>1. SUFFICES ASSUME NEW e \in Entry, example'[e] > 0 PROVE Behind(e)'
    BY DEF CountedIsBehind
  <2>2. Precedes(e, job[r].last)
    <3>1. CASE e \in job[r].fresh
      BY <1>4, <1>5, <3>1 DEF ReadsAhead
    <3>2. CASE e \notin job[r].fresh
      <4>1. Behind(e) /\ ~Behind(job[r].last)
        BY <1>2, <1>4, <2>1, <3>2 DEF CountInv, CountedIsBehind, ReadsAhead
      <4> QED
        BY <1>5, <4>1, BehindComesFirst DEF IInv
    <3> QED
      BY <3>1, <3>2
  <2> QED
    BY <1>1, <1>5, <2>2 DEF Precedes, Behind
<1>11. Counts'
  <2> DEFINE Before == {e \in Reviewed : example[e] = 1}
             After  == {e \in Reviewed : example'[e] = 1}
  <2>1. Reviewed \subseteq Entry
    BY ReversalsAssumption
  <2>2. \A e \in Entry : example[e] <= 1 /\ example'[e] <= 1
    BY <1>2, <1>6, <1>7 DEF CountInv, Counts
  <2>3. After = Before \cup Charged(r) /\ Before \cap Charged(r) = {}
    BY <1>2, <1>6, <1>7, <2>1 DEF Charged
  <2>4. IsFiniteSet(Before) /\ IsFiniteSet(Charged(r))
    <3>1. Before \subseteq Entry
      BY <2>1
    <3> QED
      BY <3>1, ChargedIsFinite, ReversalsAssumption, FS_Subset DEF IInv
  <2>5. rule.contradictions = Cardinality(Before)
    BY DEF CountInv, Counts
  <2> HIDE DEF Before, After
  <2>6. Cardinality(After) = Cardinality(Before) + Cardinality(Charged(r))
    <3>1. Cardinality(Before \cup Charged(r))
            = Cardinality(Before) + Cardinality(Charged(r)) - Cardinality(Before \cap Charged(r))
      BY <2>4, FS_Union
    <3>2. Cardinality(Before \cap Charged(r)) = 0
      BY <2>3, FS_EmptySet
    <3>3. Cardinality(Before) \in Nat /\ Cardinality(Charged(r)) \in Nat
      BY <2>4, FS_CardinalityType
    <3> QED
      BY <2>3, <3>1, <3>2, <3>3
  <2>7. rule'.contradictions = Cardinality(After)
    BY <1>1, <2>5, <2>6
  <2> QED
    BY <2>2, <2>7 DEF Counts, After
<1> QED
  BY <1>9, <1>10, <1>11 DEF CountInv

LEMMA FirstRunCounts ==
  ASSUME IInv, CountInv, FirstRun
  PROVE  CountInv'
<1>1. /\ watermark.at = -1 /\ lock = "free"
      /\ UNCHANGED <<example, reversal, rule, lock, job>>
  BY DEF FirstRun
<1>2. \A r \in Run : ~Busy(r)
  BY <1>1 DEF CountInv, Apart
<1>3. \A e \in Entry : ~Behind(e)
  <2>1. SUFFICES ASSUME NEW e \in Entry PROVE ~Behind(e)
    OBVIOUS
  <2>2. reversal[e].at \in Moment
    BY DEF IInv, TypeOK
  <2>3. reversal[e].at \in Int /\ reversal[e].at >= 0
    BY <2>2, ReversalsAssumption DEF Moment
  <2> QED
    BY <1>1, <2>3 DEF Behind
<1>4. Apart' /\ \A r \in Run : ReadsAhead(r)'
  BY <1>1, <1>2 DEF Apart, ReadsAhead, Busy
<1>5. Counts' /\ CountedIsBehind'
  BY <1>1, <1>3 DEF CountInv, Counts, CountedIsBehind
<1> QED
  BY <1>4, <1>5 DEF CountInv

\* A run that is killed leaves what it has not committed; no other is under way.
LEMMA KillCounts ==
  ASSUME IInv, CountInv, NEW r \in Run, Kill(r)
  PROVE  CountInv'
<1>1. UNCHANGED <<example, reversal, rule, watermark>> /\ Busy(r)
  BY DEF Kill, Busy
<1>2. job'[r] = Idle /\ \A q \in Run : q # r => job'[q] = job[q]
  BY DEF Kill, IInv, TypeOK
<1>3. \A q \in Run : ~Busy(q)'
  <2>1. \A q \in Run : q # r => ~Busy(q)
    BY <1>1 DEF CountInv, Apart
  <2> QED
    BY <1>2, <2>1 DEF Busy, Idle
<1>4. Apart' /\ \A q \in Run : ReadsAhead(q)'
  BY <1>3 DEF Apart, ReadsAhead
<1>5. Counts' /\ CountedIsBehind'
  BY <1>1 DEF CountInv, Counts, CountedIsBehind, Behind
<1> QED
  BY <1>4, <1>5 DEF CountInv

\* A lock left behind was left by a run that has ended.
LEMMA ExpireCounts ==
  ASSUME IInv, CountInv, Expire
  PROVE  CountInv'
<1>1. lock = "left" /\ UNCHANGED <<example, reversal, rule, watermark, job>>
  BY DEF Expire, userVars
<1>2. \A r \in Run : ~Busy(r)
  BY <1>1 DEF CountInv, Apart
<1>3. Apart' /\ \A r \in Run : ReadsAhead(r)'
  BY <1>1, <1>2 DEF Apart, ReadsAhead, Busy
<1>4. Counts' /\ CountedIsBehind'
  BY <1>1 DEF CountInv, Counts, CountedIsBehind, Behind
<1> QED
  BY <1>3, <1>4 DEF CountInv

LEMMA GoesOnCounts ==
  ASSUME IInv, CountInv, NEW r \in Run, Look(r) \/ Handle(r) \/ Fail(r)
  PROVE  CountInv'
<1>0. TypeOK
  BY DEF IInv
<1>1. job[r] \in JobRow /\ RunIsSound(r) /\ Busy(r)
  <2>1. CASE Look(r)
    BY <1>0, <2>1, LookChanges DEF IInv, TypeOK, Busy
  <2>2. CASE Handle(r) \/ Fail(r)
    BY <2>2 DEF IInv, TypeOK, Handle, Fail, Busy
  <2> QED
    BY <2>1, <2>2
<1>2. UNCHANGED <<example, watermark, lock, reversal, rule>>
  <2>1. CASE Look(r)
    BY <1>0, <2>1, LookChanges
  <2>2. CASE Handle(r) \/ Fail(r)
    BY <2>2 DEF Handle, Fail
  <2> QED
    BY <2>1, <2>2
<1>3. \A q \in Run : q # r => job'[q] = job[q]
  <2>1. CASE Look(r)
    BY <1>0, <2>1, LookChanges
  <2>2. CASE Handle(r) \/ Fail(r)
    BY <2>2 DEF Handle, Fail, IInv, TypeOK
  <2> QED
    BY <2>1, <2>2
<1>4. /\ job'[r].status \in {"handling", "looked"}
      /\ job'[r].locked = job[r].locked /\ job'[r].last = job[r].last
  <2>1. CASE Look(r)
    BY <1>0, <2>1, LookChanges
  <2>2. CASE Handle(r)
    BY <1>1, <2>2 DEF Handle, JobRow, IInv, TypeOK
  <2>3. CASE Fail(r)
    BY <1>1, <2>3 DEF Fail, JobRow, IInv, TypeOK
  <2> QED
    BY <2>1, <2>2, <2>3
<1>5. Batch(r)' \subseteq Batch(r)
  <2>1. CASE Look(r)
    BY <1>0, <2>1, LookChanges DEF Batch
  <2>2. CASE Handle(r)
    <3>1. /\ job'[r].todo = job[r].todo \ {job[r].event}
          /\ job'[r].handled = job[r].handled \cup {job[r].event}
          /\ job'[r].failed = job[r].failed /\ job[r].event \in job[r].todo
      BY <1>1, <2>2 DEF Handle, RunIsSound, JobRow, IInv, TypeOK
    <3> QED
      BY <3>1 DEF Batch
  <2>3. CASE Fail(r)
    <3>1. /\ job'[r].todo = job[r].todo \ {job[r].event}
          /\ job'[r].failed = job[r].failed \cup {job[r].event}
          /\ job'[r].handled = job[r].handled /\ job[r].event \in job[r].todo
      BY <1>1, <2>3 DEF Fail, RunIsSound, JobRow, IInv, TypeOK
    <3> QED
      BY <3>1 DEF Batch
  <2> QED
    BY <2>1, <2>2, <2>3
<1> QED
  BY <1>1, <1>2, <1>3, <1>4, <1>5, RunGoesOn DEF Busy

LEMMA CountInit == Init => CountInv
<1> SUFFICES ASSUME Init PROVE CountInv
  OBVIOUS
<1>1. \A r \in Run : ~Busy(r)
  BY DEF Init, Idle, Busy
<1>2. {e \in Reviewed : example[e] = 1} = {}
  <2>1. \A e \in Reviewed : e \in Entry
    BY ReversalsAssumption
  <2>2. \A e \in Reviewed : example[e] = 0
    BY <2>1 DEF Init
  <2> QED
    BY <2>2
<1>3. /\ \A e \in Entry : example[e] = 0
      /\ rule.contradictions = Cardinality({e \in Reviewed : example[e] = 1})
  <2>1. rule.contradictions = 0
    BY DEF Init
  <2> QED
    BY <1>2, <2>1, FS_EmptySet DEF Init
<1>4. Counts /\ CountedIsBehind
  BY <1>3 DEF Counts, CountedIsBehind
<1> QED
  BY <1>1, <1>4 DEF CountInv, Apart, ReadsAhead

\* What persons, the runner and the clock leave to the job.
LEMMA OutsideLeaves ==
  ASSUME IInv, User \/ RunnerWorks \/ RunnerEnds \/ Tick \/ \E e \in Entry : Commit(e)
  PROVE  /\ UNCHANGED <<example, watermark, lock, job, unlocked>>
         /\ rule'.contradictions = rule.contradictions
         /\ \A f \in Entry : reversal[f].status = "committed" => reversal'[f] = reversal[f]
<1>0. /\ rule \in [state : {"approved", "active", "disabled"}, contradictions : Nat]
  BY DEF IInv, TypeOK
<1>1. ASSUME NEW t \in Transaction, Import(t) \/ \E e \in Entry : Book(t, e)
      PROVE  UNCHANGED <<example, rule, reversal, jobVars>>
  BY <1>1 DEF Import, Book
<1>2. ASSUME NEW t \in Transaction, NEW reason \in Reason, BeginCorrect(t, reason)
      PROVE  bank[t].entry \in Entry /\ Begin(bank[t].entry, reason, TRUE)
  BY <1>2, CarriedEntries DEF BeginCorrect, InForce
<1>3. ASSUME NEW e \in Entry, NEW reason, NEW of, Begin(e, reason, of)
      PROVE  /\ UNCHANGED <<example, rule, jobVars>>
             /\ \A f \in Entry : reversal[f].status = "committed" => reversal'[f] = reversal[f]
  BY <1>0, <1>3 DEF Begin
<1>4. ASSUME NEW e \in Entry, Decide(e) PROVE UNCHANGED <<example, rule, reversal, jobVars>>
  BY <1>4 DEF Decide
<1>5. CASE Activate \/ Disable
  BY <1>0, <1>5 DEF Activate, Disable, jobVars
<1>6. ASSUME RunnerWorks \/ RunnerEnds \/ Tick PROVE UNCHANGED <<example, rule, reversal, jobVars>>
  BY <1>6 DEF RunnerWorks, RunnerChoose, RunnerPost, RunnerRefuse, RunnerEnds, RunnerCommit,
              RunnerRollback, Tick
<1>7. ASSUME NEW e \in Entry, Commit(e)
      PROVE  /\ UNCHANGED <<example, rule, jobVars>>
             /\ \A f \in Entry : reversal[f].status = "committed" => reversal'[f] = reversal[f]
  <2>1. ASSUME CommitReverse(e) \/ \E new \in Entry : CommitCorrect(e, new)
        PROVE  /\ UNCHANGED <<example, rule, jobVars>> /\ reversal[e].status = "open" /\ Publish(e)
    BY <2>1 DEF CommitReverse, CommitCorrect, Correcting
  <2>2. CASE Rollback(e)
    BY <1>0, <2>2 DEF Rollback
  <2> QED
    BY <1>7, <2>1, <2>2, CommitPublishes DEF Commit
<1> QED
  BY <1>1, <1>2, <1>3, <1>4, <1>5, <1>6, <1>7 DEF User, BeginReverse, jobVars

LEMMA CountStep == IInv /\ (~unlocked => CountInv) /\ [Next]_vars => (~unlocked' => CountInv')
<1> SUFFICES ASSUME IInv, ~unlocked => CountInv, [Next]_vars, ~unlocked'
             PROVE  CountInv'
  OBVIOUS
<1>1. ASSUME NEW r \in Run, StartUnlocked(r) PROVE FALSE
  BY <1>1 DEF StartUnlocked
<1>2. CountInv
  <2>1. CASE User \/ RunnerWorks \/ RunnerEnds \/ Tick \/ \E e \in Entry : Commit(e)
    BY <2>1, OutsideLeaves
  <2>2. CASE Job
    <3>1. ASSUME NEW r \in Run, Look(r) PROVE UNCHANGED unlocked
      BY <3>1, LookChanges DEF IInv
    <3>2. ASSUME NEW r \in Run, Start(r) \/ Handle(r) PROVE UNCHANGED unlocked
      BY <3>2 DEF Start, Handle
    <3>3. ASSUME NEW r \in Run, Finish(r) PROVE UNCHANGED unlocked
      BY <3>3 DEF Finish
    <3>4. FirstRun \/ Expire => UNCHANGED unlocked
      BY DEF FirstRun, Expire
    <3> QED
      BY <2>2, <3>1, <3>2, <3>3, <3>4 DEF Job
  <2>3. ASSUME NEW r \in Run, Fault(r) PROVE CountInv
    BY <1>1, <2>3 DEF Fault, Fail, Kill
  <2>4. CASE UNCHANGED vars
    BY <2>4 DEF vars, jobVars
  <2> QED
    BY <2>1, <2>2, <2>3, <2>4 DEF Next
<1>3. CASE \/ User \/ RunnerWorks \/ RunnerEnds \/ Tick \/ \E e \in Entry : Commit(e)
           \/ UNCHANGED vars
  <2>1. CASE UNCHANGED vars
    BY <1>2, <2>1, CountsStand DEF vars, jobVars
  <2>2. CASE User \/ RunnerWorks \/ RunnerEnds \/ Tick \/ \E e \in Entry : Commit(e)
    BY <1>2, <2>2, OutsideLeaves, CountsStand
  <2> QED
    BY <1>3, <2>1, <2>2
<1>5. CASE Job
  BY <1>2, <1>5, FirstRunCounts, ExpireCounts, StartCounts, GoesOnCounts, FinishCounts DEF Job
<1>6. ASSUME NEW r \in Run, Fault(r) PROVE CountInv'
  BY <1>1, <1>2, <1>6, GoesOnCounts, KillCounts DEF Fault
<1> QED
  BY <1>3, <1>5, <1>6 DEF Next

-----------------------------------------------------------------------------
(* The theorems. *)

LEMMA InvariantInit == Init => IInv
<1> SUFFICES ASSUME Init PROVE IInv
  OBVIOUS
<1> USE DEF Init
<1>1. EventsTellTheTruth /\ NothingAhead
  BY DEF EventsTellTheTruth, NothingAhead, NoReversal
<1>2. ASSUME NEW r \in Run PROVE RunIsSound(r) /\ RunSkipsNothing(r)
  BY DEF RunIsSound, RunSkipsNothing, Batch, Idle
<1>3. watermark.at <= Cutoff
  BY ReversalsAssumption DEF Cutoff
<1>4. NoSecondEffect /\ HandledIsUndone /\ NoneSkipped
  <2>1. \A t \in Transaction : ~InForce(t)
    BY DEF InForce
  <2>2. NoSecondEffect
    BY <2>1 DEF NoSecondEffect, OpenNotInForce, MovedOnce
  <2> QED
    BY <2>2 DEF HandledIsUndone, NoneSkipped, NoReversal
<1>5. Made = {} /\ CarriedTogether /\ RunnerIsSound
  BY DEF Made, NoRun, CarriedTogether, RunnerIsSound
<1>6. RowsApart
  BY <1>5 DEF RowsApart, HeldByPerson, HeldByRunner, HeldByJob, NoRun, Idle
<1> QED
  BY <1>1, <1>2, <1>3, <1>4, <1>5, <1>6, TypeInit DEF IInv

LEMMA InvariantStep == IInv /\ [Next]_vars => IInv'
<1> SUFFICES ASSUME IInv, [Next]_vars PROVE IInv'
  OBVIOUS
<1>0. TypeOK'
  BY TypeStep
<1>1. CASE User
  <2>1. CASE Activate \/ Disable
    BY <1>0, <2>1, OtherStep DEF Activate, Disable, jobVars
  <2> QED
    BY <1>0, <1>1, <2>1, ImportStep, BookStep, BeginCorrectStep, BeginReverseStep, DecideStep
       DEF User
<1>2. CASE RunnerWorks \/ RunnerEnds
  BY <1>0, <1>2, RunnerChooseStep, RunnerPostStep, RunnerLetsGo, RunnerCommitStep
     DEF RunnerWorks, RunnerEnds
<1>3. CASE Tick
  BY <1>0, <1>3, TickStep
<1>4. CASE Job
  <2>1. CASE Expire
    BY <1>0, <2>1, OtherStep DEF Expire
  <2>2. ASSUME NEW r \in Run, Start(r) PROVE IInv'
    BY <1>0, <2>2, ReadStep DEF Start
  <2> QED
    BY <1>0, <1>4, <2>1, <2>2, FirstRunStep, LookStep, HandleStep, FinishStep DEF Job
<1>5. ASSUME NEW e \in Entry, Commit(e) PROVE IInv'
  BY <1>0, <1>5, CommitReverseStep, RollbackStep, CommitCorrectStep DEF Commit
<1>6. ASSUME NEW r \in Run, Fault(r) PROVE IInv'
  BY <1>0, <1>6, ReadStep, FailStep, KillStep DEF Fault, StartUnlocked
<1>7. CASE UNCHANGED vars
  BY <1>0, <1>7, OtherStep DEF vars, jobVars
<1> QED
  BY <1>1, <1>2, <1>3, <1>4, <1>5, <1>6, <1>7 DEF Next

LEMMA Invariance == Spec => []IInv
BY InvariantInit, InvariantStep, PTL DEF Spec

\* Every row of bank, ledger, review, rule and job stays within its columns.
THEOREM TypeCorrect == Spec => []TypeOK
<1>1. IInv => TypeOK
  BY DEF IInv
<1> QED
  BY <1>1, Invariance, PTL

\* A transaction offered for booking carries no posting in force, and two postings in force on
\* the halves of a transfer move no bank account both, however late the job hears of a reversal
\* and whatever persons and the runner book in the meantime (matching.book_payment,
\* matching._transfer_partner, runner.run_for_tenant, events_consumer._on_entry_reversed).
THEOREM OneEffect == Spec => []NoSecondEffect
<1>1. IInv => NoSecondEffect
  BY DEF IInv
<1> QED
  BY <1>1, Invariance, PTL

\* A reversal the job has handled leaves no transaction booked on the reversed posting, none
\* of the halves of a transfer pair, and no review waiting for it (_on_entry_reversed).
THEOREM HandledUndone == Spec => []HandledIsUndone
<1>1. IInv => HandledIsUndone
  BY DEF IInv
<1> QED
  BY <1>1, Invariance, PTL

\* The watermark passes only reversals that were handled or have failed, and those whose
\* database transaction lasted longer than the lag (events_consumer.process_tenant).
THEOREM PassedIsHandled == Spec => []NoneSkipped
<1>1. IInv => NoneSkipped
  BY DEF IInv
<1> QED
  BY <1>1, Invariance, PTL

\* As long as Redis answers, a reversal is counted once against its rule, whatever fails or is
\* killed (proposals.record_reversal, learning.on_automation_error).
THEOREM CountedOnceWithTheLock == Spec => []CountedOnce
<1>1. Init => (~unlocked => CountInv)
  BY CountInit
<1>2. (~unlocked => CountInv) => CountedOnce
  BY DEF CountInv, Counts, CountedOnce
<1> QED
  BY <1>1, <1>2, CountStep, Invariance, PTL DEF Spec

\* A disabled rule stays disabled, whatever is activated, counted or committed beside it, and
\* the runner posts at most the one transaction it had chosen under the rule before
\* (routers.activate_rule and _rule, learning.on_automation_error, runner.run_for_tenant).
THEOREM DisabledStays == Spec => DisabledForGood
<1>1. ASSUME IInv, [Next]_vars
      PROVE  [rule.state = "disabled" =>
                /\ rule'.state = "disabled"
                /\ runner'.chosen \subseteq runner.chosen
                /\ ~(Made' \subseteq Made) => runner.chosen # {} /\ runner'.chosen = {}]_vars
  <2>1. SUFFICES ASSUME rule.state = "disabled"
                 PROVE  /\ rule'.state = "disabled"
                        /\ runner'.chosen \subseteq runner.chosen
                        /\ ~(Made' \subseteq Made) => runner.chosen # {} /\ runner'.chosen = {}
    OBVIOUS
  <2>0. /\ TypeOK
        /\ rule \in [state : {"approved", "active", "disabled"}, contradictions : Nat]
        /\ runner \in [chosen : SUBSET Transaction, made : [Transaction -> Automatic \cup {NoEntry}]]
    BY <1>1 DEF IInv, TypeOK
  <2>2. runner' = runner => runner'.chosen \subseteq runner.chosen /\ Made' = Made
    BY DEF Made
  <2>3. CASE User
    <3>1. /\ rule' = rule \/ Activate \/ Disable
          /\ UNCHANGED runner
      BY <2>3 DEF User, Import, Book, BeginCorrect, BeginReverse, Begin, Decide, Activate, Disable
    <3>2. rule'.state = "disabled"
      BY <2>0, <2>1, <3>1 DEF Activate, Disable
    <3> QED
      BY <2>2, <3>1, <3>2
  <2>4. CASE RunnerWorks
    <3>1. UNCHANGED rule
      BY <2>4 DEF RunnerWorks, RunnerChoose, RunnerPost, RunnerRefuse
    <3>2. ASSUME NEW t \in Transaction, RunnerChoose(t) PROVE FALSE
      BY <2>1, <3>2 DEF RunnerChoose
    <3>3. ASSUME NEW t \in Transaction, NEW e \in Automatic, RunnerPost(t, e)
          PROVE  runner.chosen # {} /\ runner'.chosen = {}
      BY <3>3 DEF RunnerPost
    <3>4. CASE RunnerRefuse
      <4>1. runner'.chosen = {} /\ runner'.made = runner.made
        BY <2>0, <3>4 DEF RunnerRefuse
      <4>2. Made' = Made
        BY <4>1 DEF Made
      <4> QED
        BY <2>1, <3>1, <4>1, <4>2
    <3> QED
      BY <2>1, <2>4, <3>1, <3>2, <3>3, <3>4 DEF RunnerWorks
  <2>5. CASE RunnerEnds
    <3>1. UNCHANGED rule /\ runner' = NoRun
      BY <2>5 DEF RunnerEnds, RunnerCommit, RunnerRollback
    <3> QED
      BY <2>1, <3>1 DEF NoRun, Made
  <2>6. ASSUME NEW r \in Run, Finish(r) PROVE rule'.state = "disabled" /\ UNCHANGED runner
    BY <2>1, <2>6 DEF Finish, Lowered
  <2>7. ASSUME NEW e \in Entry, Commit(e) PROVE UNCHANGED <<rule, runner>>
    BY <2>7 DEF Commit, CommitReverse, Rollback, CommitCorrect
  <2>8. ASSUME NEW r \in Run, Look(r) PROVE UNCHANGED <<rule, runner>>
    BY <2>0, <2>8, LookChanges
  <2>9. CASE Job
    <3>1. FirstRun \/ Expire => UNCHANGED <<rule, runner>>
      BY DEF FirstRun, Expire
    <3>2. ASSUME NEW r \in Run, Start(r) \/ Handle(r) PROVE UNCHANGED <<rule, runner>>
      <4>1. ASSUME NEW locked, Read(r, locked) PROVE UNCHANGED <<rule, runner>>
        BY Zenon, <4>1 DEF Read
      <4>2. CASE Handle(r)
        BY <4>2 DEF Handle
      <4> QED
        BY <3>2, <4>1, <4>2 DEF Start
    <3> QED
      BY <2>1, <2>2, <2>6, <2>8, <2>9, <3>1, <3>2 DEF Job
  <2>10. ASSUME NEW r \in Run, Fault(r) PROVE UNCHANGED <<rule, runner>>
    <3>1. ASSUME NEW locked, Read(r, locked) PROVE UNCHANGED <<rule, runner>>
      BY Zenon, <3>1 DEF Read
    <3>2. CASE Fail(r) \/ Kill(r)
      BY <3>2 DEF Fail, Kill
    <3> QED
      BY <2>10, <3>1, <3>2 DEF Fault, StartUnlocked
  <2>11. CASE Tick \/ UNCHANGED vars
    BY <2>1, <2>2, <2>11 DEF Tick, vars
  <2> QED
    BY <1>1, <2>1, <2>2, <2>3, <2>4, <2>5, <2>7, <2>9, <2>10, <2>11 DEF Next
<1> QED
  BY <1>1, Invariance, PTL DEF Spec, DisabledForGood
=============================================================================
