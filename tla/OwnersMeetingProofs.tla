------------------------- MODULE OwnersMeetingProofs -------------------------
(***************************************************************************)
(* Proofs about module OwnersMeeting, for any units, people, rules and     *)
(* number of requests in flight.                                           *)
(***************************************************************************)
EXTENDS OwnersMeeting, SequenceTheorems, TLAPS

-----------------------------------------------------------------------------
(* The inductive invariant. *)

\* What a request in flight has checked when it began.
Checked(q) ==
  /\ q.at \notin {"closing", "closed"}
  /\ q.kind \in {"record", "announce"} =>
       q.seen.result # "deferred" /\ q.seen.announced = 0
  /\ q.kind = "patch" =>
       /\ q.seen.result # "announced"
       /\ q.to = "deferred" => \A u \in Unit : q.seen.vote[u] = "none"

Begun == \A r \in Request : request[r] # Idle => Checked(request[r])

\* A vote the manager has read still counts unless a conflict has replaced it.
Stands(q) ==
  q.kind = "record" /\ q.seen.vote[q.unit] # "none" =>
    vote[q.unit] = q.seen.vote[q.unit] \/ conflict[q.unit] # <<>>

ReadVotesStand == \A r \in Request : request[r] # Idle => Stands(request[r])

\* A conflict is between a counted vote and a second one.
ConflictsAreAboutVotes == \A u \in Unit : conflict[u] # <<>> => vote[u] # "none"

IInv == /\ TypeOK /\ Begun /\ ReadVotesStand /\ ConflictsAreAboutVotes
        /\ EachSourceOnce /\ NoVoteLost

-----------------------------------------------------------------------------
(* Requests: what one in flight carries, how it begins and how it ends. *)

LEMMA RecordCarries ==
  ASSUME NEW q \in InFlight \cup {Idle}, q.kind = "record"
  PROVE  /\ q.unit \in Unit /\ q.source \in Source /\ q.excluded \in BOOLEAN
         /\ q.at \in Status /\ q.seen \in Facts /\ q # Idle
BY DEF InFlight, Idle

LEMMA PortalCarries ==
  ASSUME NEW q \in InFlight \cup {Idle}, q.kind = "portal"
  PROVE  q.unit \in Unit /\ q.source \in Source /\ q # Idle
BY DEF InFlight, Idle

LEMMA ResolveCarries ==
  ASSUME NEW q \in InFlight \cup {Idle}, q.kind = "resolve"
  PROVE  q.unit \in Unit /\ q # Idle
BY DEF InFlight, Idle

LEMMA WindowCarries ==
  ASSUME NEW q \in InFlight \cup {Idle}, q.kind = "window"
  PROVE  q.to \in {"open", "closed"} /\ q # Idle
BY DEF InFlight, Idle

LEMMA AnnounceCarries ==
  ASSUME NEW q \in InFlight \cup {Idle}, q.kind = "announce"
  PROVE  q.seen \in Facts /\ q # Idle
BY DEF InFlight, Idle

LEMMA PatchCarries ==
  ASSUME NEW q \in InFlight \cup {Idle}, q.kind = "patch"
  PROVE  q.to \in {"none", "deferred"} /\ q.seen \in Facts /\ q # Idle
BY DEF InFlight, Idle

LEMMA AttendanceCarries ==
  ASSUME NEW q \in InFlight \cup {Idle}, q.kind = "attendance"
  PROVE  q.unit \in Unit /\ q.to \in Source \cup {"none"} /\ q # Idle
BY DEF InFlight, Idle

LEMMA DisruptionCarries ==
  ASSUME NEW q \in InFlight \cup {Idle}, q.kind = "disruption"
  PROVE  q.to \in {"held", "disrupted"} /\ q # Idle
BY DEF InFlight, Idle

LEMMA IdleIsNotInFlight == Idle \notin InFlight
BY DEF InFlight, Idle

\* What a request begins with has been checked and stands.
LEMMA ReadsAreChecked ==
  ASSUME TypeOK, Reads
  PROVE  \E what \in InFlight : Begin(what) /\ Checked(what) /\ Stands(what)
<1> USE DEF Checked, Stands
<1>0. /\ Read \in Facts /\ Read.result = result /\ Read.vote = vote
      /\ Read.announced = 0 <=> ~Announced
  BY DEF TypeOK, Read, Facts, Announced
<1>a. Standing \in Status /\ (~Locked => Standing \notin {"closing", "closed"})
  BY DEF TypeOK, Standing, Status, Locked
<1>1. ASSUME NEW u \in Unit, NEW e \in BOOLEAN, BeginRecord(u, e)
      PROVE  \E what \in InFlight : Begin(what) /\ Checked(what) /\ Stands(what)
  <2> DEFINE what == [kind |-> "record", at |-> Standing, unit |-> u,
                      source |-> attendance[u], excluded |-> e, seen |-> Read]
  <2>1. what \in InFlight
    BY <1>0, <1>a, <1>1 DEF BeginRecord, InFlight, TypeOK
  <2>2. Begin(what) /\ Checked(what) /\ Stands(what)
    BY <1>0, <1>a, <1>1 DEF BeginRecord, Halted, Locked
  <2>3. QED BY <2>1, <2>2
<1>2. ASSUME NEW u \in Unit, NEW s \in Source, BeginPortal(u, s)
      PROVE  \E what \in InFlight : Begin(what) /\ Checked(what) /\ Stands(what)
  <2> DEFINE what == [kind |-> "portal", at |-> Standing, unit |-> u, source |-> s]
  <2>1. what \in InFlight
    BY <1>a, <1>2 DEF InFlight, TypeOK
  <2>2. QED BY <1>a, <1>2, <2>1 DEF BeginPortal, Halted, Locked
<1>3. ASSUME NEW u \in Unit, NEW d \in {"keep_first", "apply_second"}, BeginResolve(u, d)
      PROVE  \E what \in InFlight : Begin(what) /\ Checked(what) /\ Stands(what)
  <2> DEFINE what == [kind |-> "resolve", at |-> Standing, unit |-> u, decision |-> d]
  <2>1. what \in InFlight
    BY <1>a, <1>3 DEF InFlight, TypeOK
  <2>2. QED BY <1>a, <1>3, <2>1 DEF BeginResolve, Locked
<1>4. ASSUME NEW u \in Unit, NEW a \in Source \cup {"none"}, BeginAttendance(u, a)
      PROVE  \E what \in InFlight : Begin(what) /\ Checked(what) /\ Stands(what)
  <2> DEFINE what == [kind |-> "attendance", at |-> status, unit |-> u, to |-> a]
  <2>1. what \in InFlight
    BY <1>4 DEF InFlight, TypeOK
  <2>2. QED BY <1>4, <2>1 DEF BeginAttendance
<1>5. ASSUME NEW to \in {"open", "closed"}, BeginWindow(to)
      PROVE  \E what \in InFlight : Begin(what) /\ Checked(what) /\ Stands(what)
  <2> DEFINE what == [kind |-> "window", at |-> Standing, to |-> to]
  <2>1. what \in InFlight
    BY <1>a, <1>5 DEF InFlight, TypeOK
  <2>2. QED BY <1>a, <1>5, <2>1 DEF BeginWindow, Halted, Locked
<1>6. ASSUME NEW to \in {"none", "deferred"}, BeginPatch(to)
      PROVE  \E what \in InFlight : Begin(what) /\ Checked(what) /\ Stands(what)
  <2> DEFINE what == [kind |-> "patch", at |-> Standing, to |-> to, seen |-> Read]
  <2>1. what \in InFlight
    BY <1>0, <1>a, <1>6 DEF InFlight, TypeOK
  <2>2. Begin(what) /\ Checked(what) /\ Stands(what)
    BY <1>0, <1>a, <1>6 DEF BeginPatch, Locked
  <2>3. QED BY <2>1, <2>2
<1>7. ASSUME NEW to \in {"held", "disrupted"}, BeginDisruption(to)
      PROVE  \E what \in InFlight : Begin(what) /\ Checked(what) /\ Stands(what)
  <2> DEFINE what == [kind |-> "disruption", at |-> Standing, to |-> to]
  <2>1. what \in InFlight
    BY <1>a, <1>7 DEF InFlight, TypeOK
  <2>2. QED BY <1>a, <1>7, <2>1 DEF BeginDisruption, Locked
<1>8. ASSUME BeginAnnounce
      PROVE  \E what \in InFlight : Begin(what) /\ Checked(what) /\ Stands(what)
  <2> DEFINE what == [kind |-> "announce", at |-> Standing, seen |-> Read]
  <2>1. what \in InFlight
    BY <1>0, <1>a, <1>8 DEF InFlight, TypeOK
  <2>2. Begin(what) /\ Checked(what) /\ Stands(what)
    BY <1>0, <1>a, <1>8 DEF BeginAnnounce, Halted, Locked
  <2>3. QED BY <2>1, <2>2
<1>9. QED BY <1>1, <1>2, <1>3, <1>4, <1>5, <1>6, <1>7, <1>8 DEF Reads

\* A request that has written leaves the others as they are.
LEMMA DoneLeaves ==
  ASSUME TypeOK, NEW r \in Request, request' = [request EXCEPT ![r] = Idle]
  PROVE  /\ request' \in [Request -> InFlight \cup {Idle}]
         /\ request'[r] = Idle
         /\ \A q \in Request : request'[q] # Idle => request'[q] = request[q]
BY DEF TypeOK

-----------------------------------------------------------------------------
(* Type correctness. *)

LEMMA InitType == Init => TypeOK
BY MeetingAssumption DEF Init, TypeOK, Status, Modes, Votes, Conflict, Resolution

\* A second vote writes sources only, if the caller has read one.
LEMMA SecondVoteType ==
  ASSUME TypeOK, NEW u \in Unit, NEW first \in Source, NEW s \in Source,
         SecondVote(u, first, s)
  PROVE  conflict' \in [Unit -> Seq(Conflict)] /\ vote' \in Votes /\ excluded' \subseteq Unit
<1> DEFINE row == [first |-> first, second |-> s,
                   state |-> IF Decision(first, s) = "replace" THEN "resolved" ELSE "open"]
<1>1. row \in Conflict /\ conflict[u] \in Seq(Conflict)
  BY DEF Conflict, TypeOK
<1>2. Append(conflict[u], row) \in Seq(Conflict)
  BY <1>1, AppendProperties
<1>3. conflict' = [conflict EXCEPT ![u] = Append(conflict[u], row)]
  BY DEF SecondVote
<1>4. vote' \in Votes /\ excluded' = excluded
  BY DEF SecondVote, TypeOK, Votes
<1>5. QED
  BY <1>2, <1>3, <1>4 DEF TypeOK

LEMMA FirstVoteType ==
  ASSUME TypeOK, NEW u \in Unit, NEW s \in Source, NEW e \in BOOLEAN, FirstVote(u, s, e)
  PROVE  conflict' \in [Unit -> Seq(Conflict)] /\ vote' \in Votes /\ excluded' \subseteq Unit
BY DEF FirstVote, TypeOK, Votes

LEMMA TypeStep ==
  ASSUME TypeOK, [Next]_vars
  PROVE  TypeOK'
<1>1. CASE Reads
  <2>1. PICK what \in InFlight : Begin(what)
    BY <1>1, ReadsAreChecked
  <2>2. QED BY <2>1 DEF Begin, TypeOK, people, item
<1>3. ASSUME NEW r \in Request, Record(r) PROVE TypeOK'
  <2> DEFINE q == request[r]
  <2>1. /\ q.unit \in Unit /\ q.source \in Source /\ q.excluded \in BOOLEAN
        /\ q.seen.vote[q.unit] \in Source \cup {"none"}
    BY <1>3, RecordCarries DEF Record, Done, TypeOK, Facts, Votes
  <2>2. request' \in [Request -> InFlight \cup {Idle}]
    BY <1>3, DoneLeaves DEF Record, Done
  <2>3. conflict' \in [Unit -> Seq(Conflict)] /\ vote' \in Votes /\ excluded' \subseteq Unit
    <3>1. CASE q.seen.vote[q.unit] = "none"
      BY <1>3, <2>1, <3>1, FirstVoteType DEF Record
    <3>2. CASE q.seen.vote[q.unit] # "none"
      BY <1>3, <2>1, <3>2, SecondVoteType DEF Record
    <3>3. QED BY <3>1, <3>2
  <2>4. QED BY <1>3, <2>1, <2>2, <2>3 DEF Record, Confirm, TypeOK, people
<1>4. ASSUME NEW r \in Request, Portal(r) PROVE TypeOK'
  <2> DEFINE q == request[r]
  <2>1. /\ q.unit \in Unit /\ q.source \in Source
        /\ vote[q.unit] \in Source \cup {"none"}
    BY <1>4, PortalCarries DEF Portal, Done, TypeOK, Votes
  <2>2. request' \in [Request -> InFlight \cup {Idle}]
    BY <1>4, DoneLeaves DEF Portal, Done
  <2>3. conflict' \in [Unit -> Seq(Conflict)] /\ vote' \in Votes /\ excluded' \subseteq Unit
    <3>1. CASE vote[q.unit] = "none"
      BY <1>4, <2>1, <3>1, FirstVoteType DEF Portal
    <3>2. CASE vote[q.unit] # "none"
      BY <1>4, <2>1, <3>2, SecondVoteType DEF Portal
    <3>3. QED BY <3>1, <3>2
  <2>4. QED BY <1>4, <2>1, <2>2, <2>3 DEF Portal, Confirm, TypeOK, people
<1>5. ASSUME NEW r \in Request, Resolve(r) PROVE TypeOK'
  <2> DEFINE u == request[r].unit
             c == conflict[u]
  <2>1. u \in Unit /\ c \in Seq(Conflict)
    BY <1>5, ResolveCarries DEF Resolve, Done, TypeOK
  <2>2. request' \in [Request -> InFlight \cup {Idle}]
    BY <1>5, DoneLeaves DEF Resolve, Done
  <2>3. PICK i \in DOMAIN c :
          /\ vote' = [vote EXCEPT ![u] =
                         IF request[r].decision = "apply_second" THEN c[i].second ELSE vote[u]]
          /\ conflict' = [conflict EXCEPT ![u] = [c EXCEPT ![i] = [c[i] EXCEPT !.state = "resolved"]]]
    BY <1>5 DEF Resolve
  <2>4. i \in 1..Len(c) /\ c[i] \in Conflict
    BY <2>1
  <2>5. [c EXCEPT ![i] = [c[i] EXCEPT !.state = "resolved"]] \in Seq(Conflict)
    BY <2>1, <2>4, ExceptSeq DEF Conflict
  <2>6. vote' \in Votes
    BY <2>1, <2>3, <2>4 DEF Votes, TypeOK, Conflict
  <2>7. QED BY <1>5, <2>2, <2>3, <2>5, <2>6 DEF Resolve, TypeOK, people
<1>6. ASSUME NEW r \in Request, Window(r) PROVE TypeOK'
  BY <1>6, WindowCarries, DoneLeaves DEF Window, Done, TypeOK, people
<1>7. ASSUME NEW r \in Request, Announce(r) PROVE TypeOK'
  <2> DEFINE n == [tally |-> request[r].seen.vote, number |-> request[r].seen.announced + 1]
  <2>1. n \in Resolution
    BY <1>7, AnnounceCarries DEF Announce, Done, TypeOK, Facts, Resolution
  <2>2. resolution' \in Seq(Resolution)
    BY <1>7, <2>1, AppendProperties DEF Announce, TypeOK
  <2>3. QED BY <1>7, <2>2, DoneLeaves DEF Announce, Done, TypeOK, people
<1>8. ASSUME NEW r \in Request, Patch(r) PROVE TypeOK'
  BY <1>8, PatchCarries, DoneLeaves DEF Patch, Done, TypeOK, people
<1>9. ASSUME NEW r \in Request, Attend(r) PROVE TypeOK'
  BY <1>9, AttendanceCarries, DoneLeaves DEF Attend, Done, TypeOK, people, item, Status
<1>10. ASSUME NEW r \in Request, Disrupt(r) PROVE TypeOK'
  BY <1>10, DisruptionCarries, DoneLeaves DEF Disrupt, Done, TypeOK, people, item, Status
<1>11. ASSUME NEW r \in Request, Abort(r) PROVE TypeOK'
  BY <1>11, DoneLeaves DEF Abort, TypeOK, people, item
<1>12. CASE Single
  <2> USE DEF TypeOK, item, people, Status
  <2>1. ASSUME NEW u \in User, request_close(u) \/ confirm_close(u) PROVE TypeOK'
    BY <2>1 DEF request_close, confirm_close
  <2>2. CASE withdraw_close
    BY <2>2 DEF withdraw_close
  <2>3. ASSUME NEW m \in Mode, put_online_setting(m) PROVE TypeOK'
    BY <2>3, MeetingAssumption DEF put_online_setting
  <2>4. ASSUME NEW u \in Unit, grant_proxy(u) \/ revoke_proxy(u) PROVE TypeOK'
    BY <2>4 DEF grant_proxy, revoke_proxy
  <2>5. QED BY <1>12, <2>1, <2>2, <2>3, <2>4 DEF Single
<1>13. CASE UNCHANGED vars
  BY <1>13 DEF vars, TypeOK, people, item
<1>14. QED
  BY <1>1, <1>3, <1>4, <1>5, <1>6, <1>7, <1>8, <1>9, <1>10, <1>11, <1>12, <1>13
  DEF Next, Writes

\* TypeCorrect: every row holds what its columns admit, in every run.
THEOREM TypeCorrect == Spec => []TypeOK
<1>1. TypeOK /\ [Next]_vars => TypeOK'
  BY TypeStep
<1>2. QED BY <1>1, InitType, PTL DEF Spec

-----------------------------------------------------------------------------
(* What a step does to the votes of one unit. *)

Confirmed(u) == {s \in Source : <<u, s>> \in accepted}

Untouched(u) ==
  vote'[u] = vote[u] /\ conflict'[u] = conflict[u] /\ Confirmed(u)' = Confirmed(u)

GetsFirst(u) ==
  \E s \in Source :
    /\ vote[u] = "none" /\ vote'[u] = s
    /\ conflict'[u] = conflict[u] /\ Confirmed(u)' = Confirmed(u) \cup {s}

GetsSecond(u) ==
  \E s \in Source, c \in Conflict :
    /\ conflict[u] = <<>> /\ conflict'[u] = <<c>>
    /\ c.first = vote[u] /\ c.second = s /\ c.first # s
    /\ vote'[u] \in {c.first, s} /\ Confirmed(u)' = Confirmed(u) \cup {s}

GetsDecided(u) ==
  \E i \in DOMAIN conflict[u], c \in Conflict :
    /\ c.first = conflict[u][i].first /\ c.second = conflict[u][i].second
    /\ conflict'[u] = [conflict[u] EXCEPT ![i] = c]
    /\ vote'[u] \in {vote[u], c.second} /\ Confirmed(u)' = Confirmed(u)

\* A source that may still vote for a unit meets no conflict there.
LEMMA UnusedMeansNoConflict ==
  ASSUME TypeOK, EachSourceOnce, NEW u \in Unit, NEW first \in Source,
         NEW s \in Source, s \notin Used(u, first)
  PROVE  conflict[u] = <<>> /\ s # first
<1>1. conflict[u] \in Seq(Conflict)
  BY DEF TypeOK
<1>2. ASSUME NEW i \in DOMAIN conflict[u] PROVE FALSE
  <2>1. /\ conflict[u][i].first \in Source /\ conflict[u][i].second \in Source
        /\ conflict[u][i].first # conflict[u][i].second
    <3>1. conflict[u][i] \in Conflict
      BY <1>1, <1>2
    <3>2. conflict[u][i].first # conflict[u][i].second
      BY <1>2 DEF EachSourceOnce
    <3>3. QED BY <3>1, <3>2 DEF Conflict
  <2>2. s \in {conflict[u][i].first, conflict[u][i].second}
    BY <2>1 DEF Source
  <2> DEFINE pair(j) == {conflict[u][j].first, conflict[u][j].second}
  <2>3. s \in UNION {pair(j) : j \in DOMAIN conflict[u]}
    BY <1>2, <2>2
  <2>4. QED BY <2>3 DEF Used
<1>3. QED BY <1>1, <1>2 DEF Used

LEMMA SecondVoteStep ==
  ASSUME TypeOK, EachSourceOnce, NEW u \in Unit, NEW first \in Source,
         NEW s \in Source, SecondVote(u, first, s), Confirm(u, s),
         vote[u] = first \/ conflict[u] # <<>>, NEW v \in Unit
  PROVE  GetsSecond(v) \/ Untouched(v)
<1>1. s \notin Used(u, first)
  BY DEF SecondVote
<1>2. conflict[u] = <<>> /\ s # first /\ vote[u] = first
  BY <1>1, UnusedMeansNoConflict
<1> DEFINE row == [first |-> first, second |-> s,
                   state |-> IF Decision(first, s) = "replace" THEN "resolved" ELSE "open"]
<1>3. row \in Conflict
  BY DEF Conflict
<1>4. conflict' = [conflict EXCEPT ![u] = <<row>>]
  BY <1>2 DEF SecondVote
<1>5. vote' = [vote EXCEPT ![u] = IF Decision(first, s) = "replace" THEN s ELSE vote[u]]
  BY DEF SecondVote
<1>6. accepted' = accepted \cup {<<u, s>>}
  BY DEF Confirm
<1>7. CASE v = u
  <2>1. conflict'[v] = <<row>> /\ vote'[v] \in {first, s}
    BY <1>2, <1>4, <1>5, <1>7 DEF TypeOK, Votes
  <2>2. Confirmed(v)' = Confirmed(v) \cup {s}
    BY <1>6, <1>7 DEF Confirmed
  <2>3. row.first = first /\ row.second = s
    OBVIOUS
  <2> HIDE DEF row
  <2>4. QED BY <1>2, <1>3, <1>7, <2>1, <2>2, <2>3 DEF GetsSecond
<1>8. CASE v # u
  BY <1>4, <1>5, <1>6, <1>8 DEF Untouched, Confirmed, TypeOK, Votes
<1>9. QED BY <1>7, <1>8

LEMMA FirstVoteStep ==
  ASSUME TypeOK, NEW u \in Unit, NEW s \in Source, NEW e \in BOOLEAN,
         FirstVote(u, s, e), Confirm(u, s), NEW v \in Unit
  PROVE  GetsFirst(v) \/ Untouched(v)
<1>1. CASE v = u
  BY <1>1 DEF FirstVote, Confirm, GetsFirst, Confirmed, TypeOK, Votes
<1>2. CASE v # u
  BY <1>2 DEF FirstVote, Confirm, Untouched, Confirmed, TypeOK, Votes
<1>3. QED BY <1>1, <1>2

LEMMA UnitStep ==
  ASSUME IInv, [Next]_vars, NEW v \in Unit
  PROVE  Untouched(v) \/ GetsFirst(v) \/ GetsSecond(v) \/ GetsDecided(v)
<1> USE DEF IInv
<1>1. CASE UNCHANGED <<vote, conflict, accepted>>
  BY <1>1 DEF Untouched, Confirmed
<1>2. ASSUME NEW r \in Request, Record(r)
      PROVE  Untouched(v) \/ GetsFirst(v) \/ GetsSecond(v)
  <2> DEFINE q == request[r]
             first == q.seen.vote[q.unit]
  <2>1. /\ q.unit \in Unit /\ q.source \in Source /\ q.excluded \in BOOLEAN
        /\ first \in Source \cup {"none"} /\ q # Idle /\ q.kind = "record"
    BY <1>2, RecordCarries DEF Record, Done, TypeOK, Facts, Votes
  <2>2. CASE first = "none"
    BY <1>2, <2>1, <2>2, FirstVoteStep DEF Record
  <2>3. CASE first # "none"
    <3>1. vote[q.unit] = first \/ conflict[q.unit] # <<>>
      BY <2>1, <2>3 DEF ReadVotesStand, Stands
    <3>2. QED BY <1>2, <2>1, <2>3, <3>1, SecondVoteStep DEF Record
  <2>4. QED BY <2>2, <2>3
<1>3. ASSUME NEW r \in Request, Portal(r)
      PROVE  Untouched(v) \/ GetsFirst(v) \/ GetsSecond(v)
  <2> DEFINE q == request[r]
  <2>1. q.unit \in Unit /\ q.source \in Source /\ vote[q.unit] \in Source \cup {"none"}
    BY <1>3, PortalCarries DEF Portal, Done, TypeOK, Votes
  <2>2. CASE vote[q.unit] = "none"
    BY <1>3, <2>1, <2>2, FirstVoteStep DEF Portal
  <2>3. CASE vote[q.unit] # "none"
    BY <1>3, <2>1, <2>3, SecondVoteStep DEF Portal
  <2>4. QED BY <2>2, <2>3
<1>4. ASSUME NEW r \in Request, Resolve(r) PROVE Untouched(v) \/ GetsDecided(v)
  <2> DEFINE u == request[r].unit
             c == conflict[u]
  <2>1. u \in Unit /\ c \in Seq(Conflict)
    BY <1>4, ResolveCarries DEF Resolve, Done, TypeOK
  <2>2. PICK i \in DOMAIN c :
          /\ vote' = [vote EXCEPT ![u] =
                         IF request[r].decision = "apply_second" THEN c[i].second ELSE vote[u]]
          /\ conflict' = [conflict EXCEPT ![u] = [c EXCEPT ![i] = [c[i] EXCEPT !.state = "resolved"]]]
    BY <1>4 DEF Resolve
  <2> DEFINE d == [c[i] EXCEPT !.state = "resolved"]
  <2>3. c[i] \in Conflict
    BY <2>1, <2>2
  <2>4. d \in Conflict /\ d.first = c[i].first /\ d.second = c[i].second
    BY <2>3 DEF Conflict
  <2>5. Confirmed(v)' = Confirmed(v)
    BY <1>4 DEF Resolve, Confirmed
  <2>6. CASE v = u
    <3>1. conflict'[v] = [conflict[v] EXCEPT ![i] = d] /\ vote'[v] \in {vote[v], d.second}
      BY <2>1, <2>2, <2>4, <2>6 DEF TypeOK, Votes
    <3> HIDE DEF d
    <3>2. QED BY <2>2, <2>4, <2>5, <2>6, <3>1 DEF GetsDecided
  <2>7. CASE v # u
    BY <2>1, <2>2, <2>5, <2>7 DEF Untouched, TypeOK, Votes
  <2>8. QED BY <2>6, <2>7
<1>5. ASSUME NEW r \in Request,
             Window(r) \/ Announce(r) \/ Patch(r) \/ Attend(r) \/ Disrupt(r) \/ Abort(r)
      PROVE  UNCHANGED <<vote, conflict, accepted>>
  BY <1>5 DEF Window, Announce, Patch, Attend, Disrupt, Abort, item
<1>6. CASE Reads
  <2>1. UNCHANGED item
    BY <1>6, ReadsAreChecked DEF Begin
  <2>2. QED BY <1>1, <2>1 DEF item
<1>7. CASE Single
  BY <1>1, <1>7
  DEF Single, request_close, confirm_close, withdraw_close, put_online_setting,
      grant_proxy, revoke_proxy, item
<1>8. CASE UNCHANGED vars
  BY <1>1, <1>8 DEF vars, item
<1>9. QED
  BY <1>1, <1>2, <1>3, <1>4, <1>5, <1>6, <1>7, <1>8 DEF Next, Writes

-----------------------------------------------------------------------------
(* The inductive invariant holds. *)

LEMMA OnlyRow ==
  ASSUME NEW n \in Nat, n <= 1, NEW i \in 1..n
  PROVE  n = 1 /\ i = 1
OBVIOUS

\* What the four ways of a unit's votes make of its invariants.
LEMMA UnitInvariant ==
  ASSUME IInv, [Next]_vars, NEW v \in Unit
  PROVE  /\ Len(conflict'[v]) <= 1
         /\ \A i \in DOMAIN conflict'[v] : conflict'[v][i].first # conflict'[v][i].second
         /\ conflict'[v] # <<>> => vote'[v] # "none"
         /\ conflict[v] # <<>> => conflict'[v] # <<>>
         /\ vote[v] # "none" => vote'[v] = vote[v] \/ conflict'[v] # <<>>
         /\ \A s \in Confirmed(v)' :
              \/ vote'[v] = s
              \/ \E i \in DOMAIN conflict'[v] :
                   s \in {conflict'[v][i].first, conflict'[v][i].second}
<1>1. /\ conflict[v] \in Seq(Conflict) /\ vote[v] \in Source \cup {"none"}
      /\ Len(conflict[v]) <= 1
      /\ \A i \in DOMAIN conflict[v] : conflict[v][i].first # conflict[v][i].second
      /\ conflict[v] # <<>> => vote[v] # "none"
  BY DEF IInv, TypeOK, Votes, EachSourceOnce, ConflictsAreAboutVotes
<1>2. \A s \in Confirmed(v) :
        \/ vote[v] = s
        \/ \E i \in DOMAIN conflict[v] : s \in {conflict[v][i].first, conflict[v][i].second}
  BY DEF IInv, NoVoteLost, Confirmed
<1>3. CASE Untouched(v)
  BY <1>1, <1>2, <1>3 DEF Untouched
<1>4. CASE GetsFirst(v)
  <2>1. PICK s \in Source :
          /\ vote[v] = "none" /\ vote'[v] = s
          /\ conflict'[v] = conflict[v] /\ Confirmed(v)' = Confirmed(v) \cup {s}
    BY <1>4 DEF GetsFirst
  <2>2. conflict[v] = <<>> /\ s # "none" /\ Confirmed(v) = {}
    <3>1. conflict[v] = <<>> /\ s # "none"
      BY <1>1, <2>1 DEF Source
    <3>2. Confirmed(v) \subseteq Source /\ "none" \notin Source
      BY DEF Confirmed, Source
    <3>3. \A t \in Confirmed(v) : t = "none"
      BY <1>2, <2>1, <3>1
    <3>4. QED BY <3>1, <3>2, <3>3
  <2>3. conflict'[v] = <<>> /\ DOMAIN conflict'[v] = {} /\ Len(conflict'[v]) = 0
    BY <2>1, <2>2
  <2>4. Confirmed(v)' = {s}
    BY <2>1, <2>2
  <2>5. QED BY <2>1, <2>2, <2>3, <2>4
<1>5. CASE GetsSecond(v)
  <2>1. PICK s \in Source, c \in Conflict :
          /\ conflict[v] = <<>> /\ conflict'[v] = <<c>>
          /\ c.first = vote[v] /\ c.second = s /\ c.first # s
          /\ vote'[v] \in {c.first, s} /\ Confirmed(v)' = Confirmed(v) \cup {s}
    BY <1>5 DEF GetsSecond
  <2>2. c.first \in Source /\ c.second \in Source /\ "none" \notin Source
    BY DEF Conflict, Source
  <2>3. \A t \in Confirmed(v) : t = vote[v]
    BY <1>2, <2>1
  <2>4. Len(<<c>>) = 1 /\ DOMAIN <<c>> = {1} /\ <<c>>[1] = c /\ <<c>> # <<>>
    OBVIOUS
  <2>5. QED BY <2>1, <2>2, <2>3, <2>4
<1>6. CASE GetsDecided(v)
  <2>1. PICK i \in DOMAIN conflict[v], c \in Conflict :
          /\ c.first = conflict[v][i].first /\ c.second = conflict[v][i].second
          /\ conflict'[v] = [conflict[v] EXCEPT ![i] = c]
          /\ vote'[v] \in {vote[v], c.second} /\ Confirmed(v)' = Confirmed(v)
    BY <1>6 DEF GetsDecided
  <2>2. i \in 1..Len(conflict[v]) /\ Len(conflict[v]) = 1
    <3>1. Len(conflict[v]) \in Nat /\ DOMAIN conflict[v] = 1..Len(conflict[v])
      BY <1>1
    <3>2. i \in 1..Len(conflict[v])
      BY <2>1, <3>1
    <3>3. Len(conflict[v]) <= 1
      BY <1>1
    <3>4. QED BY <3>1, <3>2, <3>3, OnlyRow
  <2>3. i = 1 /\ DOMAIN conflict[v] = {1}
    BY <1>1, <2>2
  <2>4. /\ conflict'[v] \in Seq(Conflict) /\ Len(conflict'[v]) = 1
        /\ conflict'[v][1] = c
    BY <1>1, <2>1, <2>2, <2>3, ExceptSeq
  <2>5. DOMAIN conflict'[v] = {1} /\ conflict'[v] # <<>> /\ conflict[v] # <<>>
    BY <1>1, <2>2, <2>4
  <2>6. c.first \in Source /\ c.second \in Source /\ "none" \notin Source
    BY DEF Conflict, Source
  <2>7. c.first # c.second
    BY <1>1, <2>1
  <2>8. \A s \in Confirmed(v)' : s \in {c.first, c.second}
    <3>1. SUFFICES ASSUME NEW s \in Confirmed(v) PROVE s \in {c.first, c.second}
      BY <2>1
    <3>2. s \in Source
      BY DEF Confirmed
    <3>3. QED BY <2>6, <2>7, <3>2 DEF Source
  <2>9. QED BY <1>1, <2>1, <2>4, <2>5, <2>6, <2>7, <2>8
<1>7. QED BY <1>3, <1>4, <1>5, <1>6, UnitStep

\* A request in flight is an old one, or one that has just read.
LEMMA RequestStep ==
  ASSUME TypeOK, [Next]_vars, NEW r \in Request, request'[r] # Idle
  PROVE  \/ request'[r] = request[r]
         \/ /\ request'[r] \in InFlight /\ Checked(request'[r]) /\ Stands(request'[r])
            /\ UNCHANGED item
<1>1. CASE Reads
  <2>1. PICK what \in InFlight : Begin(what) /\ Checked(what) /\ Stands(what)
    BY <1>1, ReadsAreChecked
  <2>2. request'[r] \in {request[r], what} /\ UNCHANGED item
    BY <2>1 DEF Begin, TypeOK
  <2>3. QED BY <2>1, <2>2
<1>2. CASE Writes
  <2>1. PICK q \in Request : request' = [request EXCEPT ![q] = Idle]
    BY <1>2 DEF Writes, Record, Portal, Resolve, Window, Announce, Patch, Attend,
                Disrupt, Abort, Done
  <2>2. QED BY <2>1, DoneLeaves
<1>3. CASE Single \/ UNCHANGED vars
  BY <1>3 DEF Single, request_close, confirm_close, withdraw_close, put_online_setting,
              grant_proxy, revoke_proxy, vars
<1>4. QED BY <1>1, <1>2, <1>3 DEF Next

LEMMA InitInvariant == Init => IInv
<1> SUFFICES ASSUME Init PROVE IInv
  OBVIOUS
<1>1. Begun /\ ReadVotesStand
  BY DEF Init, Begun, ReadVotesStand
<1>2. ConflictsAreAboutVotes /\ EachSourceOnce /\ NoVoteLost
  BY DEF Init, ConflictsAreAboutVotes, EachSourceOnce, NoVoteLost
<1>3. QED BY <1>1, <1>2, InitType DEF IInv

LEMMA InvariantStep ==
  ASSUME IInv, [Next]_vars
  PROVE  IInv'
<1>1. TypeOK'
  BY TypeStep DEF IInv
<1>2. Begun'
  <2>1. SUFFICES ASSUME NEW r \in Request, request'[r] # Idle PROVE Checked(request'[r])
    BY DEF Begun, Checked
  <2>2. QED BY <2>1, RequestStep DEF IInv, Begun
<1>3. ReadVotesStand'
  <2>1. SUFFICES ASSUME NEW r \in Request, request'[r] # Idle,
                        request'[r].kind = "record",
                        request'[r].seen.vote[request'[r].unit] # "none"
                 PROVE  \/ vote'[request'[r].unit] = request'[r].seen.vote[request'[r].unit]
                        \/ conflict'[request'[r].unit] # <<>>
    BY DEF ReadVotesStand, Stands
  <2>2. PICK q : q = request'[r]
    OBVIOUS
  <2>3. q.unit \in Unit
    BY <1>1, <2>1, <2>2, RecordCarries DEF TypeOK
  <2>4. q.seen.vote[q.unit] # "none" /\ q.kind = "record"
    BY <2>1, <2>2
  <2>5. CASE q = request[r]
    <3>1. vote[q.unit] = q.seen.vote[q.unit] \/ conflict[q.unit] # <<>>
      BY <2>1, <2>2, <2>4, <2>5 DEF IInv, ReadVotesStand, Stands
    <3>2. QED BY <2>2, <2>3, <2>4, <3>1, UnitInvariant
  <2>6. CASE Stands(q) /\ UNCHANGED item
    BY <2>2, <2>4, <2>6 DEF Stands, item
  <2>7. QED BY <2>1, <2>2, <2>5, <2>6, RequestStep DEF IInv
<1>4. ConflictsAreAboutVotes'
  BY UnitInvariant DEF ConflictsAreAboutVotes
<1>5. EachSourceOnce'
  BY UnitInvariant DEF EachSourceOnce
<1>6. NoVoteLost'
  <2>1. SUFFICES ASSUME NEW u \in Unit, NEW s \in Source, <<u, s>> \in accepted'
        PROVE  \/ vote'[u] = s
               \/ \E i \in DOMAIN conflict'[u] :
                    s \in {conflict'[u][i].first, conflict'[u][i].second}
    BY <1>1 DEF TypeOK, NoVoteLost
  <2>2. s \in Confirmed(u)'
    BY <2>1 DEF Confirmed
  <2>3. QED BY <2>2, UnitInvariant
<1>7. QED BY <1>1, <1>2, <1>3, <1>4, <1>5, <1>6 DEF IInv

LEMMA Invariance == Spec => []IInv
<1>1. IInv /\ [Next]_vars => IInv'
  BY InvariantStep
<1>2. QED BY <1>1, InitInvariant, PTL DEF Spec

\* VotesOnce: owner and proxy holder each vote at most once for a unit,
\* whatever rules the tenant switches between (handle_second_vote).
THEOREM VotesOnce == Spec => []EachSourceOnce
<1>1. IInv => EachSourceOnce
  BY DEF IInv
<1>2. QED BY <1>1, Invariance, PTL

\* VotesKept: a vote confirmed to the one who cast it is counted or stands in
\* a conflict record, with any number of votes under way (handle_second_vote).
THEOREM VotesKept == Spec => []NoVoteLost
<1>1. IInv => NoVoteLost
  BY DEF IInv
<1>2. QED BY <1>1, Invariance, PTL

-----------------------------------------------------------------------------
(* What only overlapping requests can break. *)

Overtaken(r) ==
  /\ Commits(r) /\ request[r].kind \in {"record", "announce", "patch"}
  /\ request[r].seen # Read

Unvoted == \A u \in Unit : vote[u] = "none"

\* Before the announcement an item in proper form stays so with every vote.
LEMMA VotingKeepsProper ==
  ASSUME Proper, resolution = <<>>, result # "deferred",
         UNCHANGED <<result, resolution>>
  PROVE  Proper'
BY DEF Proper, Announced

LEMMA ProperStep ==
  ASSUME IInv, Proper, [Next]_vars
  PROVE  Proper' \/ \E r \in Request : Overtaken(r)
<1> USE DEF IInv
<1>1. ASSUME UNCHANGED <<result, vote, resolution>> PROVE Proper'
  BY <1>1 DEF Proper, Announced
<1>2. ASSUME NEW r \in Request, Record(r) PROVE Proper' \/ Overtaken(r)
  <2>1. SUFFICES ASSUME request[r].seen = Read PROVE Proper'
    BY <1>2, RecordCarries, DoneLeaves DEF Record, Done, Overtaken, Commits, TypeOK
  <2>2. request[r].seen.result # "deferred" /\ request[r].seen.announced = 0
    BY <1>2, RecordCarries DEF Record, Done, Begun, Checked, TypeOK
  <2>3. result # "deferred" /\ Len(resolution) = 0
    BY <2>1, <2>2 DEF Read
  <2>4. resolution = <<>>
    BY <2>3 DEF TypeOK
  <2>5. QED BY <1>2, <2>3, <2>4, VotingKeepsProper DEF Record, Confirm
<1>3. ASSUME NEW r \in Request, Portal(r) PROVE Proper'
  BY <1>3, VotingKeepsProper DEF Portal, VotingOpen, Announced, Confirm
<1>4. ASSUME NEW r \in Request, Resolve(r) PROVE Proper'
  <2>1. PICK i \in DOMAIN conflict[request[r].unit] :
          /\ request[r].decision = "apply_second" => ~Announced
          /\ vote' = [vote EXCEPT ![request[r].unit] =
                         IF request[r].decision = "apply_second"
                         THEN conflict[request[r].unit][i].second ELSE @]
    BY <1>4 DEF Resolve
  <2>2. CASE request[r].decision # "apply_second"
    <3>1. vote' = vote
      BY <2>1, <2>2 DEF TypeOK, Votes
    <3>2. UNCHANGED <<result, resolution>>
      BY <1>4 DEF Resolve
    <3>3. QED BY <1>1, <3>1, <3>2
  <2>3. CASE request[r].decision = "apply_second"
    <3>1. request[r].unit \in Unit /\ conflict[request[r].unit] # <<>>
      BY <1>4, <2>1, ResolveCarries DEF Resolve, Done, TypeOK
    <3>2. vote[request[r].unit] # "none"
      BY <3>1 DEF ConflictsAreAboutVotes
    <3>3. result # "deferred"
      BY <3>1, <3>2 DEF Proper
    <3>4. QED BY <1>4, <2>1, <2>3, <3>3, VotingKeepsProper DEF Announced, Resolve
  <2>4. QED BY <2>2, <2>3
<1>5. ASSUME NEW r \in Request, Announce(r) PROVE Proper' \/ Overtaken(r)
  <2>1. SUFFICES ASSUME request[r].seen = Read PROVE Proper'
    BY <1>5, AnnounceCarries, DoneLeaves DEF Announce, Done, Overtaken, Commits, TypeOK
  <2>2. request[r].seen.announced = 0
    BY <1>5, AnnounceCarries DEF Announce, Done, Begun, Checked, TypeOK
  <2>3. resolution = <<>>
    BY <2>1, <2>2 DEF Read, TypeOK
  <2> DEFINE n == [tally |-> vote, number |-> 1]
  <2>4. resolution' = <<n>>
    BY <1>5, <2>1, <2>2, <2>3 DEF Announce, Read
  <2>5. result' = "announced" /\ vote' = vote
    BY <1>5 DEF Announce
  <2>6. Len(<<n>>) = 1 /\ DOMAIN <<n>> = {1} /\ <<n>>[1] = n /\ <<n>> # <<>>
    OBVIOUS
  <2>7. QED BY <2>4, <2>5, <2>6 DEF Proper, Announced
<1>6. ASSUME NEW r \in Request, Patch(r) PROVE Proper' \/ Overtaken(r)
  <2>1. SUFFICES ASSUME request[r].seen = Read PROVE Proper'
    BY <1>6, PatchCarries, DoneLeaves DEF Patch, Done, Overtaken, Commits, TypeOK
  <2>2. /\ result # "announced" /\ request[r].to \in {"none", "deferred"}
        /\ request[r].to = "deferred" => Unvoted
    BY <1>6, <2>1, PatchCarries DEF Patch, Done, Begun, Checked, TypeOK, Read, Unvoted
  <2>3. /\ result' = request[r].to /\ vote' = vote /\ resolution' = resolution
    BY <1>6 DEF Patch
  <2>4. QED BY <2>2, <2>3 DEF Proper, Announced, Unvoted
<1>7. ASSUME NEW r \in Request, Window(r) \/ Attend(r) \/ Disrupt(r) \/ Abort(r)
      PROVE  UNCHANGED <<result, vote, resolution>>
  BY <1>7 DEF Window, Attend, Disrupt, Abort, item
<1>8. CASE Reads
  BY <1>1, <1>8, ReadsAreChecked DEF Begin, item
<1>9. CASE Single
  BY <1>1, <1>9
  DEF Single, request_close, confirm_close, withdraw_close, put_online_setting,
      grant_proxy, revoke_proxy, item
<1>10. CASE UNCHANGED vars
  BY <1>1, <1>10 DEF vars, item
<1>11. QED
  BY <1>1, <1>2, <1>3, <1>4, <1>5, <1>6, <1>7, <1>8, <1>9, <1>10 DEF Next, Writes

\* ProperUnlessOvertaken: deferring, voting and announcing keep the item in its
\* proper form unless a request writes on reads that are no longer true (AA06).
THEOREM ProperUnlessOvertaken == Spec => OnlyOverlapsBreak
<1>1. IInv /\ [Next]_vars =>
        [Proper => Proper' \/ \E r \in Request :
           /\ Commits(r) /\ request[r].kind \in {"record", "announce", "patch"}
           /\ request[r].seen # Read]_vars
  BY ProperStep DEF Overtaken
<1>2. QED BY <1>1, Invariance, PTL DEF Spec, OnlyOverlapsBreak

LEMMA ClosedStep ==
  ASSUME IInv, [Next]_vars, status = "closed", <<status, minutes>>' # <<status, minutes>>
  PROVE  \E r \in Request : Commits(r) /\ request[r].at \notin {"closing", "closed"}
<1>1. CASE Writes
  <2>1. PICK r \in Request : /\ request' = [request EXCEPT ![r] = Idle]
                             /\ \/ request[r].kind # "idle"
                                \/ request[r] # Idle
    BY <1>1 DEF Writes, Record, Portal, Resolve, Window, Announce, Patch, Attend,
                Disrupt, Abort, Done
  <2>2. request[r] # Idle
    BY <2>1 DEF Idle
  <2>3. Commits(r)
    BY <2>1, <2>2, DoneLeaves DEF Commits, IInv
  <2>4. QED BY <2>2, <2>3 DEF IInv, Begun, Checked
<1>2. CASE Reads
  <2>1. UNCHANGED <<status, attendance, item>>
    BY <1>2, ReadsAreChecked DEF Begin, IInv
  <2>2. QED BY <2>1 DEF minutes, item
<1>3. CASE Single
  BY <1>3 DEF Single, request_close, confirm_close, withdraw_close, put_online_setting,
              grant_proxy, revoke_proxy, item, minutes
<1>4. CASE UNCHANGED vars
  BY <1>4 DEF vars, item, minutes
<1>5. QED BY <1>1, <1>2, <1>3, <1>4 DEF Next

\* ClosedUnlessBegunBefore: closed minutes are changed only by a request that
\* had read the meeting before the closing was asked for (R07-01).
THEOREM ClosedUnlessBegunBefore == Spec => ClosedIsFrozen
<1>1. IInv /\ [Next]_vars =>
        [status = "closed" /\ <<status, minutes>>' # <<status, minutes>> =>
           \E r \in Request : Commits(r) /\ request[r].at \notin {"closing", "closed"}]_vars
  BY ClosedStep
<1>2. QED BY <1>1, Invariance, PTL DEF Spec, ClosedIsFrozen
=============================================================================
