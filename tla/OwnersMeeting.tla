---------------------------- MODULE OwnersMeeting ----------------------------
(***************************************************************************)
(* Voting on one agenda item of a hybrid owners' meeting (hoa/meetings.py, *)
(* hoa/online_meeting.py, portal/owner_meetings.py): votes recorded by the *)
(* manager or cast in the portal by owners and proxy holders, the rule for *)
(* an owner's vote against a proxy's, the announcement of the result,      *)
(* disruptions, and the closing of the minutes by two persons.             *)
(*                                                                         *)
(* A request is a transaction.  One that locks all it reads is one step.   *)
(* The others read and check first (the actions Begin..) and write later   *)
(* (the actions that take a request r), when others may have committed: a  *)
(* portal vote, a decision on a conflict and the voting window lock the    *)
(* item before they read it, but read the status of the meeting earlier; a *)
(* vote recorded by the manager, an announcement, a change of the item, an *)
(* attendance and a disruption lock nothing they have read.                *)
(*                                                                         *)
(* The meeting is invited, the online switch on, gate G4 open; every unit  *)
(* has confirmed its participation, so it has its one attendance row.      *)
(* Weights are left out, and so are the choices: a source (the owner, or   *)
(* the proxy holder) votes once for a unit, so a vote is known by its      *)
(* source and a tally by the source counted for each unit.                 *)
(***************************************************************************)
EXTENDS Integers, Sequences

CONSTANTS
  Unit,      \* units, each with one vote
  User,      \* people with the right to close the minutes
  NoUser,
  Mode,      \* tenant rules for a second vote that are in use
  Request    \* slots for requests in flight: a bound on their number

Source == {"own", "proxy"}
Modes == {"flag", "first_vote", "proxy_priority", "own_priority"}

ASSUME MeetingAssumption == NoUser \notin User /\ Mode \subseteq Modes

VARIABLES
  status,      \* of the meeting
  closing,     \* who asked for the closing of the minutes
  attendance,  \* per unit: present itself, by proxy, or neither
  proxy,       \* units with an active portal proxy
  mode,        \* tenant rule proxy_conflict_mode
  window,      \* online voting of the item
  result,      \* of the item; "deferred" also stands for no_vote
  vote,        \* the source counted for each unit
  excluded,    \* units whose vote is excluded from voting
  conflict,    \* conflict records of each unit
  resolution,  \* resolutions announced for the item
  request,     \* what each request in flight has read and will write
  accepted     \* history: votes confirmed to those who cast them

minutes == <<attendance, window, result, vote, excluded, conflict, resolution>>
item == <<window, result, vote, excluded, conflict, resolution, accepted>>
people == <<closing, proxy, mode>>
vars == <<status, attendance, people, item, request>>

Status == {"invited", "held", "disrupted", "closing", "closed"}
Votes == [Unit -> Source \cup {"none"}]
Conflict == [first: Source, second: Source, state: {"open", "resolved"}]
Resolution == [tally: Votes, number: Nat]

\* What a request reads of the item before it writes.
Facts == [result: {"none", "deferred", "announced"}, vote: Votes, announced: Nat]
Read == [result |-> result, vote |-> vote, announced |-> Len(resolution)]

\* "at" is the status the request has read.
Idle == [kind |-> "idle"]
InFlight ==
       [kind: {"record"}, at: Status, unit: Unit, source: Source,
        excluded: BOOLEAN, seen: Facts]
  \cup [kind: {"portal"}, at: Status, unit: Unit, source: Source]
  \cup [kind: {"resolve"}, at: Status, unit: Unit,
        decision: {"keep_first", "apply_second"}]
  \cup [kind: {"window"}, at: Status, to: {"open", "closed"}]
  \cup [kind: {"announce"}, at: Status, seen: Facts]
  \cup [kind: {"patch"}, at: Status, to: {"none", "deferred"}, seen: Facts]
  \cup [kind: {"attendance"}, at: Status, unit: Unit, to: Source \cup {"none"}]
  \cup [kind: {"disruption"}, at: Status, to: {"held", "disrupted"}]

\* TypeOK: the rows hold what their columns and check constraints admit.
TypeOK ==
  /\ status \in Status /\ closing \in User \cup {NoUser}
  /\ attendance \in [Unit -> Source \cup {"none"}]
  /\ proxy \subseteq Unit /\ mode \in Modes
  /\ window \in {"not_opened", "open", "closed"}
  /\ result \in {"none", "deferred", "announced"}
  /\ vote \in Votes /\ excluded \subseteq Unit
  /\ conflict \in [Unit -> Seq(Conflict)]
  /\ resolution \in Seq(Resolution)
  /\ request \in [Request -> InFlight \cup {Idle}]
  /\ accepted \subseteq Unit \X Source

Init ==
  /\ status = "invited" /\ closing = NoUser
  /\ attendance = [u \in Unit |-> "none"]
  /\ proxy = {} /\ mode \in Mode
  /\ window = "not_opened" /\ result = "none"
  /\ vote = [u \in Unit |-> "none"] /\ excluded = {}
  /\ conflict = [u \in Unit |-> <<>>] /\ resolution = <<>>
  /\ request = [r \in Request |-> Idle] /\ accepted = {}

-----------------------------------------------------------------------------
(* Reads: a request passes its checks and waits to write. *)

LockedByRequest == status = "closing"                \* mutant of Locked
Locked == status \in {"closing", "closed"}           \* _ensure_not_closed
Halted == Locked \/ status = "disrupted"             \* _ensure_not_disrupted
Announced == resolution # <<>>                       \* announced_items

\* What a request keeps of the status.  Only an attendance writes by which of
\* the statuses before the closing it has read; for the others they are one.
Standing == IF status \in {"closing", "closed"} THEN status ELSE "held"

Begin(what) ==
  /\ \E r \in Request : /\ request[r] = Idle
                        /\ request' = [request EXCEPT ![r] = what]
  /\ UNCHANGED <<status, attendance, people, item>>

\* cast_vote: the source is the proxy holder if the attendance names one.
BeginRecord(u, e) ==
  /\ ~Halted /\ attendance[u] # "none"
  /\ result # "deferred" /\ ~Announced
  /\ Begin([kind |-> "record", at |-> Standing, unit |-> u,
            source |-> attendance[u], excluded |-> e, seen |-> Read])

BeginPortal(u, s) ==
  /\ ~Halted
  /\ Begin([kind |-> "portal", at |-> Standing, unit |-> u, source |-> s])

BeginResolve(u, d) ==
  /\ ~Locked /\ conflict[u] # <<>>
  /\ Begin([kind |-> "resolve", at |-> Standing, unit |-> u, decision |-> d])

BeginWindow(to) ==
  /\ ~Halted
  /\ Begin([kind |-> "window", at |-> Standing, to |-> to])

BeginAnnounce ==
  /\ ~Halted /\ result # "deferred" /\ ~Announced
  /\ Begin([kind |-> "announce", at |-> Standing, seen |-> Read])

\* patch_agenda: deferred only while the item has no vote.
BeginPatch(to) ==
  /\ ~Locked /\ result # "announced" /\ to # result
  /\ to = "deferred" => \A u \in Unit : vote[u] = "none"
  /\ Begin([kind |-> "patch", at |-> Standing, to |-> to, seen |-> Read])

BeginAttendance(u, to) ==
  /\ status \in {"invited", "held"}
  /\ Begin([kind |-> "attendance", at |-> status, unit |-> u, to |-> to])

BeginDisruption(to) ==
  /\ ~Locked
  /\ IF to = "held" THEN status = "disrupted" ELSE status \in {"invited", "held"}
  /\ Begin([kind |-> "disruption", at |-> Standing, to |-> to])

-----------------------------------------------------------------------------
(* Writes of the requests in flight. *)

Done(r, kind) == request[r].kind = kind /\ request' = [request EXCEPT ![r] = Idle]

\* decide_conflict
Decision(first, second) ==
  IF first = second THEN "duplicate"
  ELSE IF \/ mode = "proxy_priority" /\ second = "proxy"
          \/ mode = "own_priority" /\ second = "own" THEN "replace"
  ELSE IF mode = "flag" THEN "review" ELSE "reject"

UsedByTheCounted(u, first) == {first}                \* mutant of Used
Used(u, first) ==
  {first} \cup UNION {{conflict[u][i].first, conflict[u][i].second} :
                      i \in DOMAIN conflict[u]}

\* handle_second_vote: source s for unit u, whose vote the caller has read.
SecondVote(u, first, s) ==
  /\ u \notin excluded /\ s \notin Used(u, first)
  /\ Decision(first, s) \in {"review", "replace"}
  /\ LET replaced == Decision(first, s) = "replace"
     IN /\ conflict' = [conflict EXCEPT ![u] = Append(@,
             [first |-> first, second |-> s,
              state |-> IF replaced THEN "resolved" ELSE "open"])]
        /\ vote' = [vote EXCEPT ![u] = IF replaced THEN s ELSE @]
  /\ UNCHANGED excluded

FirstVoteWithoutIndex(u, s, e) ==                    \* mutant of FirstVote
  /\ vote' = [vote EXCEPT ![u] = s]
  /\ UNCHANGED <<excluded, conflict>>

\* The unique index on item and unit refuses a second row.
FirstVote(u, s, e) ==
  /\ vote[u] = "none"
  /\ vote' = [vote EXCEPT ![u] = s]
  /\ excluded' = IF e THEN excluded \cup {u} ELSE excluded
  /\ UNCHANGED conflict

ConfirmAttending(u, s) ==                            \* mutant of Confirm
  /\ accepted' = accepted \cup {<<u, attendance[u]>>}
  /\ UNCHANGED <<status, attendance, people, window, result, resolution>>

Confirm(u, s) ==
  /\ accepted' = accepted \cup {<<u, s>>}
  /\ UNCHANGED <<status, attendance, people, window, result, resolution>>

\* The manager's vote inserts or joins a conflict by what it read at first.
Record(r) ==
  /\ Done(r, "record")
  /\ LET q == request[r]
         first == q.seen.vote[q.unit]
     IN /\ IF first = "none"
           THEN FirstVote(q.unit, q.source, q.excluded)
           ELSE ~q.excluded /\ SecondVote(q.unit, first, q.source)
        /\ Confirm(q.unit, q.source)

WindowOpen == window = "open"                        \* mutant of VotingOpen
VotingOpen == ~Announced /\ window = "open" /\ result # "deferred"

\* cast_online_vote, after the lock on the item.
Portal(r) ==
  /\ Done(r, "portal")
  /\ VotingOpen
  /\ LET q == request[r]
     IN /\ q.source = "proxy" => q.unit \in proxy
        /\ IF vote[q.unit] = "none" THEN FirstVote(q.unit, q.source, FALSE)
           ELSE SecondVote(q.unit, vote[q.unit], q.source)
        /\ Confirm(q.unit, q.source)

\* resolve_vote_conflict
Resolve(r) ==
  /\ Done(r, "resolve")
  /\ LET u == request[r].unit
         second == request[r].decision = "apply_second"
     IN \E i \in DOMAIN conflict[u] :
          /\ conflict[u][i].state = "open"
          /\ second => ~Announced
          /\ vote' = [vote EXCEPT ![u] = IF second THEN conflict[u][i].second ELSE @]
          /\ conflict' = [conflict EXCEPT ![u][i].state = "resolved"]
  /\ UNCHANGED <<status, attendance, people, window, result, excluded,
                 resolution, accepted>>

\* _set_voting
Window(r) ==
  /\ Done(r, "window")
  /\ ~Announced /\ result # "deferred"
  /\ window = IF request[r].to = "open" THEN "not_opened" ELSE "open"
  /\ window' = request[r].to
  /\ UNCHANGED <<status, attendance, people, result, vote, excluded, conflict,
                 resolution, accepted>>

\* announce: the tally and the number are those read at first.
Announce(r) ==
  /\ Done(r, "announce")
  /\ LET s == request[r].seen
     IN resolution' = Append(resolution, [tally |-> s.vote, number |-> s.announced + 1])
  /\ result' = "announced"
  /\ UNCHANGED <<status, attendance, people, window, vote, excluded, conflict, accepted>>

Patch(r) ==
  /\ Done(r, "patch")
  /\ result' = request[r].to
  /\ UNCHANGED <<status, attendance, people, window, vote, excluded, conflict,
                 resolution, accepted>>

\* An update carries changed columns only: "held" is written over "invited".
Attend(r) ==
  /\ Done(r, "attendance")
  /\ attendance' = [attendance EXCEPT ![request[r].unit] = request[r].to]
  /\ status' = IF request[r].at = "invited" THEN "held" ELSE status
  /\ UNCHANGED <<people, item>>

Disrupt(r) ==
  /\ Done(r, "disruption")
  /\ status' = request[r].to
  /\ UNCHANGED <<attendance, people, item>>

\* A request may fail instead of writing.
Abort(r) ==
  /\ request[r] # Idle
  /\ request' = [request EXCEPT ![r] = Idle]
  /\ UNCHANGED <<status, attendance, people, item>>

-----------------------------------------------------------------------------
(* Requests that lock the one row they read. *)

request_close(u) ==
  /\ status = "held"
  /\ status' = "closing" /\ closing' = u
  /\ UNCHANGED <<attendance, proxy, mode, item, request>>

confirm_close(u) ==
  /\ status = "closing" /\ closing # u
  /\ status' = "closed"
  /\ UNCHANGED <<attendance, people, item, request>>

withdraw_close ==
  /\ status = "closing"
  /\ status' = "held" /\ closing' = NoUser
  /\ UNCHANGED <<attendance, proxy, mode, item, request>>

put_online_setting(m) ==
  /\ mode' = m
  /\ UNCHANGED <<status, closing, proxy, attendance, item, request>>

grant_proxy(u) ==
  /\ proxy' = proxy \cup {u}
  /\ UNCHANGED <<status, closing, mode, attendance, item, request>>

revoke_proxy(u) ==
  /\ u \in proxy /\ proxy' = proxy \ {u}
  /\ UNCHANGED <<status, closing, mode, attendance, item, request>>

Reads ==
  \/ \E u \in Unit : \/ \E e \in BOOLEAN : BeginRecord(u, e)
                     \/ \E s \in Source : BeginPortal(u, s)
                     \/ \E d \in {"keep_first", "apply_second"} : BeginResolve(u, d)
                     \/ \E a \in Source \cup {"none"} : BeginAttendance(u, a)
  \/ \E to \in {"open", "closed"} : BeginWindow(to)
  \/ \E to \in {"none", "deferred"} : BeginPatch(to)
  \/ \E to \in {"held", "disrupted"} : BeginDisruption(to)
  \/ BeginAnnounce

Writes == \E r \in Request :
  \/ Record(r) \/ Portal(r) \/ Resolve(r) \/ Window(r) \/ Announce(r)
  \/ Patch(r) \/ Attend(r) \/ Disrupt(r) \/ Abort(r)

Single ==
  \/ \E u \in User : request_close(u) \/ confirm_close(u)
  \/ withdraw_close
  \/ \E m \in Mode : put_online_setting(m)
  \/ \E u \in Unit : grant_proxy(u) \/ revoke_proxy(u)

Next == Reads \/ Writes \/ Single
Spec == Init /\ [][Next]_vars

-----------------------------------------------------------------------------
(* Properties. *)

\* EachSourceOnce: owner and proxy holder each vote at most once for a unit,
\* also when the rule for second votes changes in between (handle_second_vote;
\* AE31 rule 4): a unit has at most one conflict, between two sources.
EachSourceOnce ==
  \A u \in Unit :
    /\ Len(conflict[u]) <= 1
    /\ \A i \in DOMAIN conflict[u] : conflict[u][i].first # conflict[u][i].second

\* NoVoteLost: a vote confirmed to the one who cast it is the counted one or
\* stands in a conflict record (handle_second_vote "so no vote is lost").
NoVoteLost ==
  \A a \in accepted :
    \/ vote[a[1]] = a[2]
    \/ \E i \in DOMAIN conflict[a[1]] :
         a[2] \in {conflict[a[1]][i].first, conflict[a[1]][i].second}

\* The item as the rules want it: one resolution at most, counting the votes
\* there are; deferred only without votes.
Proper ==
  /\ Len(resolution) <= 1
  /\ Announced <=> result = "announced"
  /\ \A i \in DOMAIN resolution : resolution[i] = [tally |-> vote, number |-> i]
  /\ result = "deferred" => \A u \in Unit : vote[u] = "none"

Commits(r) == request[r] # Idle /\ request'[r] = Idle

\* OnlyOverlapsBreak: the item loses its proper form (AA06: deferred only
\* without votes, no vote after the announcement, the result that was counted)
\* only when a request writes on reads another request has overtaken.
OnlyOverlapsBreak ==
  [][Proper => Proper' \/ \E r \in Request :
       /\ Commits(r) /\ request[r].kind \in {"record", "announce", "patch"}
       /\ request[r].seen # Read]_vars

\* ClosedIsFrozen: what the closed minutes rest on, and the closing itself, are
\* changed only by a request that had read the meeting before the closing was
\* asked for (R07-01: changes answer 409).
ClosedIsFrozen ==
  [][status = "closed" /\ <<status, minutes>>' # <<status, minutes>> =>
       \E r \in Request : Commits(r) /\ request[r].at \notin {"closing", "closed"}]_vars

\* ClosedStaysClosed: "a closed meeting stays closed" (withdraw_close).
ClosedStaysClosed == [][status = "closed" => status' = "closed"]_vars
=============================================================================
